------------------------------ MODULE TestRun ------------------------------
(***************************************************************************)
(* One test driver and one Python publisher (zmq_pub.py; rmq_pub.py and    *)
(* kafka_pub.py have the same two threads around the same dictionary).     *)
(*                                                                         *)
(*   driver     rerun_test: updateconfig, teststart, teststatus until the  *)
(*              test has ended, then getstats twice                        *)
(*   daemon     the thread of HDaemonRepSrv, answering one request at a    *)
(*              time                                                       *)
(*   publisher  the main thread: wait for start, send, write the results,  *)
(*              wait again                                                 *)
(*                                                                         *)
(* Daemon and publisher share run_data with no lock, so every assignment   *)
(* to it is a step of its own.  A stats dictionary is identified by the    *)
(* number of the teststart that created it: run_data['stats'] is looked up *)
(* anew at every assignment, and may by then be another dictionary.  A     *)
(* measured value is abstracted to the configuration it was measured       *)
(* under, which is the number of the test that sent that configuration.    *)
(*                                                                         *)
(* Not here: the traffic itself, the :start entries a dictionary is born   *)
(* with, stale replies after a timeout (module ReqRep).                    *)
(***************************************************************************)
EXTENDS Naturals, Sequences, FiniteSets

CONSTANT MaxTests    \* bound: the tests one driver runs on one publisher

ASSUME MaxTestsAssumption == MaxTests \in Nat \ {0}

VARIABLES
  mpc,        \* driver: the command it is at, or how it ended
  round,      \* driver: the test it is at
  read1,      \* driver: what the first of the two getstats returned
  results,    \* driver: the stats kept, one dictionary per finished test
  chan,       \* the REQ/REP pair: what is in flight, and its contents
  dpc,        \* daemon: where in a handler it is
  iter,       \* daemon: the dictionary it is copying into a reply, its keys
  ppc,        \* publisher: where in its loop it is
  wr,         \* publisher: the next result to write
  used,       \* publisher: the configuration the run ended under
  config,     \* hd.test_duration, hd.msg_batch, hd.msg_requested_rate
  start,      \* run_data['start']
  status,     \* run_data['test_status']
  cur,        \* the dictionary run_data['stats'] refers to
  heap        \* the stats dictionaries

driver    == <<mpc, round, read1, results>>
daemon    == <<dpc, iter>>
publisher == <<ppc, wr, used>>
run_data  == <<start, status, cur, heap>>
vars      == <<driver, chan, daemon, publisher, config, run_data>>

\* The results, in the order the publisher writes them.
EndFields == <<"time:end", "rate", "msg_cnt", "net:end", "cpu:end", "mem:end">>
Keys      == {EndFields[i] : i \in 1..6}
Dicts     == UNION {[K -> 0..MaxTests] : K \in SUBSET Keys}
Empty     == <<>>

Commands == {"updateconfig", "teststart", "teststatus", "getstats", "getstats2"}
EndedLate == {"done", "stopped"}
Ended    == {"done", "stopping", "stopped"}

Messages == [dir : {"none", "request", "reply"}, cmd : Commands \cup {"none"},
             arg : 0..MaxTests, status : Ended \cup {"", "running"}, stats : Dicts]

Put(d, k, v) == [j \in DOMAIN d \cup {k} |-> IF j = k THEN v ELSE d[j]]

Init ==
  /\ mpc = "updateconfig" /\ round = 1 /\ read1 = Empty /\ results = <<>>
  /\ chan = [dir |-> "none", cmd |-> "none", arg |-> 0, status |-> "", stats |-> Empty]
  /\ dpc = "recv" /\ iter = [dict |-> 0, keys |-> {}]
  /\ ppc = "idle" /\ wr = 1 /\ used = 0
  /\ config = 0
  /\ start = FALSE /\ status = "stopped" /\ cur = 0
  /\ heap = [d \in 0..MaxTests |->
               IF d = 0 THEN [k \in {"rate", "msg_cnt"} |-> 0] ELSE Empty]

-----------------------------------------------------------------------------
(* The driver.  Every call of HAnalyser blocks it until the reply or the   *)
(* timeout.                                                                *)

Send == /\ mpc \in Commands
        /\ chan.dir = "none"
        /\ chan' = [chan EXCEPT !.dir = "request", !.cmd = mpc, !.arg = round]
        /\ UNCHANGED <<driver, daemon, publisher, config, run_data>>

Receive(c) == /\ mpc = c
              /\ chan.dir = "reply"
              /\ chan' = [chan EXCEPT !.dir = "none", !.status = "", !.stats = Empty]
              /\ UNCHANGED <<daemon, publisher, config, run_data>>

Configured == /\ Receive("updateconfig")
              /\ mpc' = "teststart"
              /\ UNCHANGED <<round, read1, results>>

Started == /\ Receive("teststart")
           /\ mpc' = "teststatus"
           /\ UNCHANGED <<round, read1, results>>

\* wait_for_testend: ask again until the status is one of those that end it.
Polled == /\ Receive("teststatus")
          /\ mpc' = IF chan.status \in Ended THEN "getstats" ELSE "teststatus"
          /\ UNCHANGED <<round, read1, results>>

ReadFirst == /\ Receive("getstats")
             /\ read1' = chan.stats
             /\ mpc' = "getstats2"
             /\ UNCHANGED <<round, results>>

\* fetch_app_stats keeps the first read when the second has the same msg_cnt;
\* a read without msg_cnt is a KeyError.
ReadSecond ==
  /\ Receive("getstats2")
  /\ IF "msg_cnt" \notin DOMAIN read1 \cap DOMAIN chan.stats
     THEN mpc' = "raised" /\ UNCHANGED <<round, read1, results>>
     ELSE IF read1["msg_cnt"] # chan.stats["msg_cnt"]
     THEN mpc' = "getstats2" /\ read1' = chan.stats /\ UNCHANGED <<round, results>>
     ELSE /\ results' = Append(results, read1)
          /\ read1' = Empty
          /\ round' = round + 1
          /\ mpc' = IF round < MaxTests THEN "updateconfig" ELSE "finished"

\* No reply within the 10 s or 60 s of the poll: each of the calls raises.
TimeOut == /\ mpc \in Commands
           /\ chan.dir = "request"
           /\ mpc' = "timedout"
           /\ UNCHANGED <<round, read1, results, chan, daemon, publisher, config, run_data>>

Driver == \/ Send \/ Configured \/ Started \/ Polled \/ ReadFirst \/ ReadSecond
          \/ TimeOut

-----------------------------------------------------------------------------
(* The daemon thread: one request, one handler, one reply.                 *)

Serve(c) == dpc = "recv" /\ chan.dir = "request" /\ chan.cmd = c

Reply(s, d) == chan' = [chan EXCEPT !.dir = "reply", !.status = s, !.stats = d]

UpdateConfigNot == /\ Serve("updateconfig")
                   /\ Reply("", Empty)
                   /\ UNCHANGED <<driver, daemon, publisher, config, run_data>>

UpdateConfig == /\ Serve("updateconfig")
                /\ config' = chan.arg
                /\ Reply("", Empty)
                /\ UNCHANGED <<driver, daemon, publisher, run_data>>

\* test_start: run_data['start'], then ['test_status'], then ['stats'].
TestStart1 == /\ Serve("teststart")
              /\ start' = TRUE
              /\ dpc' = "start2"
              /\ UNCHANGED <<driver, chan, iter, publisher, config, status, cur, heap>>

TestStart2NoStatus == /\ dpc = "start2"
                      /\ dpc' = "start3"
                      /\ UNCHANGED <<driver, chan, iter, publisher, config, run_data>>

TestStart2 == /\ dpc = "start2"
              /\ status' = "running"
              /\ dpc' = "start3"
              /\ UNCHANGED <<driver, chan, iter, publisher, config, start, cur, heap>>

TestStart3 == /\ dpc = "start3"
              /\ cur' = cur + 1
              /\ heap' = [heap EXCEPT ![cur + 1] = Empty]
              /\ dpc' = "recv"
              /\ Reply("", Empty)
              /\ UNCHANGED <<driver, iter, publisher, config, start, status>>

TestStatus == /\ Serve("teststatus")
              /\ Reply(status, Empty)
              /\ UNCHANGED <<driver, daemon, publisher, config, run_data>>

\* get_stats hands the dictionary itself to the reply loop, which iterates over
\* it while the publisher may be writing to it.
GetStats == /\ Serve("getstats") \/ Serve("getstats2")
            /\ dpc' = "copy"
            /\ iter' = [dict |-> cur, keys |-> DOMAIN heap[cur]]
            /\ UNCHANGED <<driver, chan, publisher, config, run_data>>

\* A key added meanwhile is a RuntimeError outside the try: the thread ends.
CopyStats ==
  /\ dpc = "copy"
  /\ IF DOMAIN heap[iter.dict] # iter.keys
     THEN dpc' = "dead" /\ UNCHANGED chan
     ELSE dpc' = "recv" /\ Reply("", heap[iter.dict])
  /\ UNCHANGED <<driver, iter, publisher, config, run_data>>

Daemon == \/ UpdateConfig \/ TestStart1 \/ TestStart2 \/ TestStart3
          \/ TestStatus \/ GetStats \/ CopyStats

-----------------------------------------------------------------------------
(* The publisher thread.                                                   *)

Begin == /\ ppc = "idle"
         /\ start
         /\ ppc' = "sending"
         /\ UNCHANGED <<driver, chan, daemon, wr, used, config, run_data>>

\* A test lasts seconds and the handler that started it milliseconds: it has
\* returned by the time elapsed_time reaches hd.test_duration.
TestOutlastsHandler == dpc \notin {"start2", "start3"}

MarkFirst == /\ ppc = "sending"
             /\ TestOutlastsHandler
             /\ used' = config
             /\ ppc' = "mark"
             /\ UNCHANGED <<driver, chan, daemon, wr, config, run_data>>

Elapsed == /\ ppc = "sending"
           /\ TestOutlastsHandler
           /\ used' = config
           /\ wr' = 1
           /\ ppc' = "writing"
           /\ UNCHANGED <<driver, chan, daemon, config, run_data>>

WriteOn == /\ ppc = "writing"
           /\ heap' = [heap EXCEPT ![cur] = Put(@, EndFields[wr], used)]
           /\ wr' = wr + 1
           /\ ppc' = IF wr = 6 THEN "mark" ELSE ppc
           /\ UNCHANGED <<driver, chan, daemon, used, config, start, status, cur>>

Write == /\ ppc = "writing"
         /\ heap' = [heap EXCEPT ![cur] = Put(@, EndFields[wr], used)]
         /\ IF wr = 6 THEN ppc' = "mark" /\ UNCHANGED wr
                      ELSE wr' = wr + 1 /\ UNCHANGED ppc
         /\ UNCHANGED <<driver, chan, daemon, used, config, start, status, cur>>

Mark == /\ ppc = "mark"
        /\ status' = "stopping"
        /\ ppc' = "clear"
        /\ UNCHANGED <<driver, chan, daemon, wr, used, config, start, cur, heap>>

Clear == /\ ppc = "clear"
         /\ start' = FALSE
         /\ ppc' = "idle"
         /\ UNCHANGED <<driver, chan, daemon, wr, used, config, status, cur, heap>>

Publisher == Begin \/ Elapsed \/ Write \/ Mark \/ Clear

-----------------------------------------------------------------------------
Next == Driver \/ Daemon \/ Publisher

Spec == Init /\ [][Next]_vars

\* Each is a thread the interpreter keeps scheduling, and every wait in it is a
\* sleep or a poll with a timeout; a send loop ends when its duration is over.
FairSpec == /\ Spec
            /\ WF_vars(Driver)
            /\ WF_vars(Daemon)
            /\ WF_vars(Publisher)

-----------------------------------------------------------------------------
(* Properties.                                                             *)

\* Every variable stays within the values the code gives it.
TypeOK ==
  /\ mpc \in Commands \cup {"finished", "timedout", "raised"}
  /\ round \in 1..MaxTests + 1
  /\ read1 \in Dicts
  /\ results \in Seq(Dicts)
  /\ chan \in Messages
  /\ dpc \in {"recv", "start2", "start3", "copy", "dead"}
  /\ iter \in [dict : 0..MaxTests, keys : SUBSET Keys]
  /\ ppc \in {"idle", "sending", "writing", "mark", "clear"}
  /\ wr \in 1..6
  /\ used \in 0..MaxTests
  /\ config \in 0..MaxTests
  /\ start \in BOOLEAN
  /\ status \in {"stopped", "running", "stopping"}
  /\ cur \in 0..MaxTests
  /\ heap \in [0..MaxTests -> Dicts]

\* A complete result of test t: every key, all measured under t's configuration.
Complete(d, t) == DOMAIN d = Keys /\ \A k \in Keys : d[k] = t

\* Whoever is told the test is 'stopping' finds the stats of that test already
\* complete: lines 128-134 of zmq_pub.py come before 135, and no teststart has
\* put another dictionary in between.
StatsComplete ==
  status = "stopping" /\ dpc # "start2" => Complete(heap[cur], cur)

\* What the driver keeps for its t-th test was measured by the t-th test, whole:
\* no reading is left over from the test before or taken while one is written.
ResultsAreOwn == \A t \in 1..Len(results) : Complete(results[t], t)

\* The daemon never copies a dictionary the publisher is adding keys to (it would
\* die of a RuntimeError), and the driver never reads stats without msg_cnt.
NoThreadDies == dpc # "dead" /\ mpc # "raised"

\* The start of a test is gone: the publisher has cleared the flag the handler
\* had just set, and waits for another start while the status says 'running'.
StartLost == ~start /\ status = "running" /\ ppc = "idle" /\ dpc = "recv"

\* Every test the driver begins ends with its results taken, or in a timeout, or
\* with its start lost: there is no other way to wait forever.
TestEndsOrStartLost ==
  \A t \in 1..MaxTests :
    (round = t) ~> (round > t \/ mpc = "timedout" \/ StartLost)

\* After a test the publisher goes back to waiting for the next one (the comment
\* of zmq_pub.py:136), so every test ends.
EveryTestEnds == \A t \in 1..MaxTests : (round = t) ~> (round > t \/ mpc = "timedout")

\* Driver and publisher implement TestCycle: the publisher is seen as running
\* from the moment its handler has put the test's dictionary in place, as ended
\* from the moment it says 'stopping'.
Cycle == INSTANCE TestCycle WITH
  pub <- IF cur # round THEN "idle" ELSE IF status = "stopping" THEN "ended" ELSE "running"
ImplementsCycle == Cycle!Spec
=============================================================================
