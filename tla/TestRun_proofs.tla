--------------------------- MODULE TestRun_proofs ---------------------------
(***************************************************************************)
(* TestRun for every number of tests: type correctness, the completeness   *)
(* of the stats behind a 'stopping', the ownership of the results kept and *)
(* the absence of the two exceptions.                                      *)
(*                                                                         *)
(* None of them is inductive: that no result is written while a reply is   *)
(* copied follows from where the driver is, and where the driver is allows *)
(* conclusions about the publisher only through the status it was last     *)
(* told.  IInv says this, one conjunct per actor and one per pair.         *)
(***************************************************************************)
EXTENDS TestRun, TLAPS, SequenceTheorems

\* The command the driver is at; one that has timed out is still in flight.
At == IF mpc = "timedout" THEN chan.cmd ELSE mpc

InHandler == dpc \in {"start2", "start3"}

\* The teststart of the round has been served, and the driver has not yet been
\* told that the test has ended.
Polling == \/ At = "teststart" /\ chan.dir = "reply"
           \/ At = "teststatus" /\ (chan.dir = "reply" => chan.status \notin Ended)

\* The REQ/REP pair: one request of the current round at a time.
ChanInv ==
  /\ chan.dir # "none" => /\ chan.arg = round
                          /\ chan.cmd \in Commands
                          /\ mpc \in {chan.cmd, "timedout"}
  /\ mpc = "timedout" => chan.dir # "none"
  /\ mpc # "raised"
  /\ mpc \in Commands \cup {"timedout"} => round <= MaxTests

\* Which dictionary and configuration are in place, by the driver's position.
RoundInv ==
  /\ At \in {"updateconfig", "finished"} => cur = round - 1
  /\ At = "updateconfig" /\ chan.dir = "reply" => config = round
  /\ At \in Commands \ {"updateconfig"} => config = round
  /\ At = "teststart" /\ chan.dir # "reply" => cur = round - 1
  /\ At = "teststart" /\ chan.dir = "reply" => cur = round
  /\ At \in {"teststatus", "getstats", "getstats2"} => cur = round

\* What the driver may conclude about the status, by its position.
StatusInv ==
  /\ At = "teststart" /\ chan.dir = "reply" => status \in {"running", "stopping"}
  /\ At = "teststatus" => status \in {"running", "stopping"}
  /\ At = "teststatus" /\ chan.dir = "reply" /\ chan.status \in Ended => status = "stopping"
  /\ At \in {"getstats", "getstats2"} => status = "stopping"

\* The daemon's position in a handler.
DaemonInv ==
  /\ dpc # "dead"
  /\ InHandler => chan.dir = "request" /\ chan.cmd = "teststart"
  /\ dpc = "start3" => status = "running"
  /\ dpc = "copy" => /\ chan.dir = "request"
                     /\ chan.cmd \in {"getstats", "getstats2"}
                     /\ iter = [dict |-> cur, keys |-> DOMAIN heap[cur]]

\* The publisher's position, and what it has written.
PublisherInv ==
  /\ ppc = "sending" => start
  /\ start /\ ppc \in {"idle", "sending"} /\ ~InHandler =>
       status = "running" /\ Polling /\ heap[cur] = Empty
  /\ ppc \in {"writing", "mark"} =>
       /\ status = "running"
       /\ Polling
       /\ ~InHandler
       /\ used = cur
       /\ \A k \in DOMAIN heap[cur] : heap[cur][k] = cur
  /\ ppc = "writing" => DOMAIN heap[cur] = {EndFields[i] : i \in 1..wr - 1}
  /\ ppc = "mark" => DOMAIN heap[cur] = Keys

\* What the driver has read.
ReadInv ==
  /\ At \in {"getstats", "getstats2"} /\ chan.dir = "reply" => Complete(chan.stats, round)
  /\ At = "getstats2" => Complete(read1, round)

\* What the driver has kept.
ResultsInv == Len(results) = round - 1 /\ ResultsAreOwn

IInv == /\ TypeOK
        /\ ChanInv
        /\ RoundInv
        /\ StatusInv
        /\ DaemonInv
        /\ PublisherInv
        /\ ReadInv
        /\ ResultsInv
        /\ StatsComplete

-----------------------------------------------------------------------------
(* The dictionaries.                                                       *)

LEMMA EmptyIsDict == Empty \in Dicts
<1>1. Empty \in [{} -> 0..MaxTests]  BY DEF Empty
<1>2. QED  BY <1>1 DEF Dicts

LEMMA PutIsDict ==
  ASSUME NEW d \in Dicts, NEW k \in Keys, NEW v \in 0..MaxTests
  PROVE  Put(d, k, v) \in Dicts
<1>1. PICK K \in SUBSET Keys : d \in [K -> 0..MaxTests]  BY DEF Dicts
<1>2. K \cup {k} \in SUBSET Keys  OBVIOUS
<1>3. Put(d, k, v) \in [K \cup {k} -> 0..MaxTests]  BY <1>1 DEF Put
<1>4. QED  BY <1>2, <1>3 DEF Dicts

LEMMA DictDomain ==
  ASSUME NEW d \in Dicts
  PROVE  DOMAIN d \subseteq Keys
BY DEF Dicts

LEMMA EndFieldsAreKeys ==
  /\ \A i \in 1..6 : EndFields[i] \in Keys
  /\ {EndFields[i] : i \in 1..0} = {}
  /\ Keys = {EndFields[i] : i \in 1..5} \cup {EndFields[6]}
  /\ "msg_cnt" \in Keys
BY DEF Keys, EndFields

LEMMA InitialDict == [k \in {"rate", "msg_cnt"} |-> 0] \in Dicts
<1>1. {"rate", "msg_cnt"} \in SUBSET Keys  BY DEF Keys, EndFields
<1>2. [k \in {"rate", "msg_cnt"} |-> 0] \in [{"rate", "msg_cnt"} -> 0..MaxTests]
  BY MaxTestsAssumption
<1>3. QED  BY <1>1, <1>2 DEF Dicts

-----------------------------------------------------------------------------
LEMMA InitIInv == Init => IInv
<1> SUFFICES ASSUME Init PROVE IInv  OBVIOUS
<1> USE MaxTestsAssumption DEF Commands, At, InHandler
<1>1. /\ mpc = "updateconfig" /\ round = 1 /\ results = <<>> /\ config = 0 /\ cur = 0
      /\ dpc = "recv" /\ ppc = "idle" /\ start = FALSE /\ status = "stopped"
  BY DEF Init
<1>2. chan = [dir |-> "none", cmd |-> "none", arg |-> 0, status |-> "", stats |-> Empty]
  BY DEF Init
<1>3. chan.dir = "none"  BY <1>2
<1>4. 1 <= MaxTests /\ 1 \in 1..MaxTests + 1  OBVIOUS
<1>5. TypeOK
  <2>1. heap \in [0..MaxTests -> Dicts]  BY InitialDict, EmptyIsDict DEF Init
  <2>2. results \in Seq(Dicts)  BY <1>1, EmptySeq
  <2>3. chan \in Messages
    <3>1. "none" \in Commands \cup {"none"} /\ 0 \in 0..MaxTests /\ "" \in Ended \cup {"", "running"}
      OBVIOUS
    <3>2. QED  BY <1>2, <3>1, EmptyIsDict DEF Messages
  <2>4. iter \in [dict : 0..MaxTests, keys : SUBSET Keys]
    <3>1. iter = [dict |-> 0, keys |-> {}]  BY DEF Init
    <3>2. QED  BY <3>1
  <2>0. read1 \in Dicts /\ wr \in 1..6 /\ used \in 0..MaxTests
    <3>1. read1 = Empty /\ wr = 1 /\ used = 0  BY DEF Init
    <3>2. QED  BY <3>1, EmptyIsDict
  <2>5. QED  BY <1>1, <1>4, <2>1, <2>2, <2>3, <2>4, <2>0 DEF TypeOK
<1>6. ChanInv  BY <1>1, <1>3, <1>4 DEF ChanInv
<1>7. RoundInv /\ StatusInv  BY <1>1, <1>3 DEF RoundInv, StatusInv
<1>8. DaemonInv /\ PublisherInv  BY <1>1 DEF DaemonInv, PublisherInv
<1>9. ReadInv  BY <1>1 DEF ReadInv
<1>10. ResultsInv
  <2>1. Len(results) = 0  BY <1>1, EmptySeq
  <2>2. 1..Len(results) = {}  BY <2>1
  <2>3. Len(results) = round - 1  BY <1>1, <2>1
  <2>4. QED  BY <2>2, <2>3 DEF ResultsInv, ResultsAreOwn
<1>11. StatsComplete  BY <1>1 DEF StatsComplete
<1>12. QED  BY <1>5, <1>6, <1>7, <1>8, <1>9, <1>10, <1>11 DEF IInv

LEMMA NextIInv == IInv /\ [Next]_vars => IInv'
<1> SUFFICES ASSUME IInv, [Next]_vars PROVE IInv'  OBVIOUS
<1> USE MaxTestsAssumption, EmptyIsDict DEF IInv, driver, daemon, publisher, run_data,
        Commands, Ended, At, InHandler, Polling
<1>1. CASE Send
  <2>1. TypeOK'
    <3>1. round \in 0..MaxTests /\ mpc \in Commands  BY <1>1 DEF Send, TypeOK, ChanInv
    <3>2. chan' \in Messages  BY <1>1, <3>1 DEF Send, TypeOK, Messages
    <3>3. QED  BY <1>1, <3>2 DEF Send, TypeOK
  <2>2. ChanInv'  BY <1>1 DEF Send, TypeOK, ChanInv, Messages
  <2>3. RoundInv'  BY <1>1 DEF Send, TypeOK, ChanInv, RoundInv, Messages
  <2>4. StatusInv'  BY <1>1 DEF Send, TypeOK, ChanInv, StatusInv, Messages
  <2>5. DaemonInv'  BY <1>1 DEF Send, TypeOK, ChanInv, DaemonInv
  <2>6. PublisherInv'  BY <1>1 DEF Send, TypeOK, ChanInv, DaemonInv, PublisherInv
  <2>7. ReadInv'  BY <1>1 DEF Send, TypeOK, ChanInv, RoundInv, ReadInv, Messages
  <2>8. ResultsInv'  BY <1>1 DEF Send, TypeOK, ResultsInv, ResultsAreOwn
  <2>9. StatsComplete'  BY <1>1 DEF Send, StatsComplete, TypeOK
  <2>10. QED  BY <2>1, <2>2, <2>3, <2>4, <2>5, <2>6, <2>7, <2>8, <2>9
<1>2. CASE Configured
  <2>1. TypeOK'  BY <1>2 DEF Configured, Receive, TypeOK, Messages
  <2>2. ChanInv'  BY <1>2 DEF Configured, Receive, TypeOK, ChanInv, Messages
  <2>3. RoundInv'  BY <1>2 DEF Configured, Receive, TypeOK, ChanInv, RoundInv, Messages
  <2>4. StatusInv'  BY <1>2 DEF Configured, Receive, TypeOK, ChanInv, StatusInv, Messages
  <2>5. DaemonInv'  BY <1>2 DEF Configured, Receive, TypeOK, ChanInv, DaemonInv
  <2>6. PublisherInv'  BY <1>2 DEF Configured, Receive, TypeOK, ChanInv, DaemonInv, PublisherInv
  <2>7. ReadInv'  BY <1>2 DEF Configured, Receive, TypeOK, ChanInv, RoundInv, ReadInv, Messages
  <2>8. ResultsInv'  BY <1>2 DEF Configured, Receive, TypeOK, ResultsInv, ResultsAreOwn
  <2>9. StatsComplete'  BY <1>2 DEF Configured, Receive, StatsComplete, TypeOK
  <2>10. QED  BY <2>1, <2>2, <2>3, <2>4, <2>5, <2>6, <2>7, <2>8, <2>9
<1>3. CASE Started
  <2>1. TypeOK'  BY <1>3 DEF Started, Receive, TypeOK, Messages
  <2>2. ChanInv'  BY <1>3 DEF Started, Receive, TypeOK, ChanInv, Messages
  <2>3. RoundInv'  BY <1>3 DEF Started, Receive, TypeOK, ChanInv, RoundInv, Messages
  <2>4. StatusInv'  BY <1>3 DEF Started, Receive, TypeOK, ChanInv, StatusInv, Messages
  <2>5. DaemonInv'  BY <1>3 DEF Started, Receive, TypeOK, ChanInv, DaemonInv
  <2>6. PublisherInv'  BY <1>3 DEF Started, Receive, TypeOK, ChanInv, DaemonInv, PublisherInv
  <2>7. ReadInv'  BY <1>3 DEF Started, Receive, TypeOK, ChanInv, RoundInv, ReadInv, Messages
  <2>8. ResultsInv'  BY <1>3 DEF Started, Receive, TypeOK, ResultsInv, ResultsAreOwn
  <2>9. StatsComplete'  BY <1>3 DEF Started, Receive, StatsComplete, TypeOK
  <2>10. QED  BY <2>1, <2>2, <2>3, <2>4, <2>5, <2>6, <2>7, <2>8, <2>9
<1>4. CASE Polled
  <2>1. TypeOK'  BY <1>4 DEF Polled, Receive, TypeOK, Messages
  <2>2. ChanInv'  BY <1>4 DEF Polled, Receive, TypeOK, ChanInv, Messages
  <2>3. RoundInv'  BY <1>4 DEF Polled, Receive, TypeOK, ChanInv, RoundInv, Messages
  <2>4. StatusInv'  BY <1>4 DEF Polled, Receive, TypeOK, ChanInv, StatusInv, Messages
  <2>5. DaemonInv'  BY <1>4 DEF Polled, Receive, TypeOK, ChanInv, DaemonInv
  <2>6. PublisherInv'  BY <1>4 DEF Polled, Receive, TypeOK, ChanInv, DaemonInv, PublisherInv
  <2>7. ReadInv'  BY <1>4 DEF Polled, Receive, TypeOK, ChanInv, RoundInv, ReadInv, Messages
  <2>8. ResultsInv'  BY <1>4 DEF Polled, Receive, TypeOK, ResultsInv, ResultsAreOwn
  <2>9. StatsComplete'  BY <1>4 DEF Polled, Receive, StatsComplete, TypeOK
  <2>10. QED  BY <2>1, <2>2, <2>3, <2>4, <2>5, <2>6, <2>7, <2>8, <2>9
<1>5. CASE ReadFirst
  <2>1. TypeOK'  BY <1>5 DEF ReadFirst, Receive, TypeOK, Messages
  <2>2. ChanInv'  BY <1>5 DEF ReadFirst, Receive, TypeOK, ChanInv, Messages
  <2>3. RoundInv'  BY <1>5 DEF ReadFirst, Receive, TypeOK, ChanInv, RoundInv, Messages
  <2>4. StatusInv'  BY <1>5 DEF ReadFirst, Receive, TypeOK, ChanInv, StatusInv, Messages
  <2>5. DaemonInv'  BY <1>5 DEF ReadFirst, Receive, TypeOK, ChanInv, DaemonInv
  <2>6. PublisherInv'  BY <1>5 DEF ReadFirst, Receive, TypeOK, ChanInv, DaemonInv, PublisherInv
  <2>7. ReadInv'  BY <1>5 DEF ReadFirst, Receive, TypeOK, ChanInv, RoundInv, ReadInv, Messages
  <2>8. ResultsInv'  BY <1>5 DEF ReadFirst, Receive, TypeOK, ResultsInv, ResultsAreOwn
  <2>9. StatsComplete'  BY <1>5 DEF ReadFirst, Receive, StatsComplete, TypeOK
  <2>10. QED  BY <2>1, <2>2, <2>3, <2>4, <2>5, <2>6, <2>7, <2>8, <2>9
<1>6. CASE ReadSecond
  <2>0. /\ At = "getstats2" /\ chan.dir = "reply"
        /\ Complete(read1, round) /\ round \in 1..MaxTests /\ cur = round
        /\ results' = Append(results, read1) /\ read1' = Empty /\ round' = round + 1
        /\ mpc' = IF round < MaxTests THEN "updateconfig" ELSE "finished"
    <3>1. At = "getstats2" /\ chan.dir = "reply"  BY <1>6 DEF ReadSecond, Receive
    <3>2. Complete(read1, round) /\ Complete(chan.stats, round)  BY <3>1 DEF ReadInv
    <3>3. "msg_cnt" \in DOMAIN read1 \cap DOMAIN chan.stats /\ read1["msg_cnt"] = chan.stats["msg_cnt"]
      BY <3>2, EndFieldsAreKeys DEF Complete
    <3>4. round \in 1..MaxTests /\ cur = round
      BY <1>6, <3>1 DEF ReadSecond, Receive, TypeOK, ChanInv, RoundInv
    <3>5. QED  BY <1>6, <3>1, <3>2, <3>3, <3>4 DEF ReadSecond
  <2>1. TypeOK'
    <3>1. results' \in Seq(Dicts)
      BY <2>0, AppendProperties DEF TypeOK
    <3>2. chan' \in Messages  BY <1>6 DEF ReadSecond, Receive, TypeOK, Messages
    <3>3. QED  BY <1>6, <2>0, <3>1, <3>2 DEF ReadSecond, Receive, TypeOK
  <2>2. ChanInv'
    <3>1. chan'.dir = "none"  BY <1>6 DEF ReadSecond, Receive, TypeOK, Messages
    <3>2. QED  BY <2>0, <3>1 DEF ChanInv, TypeOK
  <2>3. RoundInv'
    <3>1. chan'.dir = "none"  BY <1>6 DEF ReadSecond, Receive, TypeOK, Messages
    <3>2. QED  BY <1>6, <2>0, <3>1 DEF ReadSecond, Receive, RoundInv, TypeOK
  <2>4. StatusInv'  BY <1>6 DEF ReadSecond, Receive, TypeOK, ChanInv, StatusInv, Messages
  <2>5. DaemonInv'  BY <1>6 DEF ReadSecond, Receive, TypeOK, ChanInv, DaemonInv
  <2>6. PublisherInv'  BY <1>6 DEF ReadSecond, Receive, TypeOK, ChanInv, DaemonInv, PublisherInv
  <2>7. ReadInv'  BY <1>6 DEF ReadSecond, Receive, TypeOK, ChanInv, RoundInv, ReadInv, Messages
  <2>8. ResultsInv'
    <3>1. results \in Seq(Dicts) /\ read1 \in Dicts /\ Len(results) = round - 1
      BY DEF TypeOK, ResultsInv
    <3>2. Len(results') = round  BY <2>0, <3>1, AppendProperties
    <3>3. ASSUME NEW t \in 1..Len(results') PROVE Complete(results'[t], t)
      <4>1. CASE t = round  BY <2>0, <3>1, <4>1, AppendProperties
      <4>2. CASE t # round
        <5>1. t \in 1..Len(results) /\ results'[t] = results[t]
          BY <2>0, <3>1, <3>2, <4>2, AppendProperties
        <5>2. QED  BY <5>1 DEF ResultsInv, ResultsAreOwn
      <4>3. QED  BY <4>1, <4>2
    <3>4. QED  BY <2>0, <3>2, <3>3 DEF ResultsInv, ResultsAreOwn
  <2>9. StatsComplete'  BY <1>6 DEF ReadSecond, Receive, StatsComplete, TypeOK
  <2>10. QED  BY <2>1, <2>2, <2>3, <2>4, <2>5, <2>6, <2>7, <2>8, <2>9
<1>7. CASE TimeOut
  <2>1. TypeOK'  BY <1>7 DEF TimeOut, TypeOK
  <2>2. ChanInv'  BY <1>7 DEF TimeOut, TypeOK, ChanInv
  <2>3. RoundInv'  BY <1>7 DEF TimeOut, TypeOK, ChanInv, RoundInv
  <2>4. StatusInv'  BY <1>7 DEF TimeOut, TypeOK, ChanInv, StatusInv
  <2>5. DaemonInv'  BY <1>7 DEF TimeOut, TypeOK, ChanInv, DaemonInv
  <2>6. PublisherInv'  BY <1>7 DEF TimeOut, TypeOK, ChanInv, DaemonInv, PublisherInv
  <2>7. ReadInv'  BY <1>7 DEF TimeOut, TypeOK, ChanInv, RoundInv, ReadInv
  <2>8. ResultsInv'  BY <1>7 DEF TimeOut, TypeOK, ResultsInv, ResultsAreOwn
  <2>9. StatsComplete'  BY <1>7 DEF TimeOut, StatsComplete, TypeOK
  <2>10. QED  BY <2>1, <2>2, <2>3, <2>4, <2>5, <2>6, <2>7, <2>8, <2>9
<1>8. CASE UpdateConfig
  <2>1. TypeOK'  BY <1>8 DEF UpdateConfig, Serve, Reply, TypeOK, Messages
  <2>2. ChanInv'  BY <1>8 DEF UpdateConfig, Serve, Reply, TypeOK, ChanInv, Messages
  <2>3. RoundInv'  BY <1>8 DEF UpdateConfig, Serve, Reply, TypeOK, ChanInv, RoundInv, Messages
  <2>4. StatusInv'  BY <1>8 DEF UpdateConfig, Serve, Reply, TypeOK, ChanInv, StatusInv, Messages
  <2>5. DaemonInv'  BY <1>8 DEF UpdateConfig, Serve, Reply, TypeOK, ChanInv, DaemonInv
  <2>6. PublisherInv'
    BY <1>8 DEF UpdateConfig, Serve, Reply, TypeOK, ChanInv, DaemonInv, PublisherInv
  <2>7. ReadInv'
    BY <1>8 DEF UpdateConfig, Serve, Reply, TypeOK, ChanInv, RoundInv, ReadInv, Messages
  <2>8. ResultsInv'  BY <1>8 DEF UpdateConfig, Serve, Reply, TypeOK, ResultsInv, ResultsAreOwn
  <2>9. StatsComplete'  BY <1>8 DEF UpdateConfig, Serve, Reply, StatsComplete, TypeOK
  <2>10. QED  BY <2>1, <2>2, <2>3, <2>4, <2>5, <2>6, <2>7, <2>8, <2>9
<1>9. CASE TestStart1
  <2>1. TypeOK'  BY <1>9 DEF TestStart1, Serve, TypeOK
  <2>2. ChanInv'  BY <1>9 DEF TestStart1, Serve, TypeOK, ChanInv
  <2>3. RoundInv'  BY <1>9 DEF TestStart1, Serve, TypeOK, ChanInv, RoundInv
  <2>4. StatusInv'  BY <1>9 DEF TestStart1, Serve, TypeOK, ChanInv, StatusInv
  <2>5. DaemonInv'  BY <1>9 DEF TestStart1, Serve, TypeOK, ChanInv, DaemonInv
  <2>6. PublisherInv'  BY <1>9 DEF TestStart1, Serve, TypeOK, ChanInv, DaemonInv, PublisherInv
  <2>7. ReadInv'  BY <1>9 DEF TestStart1, Serve, TypeOK, ChanInv, RoundInv, ReadInv
  <2>8. ResultsInv'  BY <1>9 DEF TestStart1, Serve, TypeOK, ResultsInv, ResultsAreOwn
  <2>9. StatsComplete'  BY <1>9 DEF TestStart1, Serve, StatsComplete, TypeOK
  <2>10. QED  BY <2>1, <2>2, <2>3, <2>4, <2>5, <2>6, <2>7, <2>8, <2>9
<1>10. CASE TestStart2
  <2>1. TypeOK'  BY <1>10 DEF TestStart2, TypeOK
  <2>2. ChanInv'  BY <1>10 DEF TestStart2, TypeOK, ChanInv
  <2>3. RoundInv'  BY <1>10 DEF TestStart2, TypeOK, ChanInv, RoundInv
  <2>4. StatusInv'  BY <1>10 DEF TestStart2, TypeOK, ChanInv, StatusInv
  <2>5. DaemonInv'  BY <1>10 DEF TestStart2, TypeOK, ChanInv, DaemonInv
  <2>6. PublisherInv'  BY <1>10 DEF TestStart2, TypeOK, ChanInv, DaemonInv, PublisherInv
  <2>7. ReadInv'  BY <1>10 DEF TestStart2, TypeOK, ChanInv, RoundInv, ReadInv
  <2>8. ResultsInv'  BY <1>10 DEF TestStart2, TypeOK, ResultsInv, ResultsAreOwn
  <2>9. StatsComplete'  BY <1>10 DEF TestStart2, StatsComplete, TypeOK
  <2>10. QED  BY <2>1, <2>2, <2>3, <2>4, <2>5, <2>6, <2>7, <2>8, <2>9
<1>11. CASE TestStart3
  <2>0. /\ chan.dir = "request" /\ At = "teststart" /\ status = "running"
        /\ cur + 1 = round /\ cur + 1 \in 1..MaxTests /\ ppc \notin {"writing", "mark"}
        /\ chan' \in Messages /\ chan'.dir = "reply" /\ chan'.cmd = chan.cmd
        /\ chan'.arg = chan.arg /\ chan'.status = "" /\ At' = At
        /\ cur' = round /\ heap'[cur'] = Empty
    <3>1. chan.dir = "request" /\ chan.cmd = "teststart" /\ At = "teststart" /\ status = "running"
      BY <1>11 DEF TestStart3, DaemonInv, ChanInv
    <3>2. cur + 1 = round /\ cur + 1 \in 1..MaxTests
      BY <3>1 DEF RoundInv, ChanInv, TypeOK
    <3>3. ppc \notin {"writing", "mark"}  BY <1>11 DEF TestStart3, PublisherInv
    <3>4. /\ chan' \in Messages /\ chan'.dir = "reply" /\ chan'.cmd = chan.cmd
          /\ chan'.arg = chan.arg /\ chan'.status = ""
      BY <1>11 DEF TestStart3, Reply, TypeOK, Messages
    <3>5. At' = At  BY <1>11, <3>4 DEF TestStart3
    <3>6. cur' = round /\ heap'[cur'] = Empty
      <4>1. cur' = cur + 1 /\ heap' = [heap EXCEPT ![cur + 1] = Empty]  BY <1>11 DEF TestStart3
      <4>2. cur + 1 \in 0..MaxTests /\ heap \in [0..MaxTests -> Dicts]  BY <3>2 DEF TypeOK
      <4>3. QED  BY <3>2, <4>1, <4>2
    <3>7. QED  BY <3>1, <3>2, <3>3, <3>4, <3>5, <3>6
  <2>1. TypeOK'
    <3>1. heap' \in [0..MaxTests -> Dicts]  BY <1>11 DEF TestStart3, TypeOK
    <3>2. cur' \in 0..MaxTests
      <4>1. cur' = cur + 1  BY <1>11 DEF TestStart3
      <4>2. cur + 1 \in 1..MaxTests  BY <2>0
      <4>3. QED  BY <4>1, <4>2
    <3>3. QED  BY <1>11, <2>0, <3>1, <3>2 DEF TestStart3, TypeOK
  <2>2. ChanInv'  BY <1>11, <2>0 DEF TestStart3, ChanInv
  <2>3. RoundInv'  BY <1>11, <2>0 DEF TestStart3, RoundInv
  <2>4. StatusInv'  BY <1>11, <2>0 DEF TestStart3, StatusInv
  <2>5. DaemonInv'  BY <1>11, <2>0 DEF TestStart3, DaemonInv
  <2>6. PublisherInv'  BY <1>11, <2>0 DEF TestStart3, PublisherInv
  <2>7. ReadInv'  BY <1>11, <2>0 DEF TestStart3, ReadInv
  <2>8. ResultsInv'  BY <1>11 DEF TestStart3, Reply, TypeOK, ResultsInv, ResultsAreOwn
  <2>9. StatsComplete'  BY <1>11, <2>0 DEF TestStart3, StatsComplete
  <2>10. QED  BY <2>1, <2>2, <2>3, <2>4, <2>5, <2>6, <2>7, <2>8, <2>9
<1>12. CASE TestStatus
  <2>1. TypeOK'  BY <1>12 DEF TestStatus, Serve, Reply, TypeOK, Messages
  <2>2. ChanInv'  BY <1>12 DEF TestStatus, Serve, Reply, TypeOK, ChanInv, Messages
  <2>3. RoundInv'  BY <1>12 DEF TestStatus, Serve, Reply, TypeOK, ChanInv, RoundInv, Messages
  <2>4. StatusInv'  BY <1>12 DEF TestStatus, Serve, Reply, TypeOK, ChanInv, StatusInv, Messages
  <2>5. DaemonInv'  BY <1>12 DEF TestStatus, Serve, Reply, TypeOK, ChanInv, DaemonInv
  <2>6. PublisherInv'
    BY <1>12 DEF TestStatus, Serve, Reply, TypeOK, ChanInv, DaemonInv, PublisherInv
  <2>7. ReadInv'
    BY <1>12 DEF TestStatus, Serve, Reply, TypeOK, ChanInv, RoundInv, ReadInv, Messages
  <2>8. ResultsInv'  BY <1>12 DEF TestStatus, Serve, Reply, TypeOK, ResultsInv, ResultsAreOwn
  <2>9. StatsComplete'  BY <1>12 DEF TestStatus, Serve, Reply, StatsComplete, TypeOK
  <2>10. QED  BY <2>1, <2>2, <2>3, <2>4, <2>5, <2>6, <2>7, <2>8, <2>9
<1>13. CASE GetStats
  <2>1. TypeOK'
    <3>1. DOMAIN heap[cur] \in SUBSET Keys  BY DictDomain DEF TypeOK
    <3>2. iter' \in [dict : 0..MaxTests, keys : SUBSET Keys]  BY <1>13, <3>1 DEF GetStats, TypeOK
    <3>3. QED  BY <1>13, <3>2 DEF GetStats, TypeOK
  <2>2. ChanInv'  BY <1>13 DEF GetStats, Serve, TypeOK, ChanInv
  <2>3. RoundInv'  BY <1>13 DEF GetStats, Serve, TypeOK, ChanInv, RoundInv
  <2>4. StatusInv'  BY <1>13 DEF GetStats, Serve, TypeOK, ChanInv, StatusInv
  <2>5. DaemonInv'  BY <1>13 DEF GetStats, Serve, TypeOK, ChanInv, DaemonInv
  <2>6. PublisherInv'  BY <1>13 DEF GetStats, Serve, TypeOK, ChanInv, DaemonInv, PublisherInv
  <2>7. ReadInv'  BY <1>13 DEF GetStats, Serve, TypeOK, ChanInv, RoundInv, ReadInv
  <2>8. ResultsInv'  BY <1>13 DEF GetStats, Serve, TypeOK, ResultsInv, ResultsAreOwn
  <2>9. StatsComplete'  BY <1>13 DEF GetStats, Serve, StatsComplete, TypeOK
  <2>10. QED  BY <2>1, <2>2, <2>3, <2>4, <2>5, <2>6, <2>7, <2>8, <2>9
<1>14. CASE CopyStats
  <2>0. /\ chan.dir = "request" /\ At \in {"getstats", "getstats2"} /\ At' = At
        /\ Complete(heap[cur], round) /\ dpc' = "recv"
        /\ chan' \in Messages /\ chan'.dir = "reply" /\ chan'.cmd = chan.cmd
        /\ chan'.arg = chan.arg /\ chan'.stats = heap[cur]
    <3>1. /\ chan.dir = "request" /\ chan.cmd \in {"getstats", "getstats2"} /\ At = chan.cmd
          /\ iter = [dict |-> cur, keys |-> DOMAIN heap[cur]]
      BY <1>14 DEF CopyStats, DaemonInv, ChanInv
    <3>2. status = "stopping" /\ cur = round  BY <3>1 DEF StatusInv, RoundInv
    <3>3. Complete(heap[cur], round)  BY <1>14, <3>2 DEF CopyStats, StatsComplete
    <3>4. dpc' = "recv" /\ Reply("", heap[cur])  BY <1>14, <3>1 DEF CopyStats
    <3>5. /\ chan' \in Messages /\ chan'.dir = "reply" /\ chan'.cmd = chan.cmd
          /\ chan'.arg = chan.arg /\ chan'.stats = heap[cur]
      BY <3>4 DEF Reply, TypeOK, Messages
    <3>6. At' = At  BY <1>14, <3>5 DEF CopyStats
    <3>7. QED  BY <3>1, <3>3, <3>4, <3>5, <3>6
  <2>1. TypeOK'  BY <1>14, <2>0 DEF CopyStats, TypeOK
  <2>2. ChanInv'  BY <1>14, <2>0 DEF CopyStats, ChanInv
  <2>3. RoundInv'  BY <1>14, <2>0 DEF CopyStats, RoundInv
  <2>4. StatusInv'  BY <1>14, <2>0 DEF CopyStats, StatusInv
  <2>5. DaemonInv'  BY <1>14, <2>0 DEF CopyStats, DaemonInv
  <2>6. PublisherInv'  BY <1>14, <2>0 DEF CopyStats, PublisherInv
  <2>7. ReadInv'  BY <1>14, <2>0 DEF CopyStats, ReadInv
  <2>8. ResultsInv'  BY <1>14 DEF CopyStats, Reply, TypeOK, ResultsInv, ResultsAreOwn
  <2>9. StatsComplete'  BY <1>14, <2>0 DEF CopyStats, StatsComplete
  <2>10. QED  BY <2>1, <2>2, <2>3, <2>4, <2>5, <2>6, <2>7, <2>8, <2>9
<1>15. CASE Begin
  <2>1. TypeOK'  BY <1>15 DEF Begin, TypeOK
  <2>2. ChanInv'  BY <1>15 DEF Begin, TypeOK, ChanInv
  <2>3. RoundInv'  BY <1>15 DEF Begin, TypeOK, ChanInv, RoundInv
  <2>4. StatusInv'  BY <1>15 DEF Begin, TypeOK, ChanInv, StatusInv
  <2>5. DaemonInv'  BY <1>15 DEF Begin, TypeOK, ChanInv, DaemonInv
  <2>6. PublisherInv'  BY <1>15 DEF Begin, TypeOK, ChanInv, DaemonInv, PublisherInv
  <2>7. ReadInv'  BY <1>15 DEF Begin, TypeOK, ChanInv, RoundInv, ReadInv
  <2>8. ResultsInv'  BY <1>15 DEF Begin, TypeOK, ResultsInv, ResultsAreOwn
  <2>9. StatsComplete'  BY <1>15 DEF Begin, StatsComplete, TypeOK
  <2>10. QED  BY <2>1, <2>2, <2>3, <2>4, <2>5, <2>6, <2>7, <2>8, <2>9
<1>16. CASE Elapsed
  <2>1. TypeOK'  BY <1>16 DEF Elapsed, TestOutlastsHandler, TypeOK
  <2>2. ChanInv'  BY <1>16 DEF Elapsed, TestOutlastsHandler, TypeOK, ChanInv
  <2>3. RoundInv'  BY <1>16 DEF Elapsed, TestOutlastsHandler, TypeOK, ChanInv, RoundInv
  <2>4. StatusInv'  BY <1>16 DEF Elapsed, TestOutlastsHandler, TypeOK, ChanInv, StatusInv
  <2>5. DaemonInv'  BY <1>16 DEF Elapsed, TestOutlastsHandler, TypeOK, ChanInv, DaemonInv
  <2>6. PublisherInv'
    <3>1. start /\ status = "running" /\ Polling /\ heap[cur] = Empty
      BY <1>16 DEF Elapsed, TestOutlastsHandler, PublisherInv
    <3>2. config = cur  BY <3>1 DEF RoundInv
    <3>3. DOMAIN heap[cur] = {}  BY <3>1 DEF Empty
    <3>4. {EndFields[i] : i \in 1..wr' - 1} = {}  BY <1>16 DEF Elapsed
    <3>5. QED
      BY <1>16, <3>1, <3>2, <3>3, <3>4 DEF Elapsed, TestOutlastsHandler, PublisherInv
  <2>7. ReadInv'  BY <1>16 DEF Elapsed, TestOutlastsHandler, TypeOK, ChanInv, RoundInv, ReadInv
  <2>8. ResultsInv'  BY <1>16 DEF Elapsed, TestOutlastsHandler, TypeOK, ResultsInv, ResultsAreOwn
  <2>9. StatsComplete'  BY <1>16 DEF Elapsed, TestOutlastsHandler, StatsComplete, TypeOK
  <2>10. QED  BY <2>1, <2>2, <2>3, <2>4, <2>5, <2>6, <2>7, <2>8, <2>9
<1>17. CASE Write
  <2>0. /\ ppc = "writing" /\ status = "running" /\ Polling /\ ~InHandler /\ used = cur
        /\ \A k \in DOMAIN heap[cur] : heap[cur][k] = cur
        /\ DOMAIN heap[cur] = {EndFields[i] : i \in 1..wr - 1}
        /\ heap'[cur] = Put(heap[cur], EndFields[wr], cur)
    BY <1>17 DEF Write, PublisherInv, TypeOK
  <2>1. TypeOK'
    <3>1. Put(heap[cur], EndFields[wr], used) \in Dicts  BY PutIsDict, EndFieldsAreKeys DEF TypeOK
    <3>2. heap' \in [0..MaxTests -> Dicts]  BY <1>17, <3>1 DEF Write, TypeOK
    <3>3. QED  BY <1>17, <3>2 DEF Write, TypeOK
  <2>2. ChanInv'  BY <1>17 DEF Write, TypeOK, ChanInv
  <2>3. RoundInv'  BY <1>17 DEF Write, TypeOK, ChanInv, RoundInv
  <2>4. StatusInv'  BY <1>17 DEF Write, TypeOK, ChanInv, StatusInv
  <2>5. DaemonInv'
    <3>1. dpc # "copy"  BY <2>0 DEF DaemonInv, ChanInv
    <3>2. QED  BY <1>17, <2>0, <3>1 DEF Write, DaemonInv
  <2>6. PublisherInv'
    <3>1. DOMAIN heap'[cur] = {EndFields[i] : i \in 1..wr}
      <4>1. 1..wr = 1..wr - 1 \cup {wr}  BY DEF TypeOK
      <4>2. QED  BY <2>0, <4>1 DEF Put
    <3>2. \A k \in DOMAIN heap'[cur] : heap'[cur][k] = cur  BY <2>0 DEF Put
    <3>3. CASE wr = 6
      <4>1. DOMAIN heap'[cur] = Keys  BY <3>1, <3>3 DEF Keys
      <4>2. QED  BY <1>17, <2>0, <3>2, <3>3, <4>1 DEF Write, PublisherInv
    <3>4. CASE wr # 6
      <4>1. wr' = wr + 1 /\ ppc' = "writing" /\ wr' - 1 = wr  BY <1>17, <3>4 DEF Write, TypeOK
      <4>2. QED  BY <1>17, <2>0, <3>1, <3>2, <4>1 DEF Write, PublisherInv
    <3>5. QED  BY <3>3, <3>4
  <2>7. ReadInv'  BY <1>17 DEF Write, TypeOK, ChanInv, RoundInv, ReadInv
  <2>8. ResultsInv'  BY <1>17 DEF Write, TypeOK, ResultsInv, ResultsAreOwn
  <2>9. StatsComplete'  BY <1>17, <2>0 DEF Write, StatsComplete
  <2>10. QED  BY <2>1, <2>2, <2>3, <2>4, <2>5, <2>6, <2>7, <2>8, <2>9
<1>18. CASE Mark
  <2>1. TypeOK'  BY <1>18 DEF Mark, TypeOK
  <2>2. ChanInv'  BY <1>18 DEF Mark, TypeOK, ChanInv
  <2>3. RoundInv'  BY <1>18 DEF Mark, TypeOK, ChanInv, RoundInv
  <2>4. StatusInv'  BY <1>18 DEF Mark, TypeOK, ChanInv, StatusInv
  <2>5. DaemonInv'  BY <1>18 DEF Mark, DaemonInv, PublisherInv
  <2>6. PublisherInv'  BY <1>18 DEF Mark, TypeOK, ChanInv, DaemonInv, PublisherInv
  <2>7. ReadInv'  BY <1>18 DEF Mark, TypeOK, ChanInv, RoundInv, ReadInv
  <2>8. ResultsInv'  BY <1>18 DEF Mark, TypeOK, ResultsInv, ResultsAreOwn
  <2>9. StatsComplete'
    <3>1. Complete(heap[cur], cur)  BY <1>18 DEF Mark, PublisherInv, Complete
    <3>2. QED  BY <1>18, <3>1 DEF Mark, StatsComplete
  <2>10. QED  BY <2>1, <2>2, <2>3, <2>4, <2>5, <2>6, <2>7, <2>8, <2>9
<1>19. CASE Clear
  <2>1. TypeOK'  BY <1>19 DEF Clear, TypeOK
  <2>2. ChanInv'  BY <1>19 DEF Clear, TypeOK, ChanInv
  <2>3. RoundInv'  BY <1>19 DEF Clear, TypeOK, ChanInv, RoundInv
  <2>4. StatusInv'  BY <1>19 DEF Clear, TypeOK, ChanInv, StatusInv
  <2>5. DaemonInv'  BY <1>19 DEF Clear, TypeOK, ChanInv, DaemonInv
  <2>6. PublisherInv'  BY <1>19 DEF Clear, TypeOK, ChanInv, DaemonInv, PublisherInv
  <2>7. ReadInv'  BY <1>19 DEF Clear, TypeOK, ChanInv, RoundInv, ReadInv
  <2>8. ResultsInv'  BY <1>19 DEF Clear, TypeOK, ResultsInv, ResultsAreOwn
  <2>9. StatsComplete'  BY <1>19 DEF Clear, StatsComplete, TypeOK
  <2>10. QED  BY <2>1, <2>2, <2>3, <2>4, <2>5, <2>6, <2>7, <2>8, <2>9
<1>20. CASE UNCHANGED vars
  <2>1. TypeOK'
    BY <1>20 DEF vars, TypeOK
  <2>2. ChanInv'
    BY <1>20 DEF vars, ChanInv
  <2>3. RoundInv'
    BY <1>20 DEF vars, RoundInv
  <2>4. StatusInv'
    BY <1>20 DEF vars, StatusInv
  <2>5. DaemonInv'
    BY <1>20 DEF vars, DaemonInv
  <2>6. PublisherInv'
    BY <1>20 DEF vars, PublisherInv
  <2>7. ReadInv'
    BY <1>20 DEF vars, ReadInv
  <2>8. ResultsInv'
    BY <1>20 DEF vars, ResultsInv, ResultsAreOwn
  <2>9. StatsComplete'
    BY <1>20 DEF vars, StatsComplete
  <2>10. QED  BY <2>1, <2>2, <2>3, <2>4, <2>5, <2>6, <2>7, <2>8, <2>9
<1>21. QED
  BY <1>1, <1>2, <1>3, <1>4, <1>5, <1>6, <1>7, <1>8, <1>9, <1>10, <1>11, <1>12, <1>13, <1>14, <1>15, <1>16, <1>17, <1>18, <1>19, <1>20 DEF Next, Driver, Daemon, Publisher

-----------------------------------------------------------------------------
LEMMA Inductive == Spec => []IInv
<1>1. Init => IInv  BY InitIInv
<1>2. IInv /\ [Next]_vars => IInv'  BY NextIInv
<1>3. QED  BY <1>1, <1>2, PTL DEF Spec

\* For any number of tests, every variable keeps its type.
THEOREM TypeCorrect == Spec => []TypeOK
<1>1. IInv => TypeOK  BY DEF IInv
<1>2. QED  BY <1>1, Inductive, PTL

\* For any number of tests, whoever reads the status 'stopping' finds the stats
\* of that test complete.
THEOREM StatsCompleteAlways == Spec => []StatsComplete
<1>1. IInv => StatsComplete  BY DEF IInv
<1>2. QED  BY <1>1, Inductive, PTL

\* For any number of tests, the driver's t-th result was measured by its t-th test.
THEOREM ResultsAreOwnAlways == Spec => []ResultsAreOwn
<1>1. IInv => ResultsAreOwn  BY DEF IInv, ResultsInv
<1>2. QED  BY <1>1, Inductive, PTL

\* For any number of tests, neither the daemon nor the driver raises.
THEOREM NoThreadDiesAlways == Spec => []NoThreadDies
<1>1. IInv => NoThreadDies  BY DEF IInv, DaemonInv, ChanInv, NoThreadDies
<1>2. QED  BY <1>1, Inductive, PTL

-----------------------------------------------------------------------------
(* Refinement.                                                             *)

LEMMA CompleteIsOneFunction ==
  ASSUME NEW d \in Dicts, NEW t, Complete(d, t)
  PROVE  d = [k \in Keys |-> t]
<1>1. PICK K \in SUBSET Keys : d \in [K -> 0..MaxTests]  BY DEF Dicts
<1>2. QED  BY <1>1 DEF Complete

LEMMA InitImplements == Init => Cycle!Init
<1> SUFFICES ASSUME Init PROVE Cycle!Init  OBVIOUS
<1>1. cur = 0 /\ round = 1 /\ results = <<>>  BY DEF Init
<1>2. QED  BY <1>1 DEF Cycle!Init

\* The handler's last assignment starts the abstract test, 'stopping' ends it,
\* and the second read collects it; every other step is invisible.
LEMMA NextImplements == IInv /\ [Next]_vars => [Cycle!Next]_Cycle!vars
<1> SUFFICES ASSUME IInv, [Next]_vars PROVE [Cycle!Next]_Cycle!vars  OBVIOUS
<1> DEFINE pub == IF cur # round THEN "idle" ELSE IF status = "stopping" THEN "ended" ELSE "running"
<1> USE DEF IInv, driver, daemon, publisher, run_data, Commands, Ended, At, InHandler, Polling
<1>1. CASE TestStart3
  <2>1. status = "running" /\ chan.cmd = "teststart" /\ chan.dir = "request"
    BY <1>1 DEF TestStart3, DaemonInv
  <2>2. At = "teststart"  BY <2>1 DEF ChanInv
  <2>3. cur = round - 1 /\ round \in 1..MaxTests  BY <2>1, <2>2 DEF RoundInv, ChanInv, TypeOK
  <2>4. cur' = round /\ round' = round /\ status' = status /\ results' = results
    <3>1. cur' = cur + 1 /\ round' = round /\ status' = status /\ results' = results
      BY <1>1 DEF TestStart3
    <3>2. QED  BY <2>3, <3>1
  <2>5. pub = "idle" /\ pub' = "running"  BY <2>1, <2>3, <2>4
  <2>6. Cycle!Start  BY <2>3, <2>4, <2>5 DEF Cycle!Start
  <2>7. QED  BY <2>6 DEF Cycle!Next
<1>2. CASE Mark
  <2>1. status = "running" /\ Polling  BY <1>2 DEF Mark, PublisherInv
  <2>2. cur = round  BY <2>1 DEF RoundInv
  <2>3. /\ cur' = cur /\ round' = round /\ results' = results /\ status' = "stopping"
    BY <1>2 DEF Mark
  <2>4. Cycle!Finish  BY <2>1, <2>2, <2>3 DEF Cycle!Finish
  <2>5. QED  BY <2>4 DEF Cycle!Next
<1>3. CASE ReadSecond
  <2>1. At = "getstats2" /\ chan.dir = "reply"  BY <1>3 DEF ReadSecond, Receive
  <2>2. /\ cur = round /\ status = "stopping" /\ round \in Nat
        /\ Complete(read1, round) /\ Complete(chan.stats, round)
    BY <2>1 DEF RoundInv, StatusInv, ReadInv, TypeOK
  <2>3. "msg_cnt" \in DOMAIN read1 \cap DOMAIN chan.stats /\ read1["msg_cnt"] = chan.stats["msg_cnt"]
    BY <2>2, EndFieldsAreKeys DEF Complete
  <2>4. results' = Append(results, read1) /\ round' = round + 1  BY <1>3, <2>3 DEF ReadSecond
  <2>5. cur' = cur /\ status' = status  BY <1>3 DEF ReadSecond, Receive
  <2>6. read1 = [k \in Keys |-> round]  BY <2>2, CompleteIsOneFunction DEF TypeOK
  <2>7. cur' # round'  BY <2>2, <2>4, <2>5
  <2>8. Cycle!Collect  BY <2>2, <2>4, <2>6, <2>7 DEF Cycle!Collect
  <2>9. QED  BY <2>8 DEF Cycle!Next
<1>4. CASE TestStart2
  <2>1. At = "teststart" /\ chan.dir = "request"  BY <1>4 DEF TestStart2, DaemonInv, ChanInv
  <2>2. cur = round - 1 /\ round \in Nat  BY <2>1 DEF RoundInv, TypeOK
  <2>3. cur # round  BY <2>2
  <2>4. cur' = cur /\ round' = round /\ results' = results  BY <1>4 DEF TestStart2
  <2>5. QED  BY <2>3, <2>4 DEF Cycle!vars
<1>5. CASE \/ Send \/ Configured \/ Started \/ Polled \/ ReadFirst \/ TimeOut
           \/ UpdateConfig \/ TestStart1 \/ TestStatus \/ GetStats \/ CopyStats
           \/ Begin \/ Elapsed \/ Write \/ Clear \/ UNCHANGED vars
  <2>1. cur' = cur /\ round' = round /\ results' = results /\ status' = status
    BY <1>5 DEF Send, Configured, Started, Polled, ReadFirst, Receive, TimeOut, UpdateConfig,
       TestStart1, TestStatus, GetStats, CopyStats, Begin, Elapsed, Write, Clear, vars
  <2>2. QED  BY <2>1 DEF Cycle!vars
<1>6. QED
  BY <1>1, <1>2, <1>3, <1>4, <1>5 DEF Next, Driver, Daemon, Publisher

\* For any number of tests, driver and publisher together implement TestCycle:
\* a test is started once, ends once, and is collected once, complete.
THEOREM RefinesTestCycle == Spec => ImplementsCycle
<1>1. Init => Cycle!Init  BY InitImplements
<1>2. IInv /\ [Next]_vars => [Cycle!Next]_Cycle!vars  BY NextImplements
<1>3. QED  BY <1>1, <1>2, Inductive, PTL DEF Spec, Cycle!Spec, ImplementsCycle


-----------------------------------------------------------------------------
(* The start that gets lost.                                               *)

\* The teststart of the round has not been carried out as far as the status.
Unstarted == \/ At \in {"updateconfig", "finished"}
             \/ At = "teststart" /\ chan.dir # "reply" /\ dpc # "start3"

\* The status is then still that of the test before.
OldStatus == Unstarted => status = IF round = 1 THEN "stopped" ELSE "stopping"

\* In the first round there is no test before, to clear the flag of this one.
FirstRound ==
  round = 1 => /\ ppc = "clear" => status = "stopping"
               /\ status = "running" \/ InHandler => start

LInv == OldStatus /\ FirstRound

LEMMA NextLInv == ASSUME IInv, LInv, [Next]_vars PROVE LInv'
<1> USE DEF Commands, At, InHandler
<1>0. /\ chan \in Messages /\ round \in Nat /\ MaxTests \in Nat
      /\ ChanInv /\ StatusInv /\ DaemonInv /\ PublisherInv
  BY MaxTestsAssumption DEF IInv, TypeOK
<1>1. CASE Send
  <2>1. chan'.dir = "request" /\ chan'.cmd = mpc  BY <1>0, <1>1 DEF Send, Messages
  <2>2. /\ mpc \in Commands /\ chan.dir = "none" /\ mpc' = mpc /\ round' = round
        /\ status' = status /\ start' = start /\ dpc' = dpc /\ ppc' = ppc
    BY <1>1 DEF Send, driver, daemon, publisher, run_data
  <2>3. Unstarted' => Unstarted  BY <2>1, <2>2 DEF Unstarted
  <2>. QED BY <2>2, <2>3 DEF LInv, OldStatus, FirstRound
<1>2. CASE Configured \/ Started \/ Polled \/ ReadFirst
  <2>1. /\ chan.dir = "reply" /\ round' = round
        /\ status' = status /\ start' = start /\ dpc' = dpc /\ ppc' = ppc
        /\ \/ mpc = "updateconfig" /\ mpc' = "teststart"
           \/ mpc' \in {"teststatus", "getstats", "getstats2"}
    BY <1>2 DEF Configured, Started, Polled, ReadFirst, Receive, daemon, publisher, run_data
  <2>2. Unstarted' => Unstarted  BY <2>1 DEF Unstarted
  <2>. QED BY <2>1, <2>2 DEF LInv, OldStatus, FirstRound
<1>3. CASE ReadSecond
  <2>1. /\ chan.dir = "reply" /\ mpc = "getstats2" /\ status = "stopping"
        /\ status' = status /\ start' = start /\ dpc' = dpc /\ ppc' = ppc
    BY <1>0, <1>3 DEF ReadSecond, Receive, daemon, publisher, run_data, StatusInv
  <2>2. \/ round' = round + 1
        \/ round' = round /\ mpc' \in {"raised", "getstats2"}
    BY <1>3 DEF ReadSecond
  <2>3. round' = round => ~Unstarted'  BY <1>0, <2>2 DEF Unstarted
  <2>4. round' # 1 \/ round' = round
    <3>1. round \in 1..MaxTests + 1  BY DEF IInv, TypeOK
    <3>. QED BY <1>0, <2>2, <3>1
  <2>. QED BY <2>1, <2>3, <2>4 DEF LInv, OldStatus, FirstRound
<1>4. CASE TimeOut
  <2>1. /\ mpc \in Commands /\ chan.cmd = mpc /\ mpc' = "timedout" /\ chan' = chan
        /\ round' = round /\ status' = status /\ start' = start /\ dpc' = dpc /\ ppc' = ppc
    BY <1>0, <1>4 DEF TimeOut, ChanInv, daemon, publisher, run_data
  <2>2. Unstarted' => Unstarted  BY <2>1 DEF Unstarted
  <2>. QED BY <2>1, <2>2 DEF LInv, OldStatus, FirstRound
<1>5. CASE UpdateConfig \/ TestStatus \/ GetStats \/ CopyStats
  <2>1. /\ mpc' = mpc /\ round' = round /\ status' = status /\ start' = start /\ ppc' = ppc
        /\ dpc \in {"recv", "copy"} /\ dpc' \in {"recv", "copy", "dead"}
        /\ chan'.cmd = chan.cmd /\ chan.dir = "request" /\ chan.cmd # "teststart"
    BY <1>0, <1>5 DEF UpdateConfig, TestStatus, GetStats, CopyStats, Serve, Reply, driver,
         daemon, publisher, run_data, Messages, DaemonInv
  <2>2. Unstarted' => Unstarted  BY <1>0, <2>1 DEF Unstarted, ChanInv
  <2>. QED BY <2>1, <2>2 DEF LInv, OldStatus, FirstRound
<1>6. CASE TestStart1
  <2>1. /\ mpc' = mpc /\ round' = round /\ status' = status /\ start' /\ ppc' = ppc
        /\ chan' = chan /\ dpc = "recv"
    BY <1>6 DEF TestStart1, Serve, driver, publisher
  <2>2. Unstarted' => Unstarted  BY <2>1 DEF Unstarted
  <2>. QED BY <2>1, <2>2 DEF LInv, OldStatus, FirstRound
<1>7. CASE TestStart2
  <2>1. /\ mpc' = mpc /\ round' = round /\ status' = "running" /\ start' = start /\ ppc' = ppc
        /\ chan' = chan /\ dpc = "start2" /\ dpc' = "start3"
    BY <1>7 DEF TestStart2, driver, publisher
  <2>2. Unstarted /\ ~Unstarted'  BY <1>0, <2>1 DEF Unstarted, DaemonInv, ChanInv
  <2>. QED BY <2>1, <2>2 DEF LInv, OldStatus, FirstRound
<1>8. CASE TestStart3
  <2>1. /\ mpc' = mpc /\ round' = round /\ status' = status /\ start' = start /\ ppc' = ppc
        /\ dpc = "start3" /\ dpc' = "recv" /\ chan'.cmd = chan.cmd /\ chan'.dir = "reply"
    BY <1>0, <1>8 DEF TestStart3, Reply, driver, publisher, Messages
  <2>2. ~Unstarted'  BY <1>0, <2>1 DEF Unstarted, DaemonInv, ChanInv
  <2>. QED BY <2>1, <2>2 DEF LInv, FirstRound, OldStatus
<1>9. CASE Begin \/ Elapsed \/ Write
  <2>1. /\ mpc' = mpc /\ round' = round /\ status' = status /\ start' = start /\ dpc' = dpc
        /\ chan' = chan /\ ppc' \in {"sending", "writing", "mark"}
    BY <1>9 DEF Begin, Elapsed, Write, driver, daemon, run_data
  <2>2. Unstarted' => Unstarted  BY <2>1 DEF Unstarted
  <2>. QED BY <2>1, <2>2 DEF LInv, OldStatus, FirstRound
<1>10. CASE Mark
  <2>1. /\ mpc' = mpc /\ round' = round /\ status' = "stopping" /\ start' = start /\ dpc' = dpc
        /\ chan' = chan /\ ppc = "mark"
    BY <1>10 DEF Mark, driver, daemon
  <2>2. ~Unstarted' /\ ~InHandler
    BY <1>0, <2>1 DEF PublisherInv, Polling, Unstarted
  <2>. QED BY <2>1, <2>2 DEF LInv, OldStatus, FirstRound
<1>11. CASE Clear
  <2>1. /\ mpc' = mpc /\ round' = round /\ status' = status /\ dpc' = dpc /\ chan' = chan
        /\ ppc = "clear" /\ ppc' = "idle"
    BY <1>11 DEF Clear, driver, daemon
  <2>2. Unstarted' => Unstarted  BY <2>1 DEF Unstarted
  <2>3. round = 1 => status = "stopping" /\ ~InHandler
    <3>1. dpc = "start2" => Unstarted  BY <1>0 DEF DaemonInv, ChanInv, Unstarted
    <3>. QED BY <1>0, <2>1, <3>1 DEF LInv, OldStatus, FirstRound, DaemonInv
  <2>. QED BY <2>1, <2>2, <2>3 DEF LInv, OldStatus, FirstRound
<1>12. CASE UNCHANGED vars
  BY <1>12 DEF vars, driver, daemon, publisher, run_data, LInv, OldStatus, FirstRound, Unstarted
<1>. QED
  BY <1>1, <1>2, <1>3, <1>4, <1>5, <1>6, <1>7, <1>8, <1>9, <1>10, <1>11, <1>12
  DEF Next, Driver, Daemon, Publisher

LEMMA InductiveLInv == Spec => []LInv
<1>1. Init => LInv
  <2>. SUFFICES ASSUME Init PROVE LInv  OBVIOUS
  <2>1. /\ mpc = "updateconfig" /\ round = 1 /\ dpc = "recv" /\ ppc = "idle"
        /\ status = "stopped"
    BY DEF Init
  <2>. QED BY <2>1 DEF LInv, OldStatus, FirstRound, InHandler
<1>2. IInv /\ LInv /\ [Next]_vars => LInv'  BY NextLInv
<1>. QED BY <1>1, <1>2, Inductive, PTL DEF Spec

\* For any number of tests, the first one is never lost: it takes the end of another test to
\* clear the flag of one that has been started.
THEOREM FirstStartKept == Spec => [](StartLost => round > 1)
<1>1. IInv /\ LInv => (StartLost => round > 1)
  <2>1. IInv => round \in 1..MaxTests + 1 /\ MaxTests \in Nat
    BY MaxTestsAssumption DEF IInv, TypeOK
  <2>. QED BY <2>1 DEF LInv, FirstRound, StartLost
<1>. QED BY <1>1, Inductive, InductiveLInv, PTL

\* For any number of tests, a start that is lost is lost for good: nothing that driver,
\* daemon or publisher may still do sets the flag again or gives another status.
THEOREM LostForGood == Spec => [][StartLost => StartLost']_vars
<1>1. ASSUME IInv, LInv, StartLost, Next PROVE StartLost'
  <2> USE DEF Commands, At
  <2>1. /\ ~start /\ status = "running" /\ ppc = "idle" /\ dpc = "recv"  BY <1>1 DEF StartLost
  <2>2. ~Unstarted /\ At \notin {"getstats", "getstats2"}
    BY <1>1, <2>1 DEF LInv, OldStatus, IInv, StatusInv
  <2>3. chan.dir = "request" => chan.cmd \in {"teststatus"}
    BY <1>1, <2>1, <2>2 DEF IInv, ChanInv, Unstarted
  <2>4. CASE Driver
    BY <2>1, <2>4 DEF Driver, Send, Configured, Started, Polled, ReadFirst, ReadSecond, TimeOut,
       Receive, daemon, publisher, run_data, StartLost
  <2>5. CASE Daemon
    <3>1. TestStatus
      BY <2>1, <2>3, <2>5 DEF Daemon, UpdateConfig, TestStart1, TestStart2, TestStart3, GetStats,
         CopyStats, Serve
    <3>. QED BY <2>1, <3>1 DEF TestStatus, daemon, publisher, run_data, StartLost
  <2>6. CASE Publisher
    BY <2>1, <2>6 DEF Publisher, Begin, Elapsed, Write, Mark, Clear
  <2>. QED BY <1>1, <2>4, <2>5, <2>6 DEF Next
<1>2. IInv /\ LInv /\ [Next]_vars => [StartLost => StartLost']_vars
  BY <1>1
<1>. QED BY <1>2, Inductive, InductiveLInv, PTL DEF Spec
=============================================================================
