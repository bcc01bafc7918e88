# Hydra in TLA+

Hydra (mScale) measures how message systems scale: a test script launches
publishers and subscribers as Marathon applications on a Mesos cluster, tells
them over ZeroMQ request/reply what to do, waits, and collects their counters.
Here its control logic is written down in TLA+, model-checked with TLC on small
instances, and the properties that matter most are proved with TLAPS for every
instance.

Paths below are relative to `src/main/python/hydra/` of the repository unless
they begin with `src/`.

## 1. Inventory

| component | code | state | operations |
|---|---|---|---|
| Publishers, Python | `zmqtest/zmq_pub.py`, `rmqtest/rmq_pub.py`, `kafkatest/kafka_pub.py` | `run_data` (start flag, status, stats), rates and batch | `test_start`, `test_status`, `get_stats`, `update_config`; the send loop |
| Publisher, C++ | `src/main/c/zmq/zmq_pub.cc` | `TestControl`, a batch counter | `process_message`, `start_test`, `stop_test`, the send loop |
| Subscribers, Python | `zmqtest/zmq_sub.py`, and the same for RabbitMQ and Kafka | `msg_cnt`, `run_data` (time stamps, stats), rates | `reset_stats`, `get_stats`, `update_config`; the receive loop |
| Subscriber, C++ | `src/main/c/zmq/zmq_sub.cc` | counters | `process_message`; the receive loop |
| Request/reply control | `lib/hdaemon.py`, `lib/h_analyser.py`, `lib/hdaemon.proto`, `lib/utility/h_threading.py` | one REP socket per task, one REQ socket per client of the script, command table | `register_fn`, the server loop, `do_req_resp` and its callers |
| Application registry | `lib/hydrabase.py` | `apps` (with `ip_port_map`, stats, properties), `all_task_ids`, `app_group` | create, scale and delete an application; create and delete groups; ping, reset, fetch; delete tasks |
| Marathon interface | `lib/mmapi.py` | none of its own | create, scale, delete, kill and the waits for their effect |
| Test drivers | `zmqtest/runtest.py`, `rmqtest/runtest.py`, `kafkatest/runtest.py` | options, slow and reconnecting clients, results | `run_test`, `rerun_test`, `result_parser` |
| Boundary search | `lib/boundary.py` | a cache of results, the interval searched | `Scanner.search`, `find_max_rate`, `boundary_run` |
| Test suites | `zmqtest/maxrate_test.py`, `*/fixed_test.py` and others | options | sequences of calls to a driver |
| Mock backend | `lib/mock_backend.py`, `lib/childmgr.py`, `lib/utility/py_sys_cmd.py` | child processes | Marathon's calls, on local processes |
| Command line, file server, utilities | `lib/cli.py`, `lib/appserver.py`, `lib/util.py`, `lib/common.py` | none that matters | parse, serve files, log |

How they interact. The *script* is one thread: driver, registry, analysers and
boundary search run in it. It talks to *Marathon* by HTTP, which launches and
replaces tasks on its own; and to each *task* by one REQ/REP pair, a request at
a time, each with a timeout. In a Python task the REP socket is served by a
thread of its own (`HDaemonRepSrv.start`) next to the main loop; the two share
`run_data` with no lock. A C++ task has one thread.

What is hard about it:

* the daemon thread and the main loop of a task interleave at every assignment
  (`zmq_pub.py:122-140`, `zmq_sub.py:38-50,115-145`);
* the end of a test and the start of the next overlap: the script goes on as
  soon as it hears `stopping`, while the publisher has yet to clear a flag;
* the driver polls without limit for an end that may never come;
* the reply loop iterates over a dictionary the main thread adds keys to;
* the registry keeps four views of the same tasks (Marathon's, the map, the list,
  the groups), and each call updates some of them;
* tasks die and are replaced at any moment between two calls;
* batch counters, `uint32_t` arithmetic and batch sizes of 0 and 1;
* timeouts that leave a request unanswered on a socket, and retries of what was
  half done;
* options, properties and processes that each say which subscribers are slow, and
  are reset at different times;
* scaling in batches that assert a count of tasks while tasks die and are replaced,
  and waits for an exact count without a limit.

What makes each component correct:

* a publisher: a status that says *ended* means the results of that test are
  complete, every test that is started ends, no thread of it dies;
* a subscriber: its counters cover exactly the messages received since the last
  reset, and what a test keeps is of one moment;
* a driver: what it keeps for its t-th test was measured by its t-th test;
* the registry: its views agree as far as its last refresh went through, groups are
  disjoint, what is removed for being dead is removed everywhere;
* request/reply: a reply belongs to the request it is read for, no request is
  carried out twice, and no client ends a daemon with a command it knows;
* slow and reconnecting clients: what the driver notes of them is how they run;
* scaling: in steps no larger than a batch, to an end, with the counts the code
  asserts;
* the boundary search: the rate it returns has been measured and passed, by a run in
  the configuration it is for.

`PROJECT.json` lists under "hazards" each place of the code where one of these
can go wrong, with the property that watches it. Where the model has a hazard and no
property claims that it does not happen, because the code does not prevent it and nothing
in the repository says that it does, the note says so.

## 2. Modules

| module | models | proofs |
|---|---|---|
| `TestCycle` | the abstract promise: a test is started, runs, ends, and is collected once, whole, in order | |
| `TestRun` | driver, daemon thread and main thread of a Python publisher; implements `TestCycle` | `TestRun_proofs` |
| `CppTestRun` | the same driver and the C++ publisher; implements `TestCycle` | `CppTestRun_proofs` |
| `SubStats` | driver, daemon thread and receive loop of a Python subscriber | `SubStats_proofs` |
| `RemoteCall` | the abstract promise of an analyser's method: a call that answers has been carried out, none twice | |
| `ReqRep` | a REQ socket of the script, what lies between, and the daemon of a task, Python or C++; implements `RemoteCall` | `ReqRep_proofs` |
| `AppRegistry` | `HydraBase`'s bookkeeping, with Marathon losing and replacing tasks | `AppRegistry_proofs` |
| `MCAppRegistry` | the symmetry of `AppRegistry` for TLC | |
| `Scaling` | `create`, `scale_app`, `delete_app` and their waits against Marathon or the mock | `Scaling_proofs` |
| `Scanner` | the two searches for a rate, and the system that answers them | `BoundaryRun_proofs` |
| `RateSuite` | the abstract promise of `boundary_run`: each value a search asks for is answered by a run of its own; extends `Scanner` | |
| `BoundaryRun` | a suite of searches through `boundary_run`: cache, retries, launches, the drivers for ZeroMQ and RabbitMQ; extends `Scanner`, implements `RateSuite` | `BoundaryRun_proofs` |
| `SlowClients` | the suite of `maxrate_test.py` with its slow and reconnecting clients: options, properties, processes | `SlowClients_proofs` |
| `MCSlowClients` | the sizes of its rounds for TLC | |

### TestRun

One variable per variable of the code that either thread can see (`start`,
`status`, `cur`/`heap` for `run_data`, `config` for what `update_config` sets)
and a program counter per thread (`mpc`, `dpc`, `ppc`). An assignment to
`run_data` is a step: `TestStart1..3` are the three lines of `test_start`,
`Write` the six results at `zmq_pub.py:128-134`, `Mark` and `Clear` lines 135
and 137. `run_data['stats']` is a reference, so the dictionaries live in a
`heap` and `cur` says which one it is: a write after the next `test_start`
would land in the next test's dictionary, and the model would show it. A
measured value is the number of the test whose configuration was in force, which
is what `ResultsAreOwn` needs to know about it. `GetStats` and `CopyStats` are
apart because `hdaemon.py:132` iterates over the live dictionary after the
handler has returned.

One assumption is not in the code: `TestOutlastsHandler`, that the three lines of
`test_start` are through by the time a test of at least a second has run.

### CppTestRun

`process_message`, `start_test`, `stop_test` and the main loop of `zmq_pub.cc`,
one action per branch; the counter wraps at `IntRange` and `msg_batch - 1` is
computed in it, as in the code. The clock is one bit: whether the duration is
over. `sent` and `slept` only count, for the property about polling.

### SubStats

`reset_stats` is five steps (lines 43, 44, 48, 49, 50), `get_stats` two (31 and 36),
the receive loop one per access to what the daemon shares with it; line 124, a
read and a write of a global, is two. A key a reset has removed is `Missing`, and
looking it up kills the receiver. Time is counted in messages. `base`, `left`
and `overlap` are history variables: what had been received when the last reset began,
what was left over when it ended, and whether a reset ever met a message in hand.
What is left over is what `msg_cnt` could come to without another message being sent
(`ToCount`): the messages of earlier tests still on the wire or in hand, or the whole of the
old count if the reset falls between the read and the write of line 124.
`ExcessIsLeftOver` is about those tests too: whatever a test reports beyond what was sent in
it was there when its reset ended, and the reset itself leaves nothing but that.

### ReqRep

`Send` is `do_req_only`, `Receive` and `TimeOut` are `do_resp_only`, `SendRaises` what
zmq does on a REQ socket that is owed a reply (EFSM): after a timeout the analyser is
of no more use, and `Reopen` is the script closing it and making another. No linger
period is set, so what a closed socket has sent is still delivered. `Lose` is a broken
connection, `Foreign` a command from anybody else: one the daemon does not know, a
STOP, or bytes that are no message. On the other side `Serve` takes a request; `CarryOut`
is the call of a registered function, which may raise, and `Refuse` all else. For an
unknown command `hdaemon.py` assigns its error text to the variable that holds its
message object and sends JSON, which the analyser cannot parse; the next request then
ends the thread (`ServeGarbled`). A request is a record of connection and call, and a
reply one of both and a status: what a reply contains is left to the modules that
compose driver and task.

### AppRegistry

A task is a number never used twice, an addressable instance (`ip_port_map`'s
key) a pair of task and port. `ip_port_map`, `all_task_ids` and `app_group` are
the code's dictionaries; `running` and `target` are Marathon's. Each call of the
script is one action with every early return and every place where it may raise as a
disjunct, and `outcome` is how it ended. `RefreshFails` is a refresh that raises after it
has emptied the map (`hydrabase.py:616-622`): the map has none or some of the tasks, list
and groups are as they were. An app may likewise be entered and never get a map
(`GivesUp` in `CreateApp`), and a batch that raises leaves Marathon told any number on the
way. `torn` is a history variable: the apps whose last refresh, or creation, did not go
through. For those `ListMatchesMap` claims nothing; `LostMembersAreDead` and
`MembersAreListed` claim of them what the removal of unresponsive tasks and new groups rely
on. `Lose` and `Replace` happen between any two calls. The batches in which
`scale_app` and `delete_app` talk to Marathon are one step with the call, since
the script makes no other call meanwhile and they touch no bookkeeping; module
`Scaling` is about them. Pinging
the instances one after the other is one step too: a task that dies during
the round is one that `bad` may or may not contain.

### Scaling

The script is a program counter, what it waits for (`wanted`) and where it goes on
(`after`), and the locals of `scale_app` and `delete_app`. `Request` is one call of
`MarathonIF.scale_app`: carried out, carried out without an answer in time
(`LateScale`), or refused by the mock (`MockRaises`). Marathon is a target, the tasks
running and staged, whether its last change is still being deployed, in which case
it refuses another and `mmapi.py` tries again: the guard `~deploying`, and `former`, what
was there before that change. `Stage`, `Start`,
`Kill` and `Deployed` are Marathon's own steps; `Die` and `TimeOut` are what may go
wrong. The script asserts counts it has just waited for (`Refresh`, `AssertOneLeft`).
Things the model shows, all as the code has them: a number that the batch divides is
deleted down to 0 tasks, then to 1, then removed; an application above the threshold is
scaled up by way of the threshold, from 550 to 600 through 500; the mock adds one child on
each `scale_app` and so reaches 2 tasks and no other number. `delete_app` goes through the
deployments it has read at its beginning (`deployments`). One that is under way still is
cancelled, which leads Marathon back to `former` (`Cancel`); the deletion then goes on, is
refused and tried again while that is deployed, and removes the app (`Remove`), unless the
cancelled deployment was the one that created the app and took it along. One that is over
by then is an exception nothing catches, with the application left (`CancelRaises`).
`CallsReturn` names the ways a call may end, these among them, and says that `scale_app`
and `delete_app` otherwise come to what they are for.

### SlowClients

`options` are those of the suite, `property` the two lists kept with the application,
`processes` the rates in force in each subscriber. `RerunTest` picks anew where the
share asked for is above 0 and differs from the number picked, and then tells *all*
subscribers their rates; `ScaleSubApp` and `Launch` empty the property; only `Launch`
makes new processes. Two disagreements in the code are kept: the suite resets the option
`reconnecting_clients_percent` while the driver reads `rec_clients_percent`, so that
reconnecting clients are asked for in the search for the maximum of every later round
(that they are picked, and all rates updated, is also what clears the slow clients of
the round before); and a share of 0 is never looked at, so the slow clients of one search
stay for the next. The C++ subscriber knows no `updateconfig`, so with it every run
with slow clients raises.

### Scanner, RateSuite and BoundaryRun

`Scanner` holds the local variables of `search` and `find_max_rate`; `Heed(a)` is
one turn of either loop, given the answer `a` of a run. `search` halves floats. The
model keeps integers by halving the unit instead: when the step is halved, `value`,
`best_rate`, `threshold` and `cap` double and `scale` says by how much in all.
Rounding, and the limits of floats, are so left out. What answers is a publisher
that reaches `cap` at most, and subscribers that drop more than expected above
`threshold`; without `steady` they drop anything at any rate. As in `boundary_resultfn`,
the status is decided by the rate sent (`average_tx_rate`), and the rate returned is the
one received (`average_rate`): all that is sent in a run without drops, and in any other
one of the `Shares` of it. With drops `find_max_rate` may so end at a rate well below what
the publisher can send; `FindsMaximum` says what it finds nevertheless: never more than can
be sent, and over steady subscribers that do not drop at its first value more than half of
what can be sent or received. `passed`, the highest rate sent in a run that has passed, is
a history variable.

`BoundaryRun` is `boundary_run` around it. `Recall` is a value found in the cache;
`Try`, `StartInit` (the deletion of what earlier runs left), the two `Launch`es and
`Rerun` are a run; `Fault` is any of their calls
raising, before or after its effect; `Except` is the except clause, and
`DeleteFault` an exception in it. Only `rerun_test` empties the cache (through
`boundary_setup`); a run that launches does not, so a result may survive a change of the
subscribers. How little comes of that is what `RateSuite` says, which has no cache, no
retries and nothing to launch. Within a search the cache never answers: a value is not
asked for twice before it is emptied. Between searches it does in one case
(`FailAgain`): all begin with the same value, and if the first run of one has failed, and
with it that search, the next finds its failure instead of measuring. `find_max_rate`
does not look at the status and may end with the rate of that failed run, of which less
than 70% of the value was sent (`Stale`), or go on from it to a first run of its own at
twice the value.
The registry is cut down to which of the two applications is there, and whether
the groups of the RabbitMQ driver are: `AppRegistry` has shown what it does with
them, and the same name `create_app_instances_group` refuses is refused here.
`launch_rmq_sub` replaces the number of subscribers by its quotient by
`apps_in_group` each time it launches (`Divided`), so that retries are over fewer and in
the end none, where the result is divided by zero; with fewer than the groups take,
`rerun_test` picks for them for ever (`picking`).

A search that allows some drop may return a rate that has failed in place of one that has
passed: a result is better if its distance from the expected one is less than that from
the best so far, which is so of every drop beyond the expected if the best has none. The
model has this as the code does, and no property claims otherwise; where no drop at all is
expected it cannot happen (`BestIsHighestPassed`, a theorem). `NextSearch` is guarded by
`max_rate > 0`: the suite starts its next search at half of that.

## 3. Runs

| run | shows | bounds, and why they are enough |
|---|---|---|
| `test_run` | three tests on a Python publisher, every interleaving: stats complete when the status says so, each result its own, no thread dies, each test ends or its start is lost or a request times out; implements `TestCycle` | `MaxTests = 3`: overlaps are between one test and the next, the third shows that a second overlap meets nothing new |
| `test_run_lost_start` | a publisher can clear the start of the next test (`zmq_pub.py:135-137`): the driver then polls for ever | two tests |
| `cpp_test_run` | the same for the C++ publisher: no start is lost, no partial stats are read, requests are answered once per batch; implements `TestCycle`, of which `ResultsAreOwn` is a part | batches 0, 1, 2, 4 are the cases around `msg_batch - 1`; `IntRange = 8` lets the counter wrap |
| `sub_stats` | resets, reads and rate changes among a subscriber's messages: threads die and counts are wrong only where a reset meets a message in hand, a result is of one moment, and none exceeds what was sent in its test and left over for it | two tests of two messages: one message in hand at the reset, one left on the wire, one received after |
| `sub_reset` | a reset between the read and the write of `msg_cnt` is undone | the same |
| `registry` | every sequence of registry calls with tasks dying at any moment and each call raising wherever it may, a refresh between its emptied map and its new list included: list and map agree after a refresh that went through, a member not listed is dead, a member the map knows is listed, groups are disjoint | one app, two groups, two ports, three launches: a task lost, one replaced and one scaled up; two ports make the two instances of one task differ; `MaxScale = 2` is an app with a task to lose and one to keep; groups of up to `MaxGroup = 3` of its four instances, so that two groups can meet and one can ask for more than there are |
| `boundary` | two searches with one driver, of either kind, steady or not and receiving all or part of what is sent, with exceptions anywhere: only rates above 0 are asked for, the interval closes on the threshold, the rates returned are those searched for, retries launch or update what is there, a value is given up for five exceptions or for the groups, each search ends; implements `RateSuite`, so no rate is taken from another configuration | precision of 1/4; thresholds of nothing, below and above the start, and one (15) whose search takes all halvings; caps that fail the first run, and the second, and one no threshold reaches; of what is sent in a run with drops 40% is received, less than the half at which `find_max_rate` goes on, or nothing; `MaxScale = 64` is more halvings than a steady search makes (`SearchEnds` would fail otherwise); `MaxFaults = 6` is one more than the tries and so no bound at all; a second search meets all a first leaves behind; 10 or 20 subscribers in groups of 10, 2 needed: one launch leaves too few or just enough, the next none |
| `rabbit_rerun` | the second run with the RabbitMQ driver fails, as do all its retries | the same |
| `req_rep` | one script and one task: whatever is lost or late, a reply is never taken for another call's, no call is carried out twice, a socket that has timed out gets no answer more, only an unknown command ends a daemon; implements `RemoteCall` | three calls and two connections: a call that times out, one that fails on its socket, one on the next, with the reply of the first still under way |
| `slow_clients` | three searches in each of three rounds: noted and actual rates agree at every result, and the search for the maximum has no slow clients | 2, 3 and 4 subscribers, half of them picked, one silent: a share that stays the same from round to round and one that changes, a subscriber that was slow and is not picked again, and one that is away when rates are told |
| `slow_left` | the search with reconnecting clients runs over the slow clients of the search before | the same |
| `scaling` | create, scale and delete in any order, with Marathon or the mock: no request changes more than a batch, asserts fail only after a death or a timeout, every call returns and has done what it is for, but for what `CallsReturn` names | thresholds of 5 and batches of 3 for 2, 6, 7 and 8 tasks: below the threshold, with a remainder of 1 and 2, and divided by the batch; two deaths and two timeouts, so that the second falls into the recovery from the first |

Every property of a passing run has a mutant in `PROJECT.json`: a change of one
definition, like a bug one could make in that code, that breaks the property.

`CHECK_DEADLOCK FALSE` in all: a test script ends, after its last test or an
exception, and then nothing moves.

What no run claims, though the modules have it: with a batch of 1 the C++ publisher
sleeps again and again without polling (`PollsEveryBatch` is about batches from 2), and
with a batch of 0 it never stops (`EveryTestEnds` leaves it out); a group that asks for
more instances than are ungrouped is never created (`SearchEnds` leaves it out); the reset
of a subscriber may end its receive loop where it meets a message in hand
(`DiesOnlyOfReset` leaves it out); a member of a group that has died and not been struck yet
makes each call on the group fail; a task that dies between a wait and an assert ends the
script (`AssertsNeedLoss` leaves it out); `delete_app` raises for a deployment that is over,
and a scale of the mock to any number but 2 does not return (`CallsReturn` leaves them out).

**Fairness.** `TestRun` assumes weak fairness of the driver, of the daemon thread
and of the publisher thread, each as a whole: three threads of two processes that
the operating system keeps scheduling, none of which waits for anything but a
message, a timeout or the clock. `TimeOut` is one of the driver's steps, so no
request waits for ever, and liveness is claimed up to it. `CppTestRun` assumes the
same of driver and publisher, and of the clock. `BoundaryRun` assumes that its one
thread goes on (`Step`), and nothing of exceptions: a `Fault` may never happen, and
no search is claimed to end because of one. `SearchEnds` leaves out the searches
that the code does not end either, where every rate drops too much. `Scaling` assumes
weak fairness of the script, which is one thread, and of each thing Marathon does by
itself (`Stage`, `Start`, `Kill`, `Deployed`): it goes on to what it has been asked for,
which is what the script's waits rely on. Deaths and timeouts are not fair, and each run
has finitely many of them: with a task dying again and again the wait for an exact
number need never end. `SubStats`, `AppRegistry`, `ReqRep` and `SlowClients` claim
nothing about liveness.

**What the violated runs say** is under "findings": the comment of `zmq_pub.py:136`,
the docstring at `hydrabase.py:535`, the comment at `boundary.py:118` and
`README.zmq.md:92`, against what the code does.

## 4. Proofs

`TestRun_proofs`, for every `MaxTests`: `TypeOK`, `StatsComplete`,
`ResultsAreOwn`, `NoThreadDies`, and `Spec => ImplementsCycle`. None is inductive
alone. That the publisher's stats are complete when it says *stopping* needs to
know that no `teststart` can arrive while it writes, which is so because the
driver is still polling, which is so because it has not yet been told the test has
ended. `IInv` says this per actor: `ChanInv` (one request at a time, of the
current round), `RoundInv` (which dictionary and configuration are in place at
each of the driver's positions), `StatusInv` (what the driver may conclude about
the status), `DaemonInv`, `PublisherInv` (what it has written so far, and that the
driver polls meanwhile), `ReadInv`, `ResultsInv`. The refinement maps
`TestStart3` to `Start`, `Mark` to `Finish`, the matching second read to
`Collect` and all else to stuttering.

Two more theorems say how far the lost start of `test_run_lost_start` goes.
`FirstStartKept`: the first test of a publisher is never lost, since it takes the end of
another to clear its flag. `LostForGood`: once lost, a start stays lost whatever driver,
daemon and publisher still do, so that only a timeout ends the driver's polling. Both need
`OldStatus`, that until a `teststart` is through the status is that of the test before,
and `FirstRound`.

`CppTestRun_proofs`, for every set of batch sizes, every width of the counter and
every number of tests: `TypeOK`, `PollsEveryBatch`, `ResultsAreOwn`, `NothingRaised` and
`Spec => ImplementsCycle`. The first invariant says that the counter knows: before the
point to break off, no more has been sent since the last poll than it says; after it,
nothing. The second, `OwnInv`, is about the driver: what it may conclude from where it
is (`TestInv`), and that a publisher whose driver has heard of the end is stopped, or in
the turn that stops it (`EndInv`), so that its next answer is after `stop_test`. From it
also `RestsOnlyAfterTest`: this publisher loses no start.

`SubStats_proofs`, for any numbers of tests and messages: `TypeOK`, `DiesOnlyOfReset`,
`CountIsExact`, `ExcessIsLeftOver` and `KeptIsOneMoment`. `Exact` says at every line of the
receive loop and of `reset_stats` which message the count and the stamps are of, as long
as no reset has met a message; `Moment` says the same of the read under way and of those
kept. `ExcessIsLeftOver` needs no such premise: `Left` bounds, from the end of the reset on,
what is counted, what will be counted when all that is on its way is (`ToCount`), and what
is read, by what has been sent and what was left over. `MetOrReset` bounds the run
`sub_reset`: a reset fails to take effect only where one has met a message in hand.

`ReqRep_proofs`, for any number of calls and connections: `TypeOK`,
`DiesOnlyOfUnknown`, `Poisoned` and `Spec => ImplementsCall`. `RequestInv` says that
there is one request of each call at most and that it has not been carried out yet,
`ReplyInv` that a call answered with 'ok' has been, `SoleInv` and `OwnInv` that on the
connection in use one message at most is under way, which is of the call waited for or
of one given up.

`SlowClients_proofs`, for any sizes of rounds and any share: `TypeOK`, `RatesAreNoted`
and `BaselineIsFull`. `RatesAreNoted` holds at a result; before it, the rates are as noted or
`Overdue`: after a rescale the next run will pick reconnecting clients again, and so tell
every client its rate. `LeftOnlySlow` bounds the run `slow_left`: clients that are slow
unasked were picked by the search just before and run at this round's rate.

`Scaling_proofs`, for any numbers of tasks, thresholds, batches, deaths and timeouts:
`TypeOK`, `AssertsNeedLoss` and `InSmallSteps`. `Launched` and `Deleting` tie the locals
of the two batch loops to Marathon's target, `Deploying` bounds the tasks while nothing is
being deployed, also after a change has been cancelled, and `NoLoss` says, of runs without
a death or a timeout, that nothing moves at Marathon but while the script waits for it.
Two parts of it are theorems of their own: `WaitsForTarget`, that a wait is for the number
last asked for, whatever has been lost or timed out, and `QuietBetween`, that a call that
returns leaves no task to be launched or killed.

`AppRegistry_proofs`, for any apps, groups, ports and number of launches: `TypeOK`,
`ListMatchesMap`, `GroupsDisjoint`, `LostMembersAreDead`, `MembersAreListed`. The
strengthening is `KeysAreOld`, that no list, map or group names a task that is yet to be
launched, without which a replacement could bring a lost member back to life. A refresh
that raises is a case of its own in each step that refreshes: the new map is of running
tasks, and a member that runs is listed already, which is how `MembersAreListed` follows
from `LostMembersAreDead`.

`BoundaryRun_proofs`, for every start, precision, range of drops, set of
thresholds, of caps and of shares, and any bounds: `TypeOK`, `AsksPositive`, `Bracketed`,
`FindsRates`, `LaunchesMatchApps`, `GivesUpOnFaults`, and `Spec => ImplementsSuite`; and
`BestIsHighestPassed`, which no run checks. It has three invariants, one on the other.

* `IInv` needs nothing of what is in the cache: the lemmas `SearchFails`, `SearchGoesOn`
  and `FindMaxGoesOn` are about one answer, whichever it is. `BestSoFar` adds what is
  known before the first rate has passed, `FewTries` where the fifth try is counted, and
  `FaultsCounted` that without groups in the way there has been an exception for each
  try.
* `JInv` is about the values asked for, and there the cache matters. `Away`: after its first
  run a search stays at least a step from its start, on one side of it. `Fresh`: one
  answer at most is cached, and it is of another value of this search, or of another
  search whose value this one can only ask for first, and that one has failed. `Away`
  needs that a value is compared across units, hence the lemmas about products. From the
  two follows that each answer a steady search heeds is one of now, and from that
  the bracket `BInv`: `Upper` and `Lower` hold the threshold between the value and the
  highest rate that has passed, within a step of each; `Reach` and `Settled` say that from
  the first failure on a search ends for its precision only; `Short` that it may not
  go on for ever.
* `MaxInv` is the same for `find_max_rate`: what it has seen is no more than the publisher
  can send, or the failure it has recalled. Over steady subscribers that did not drop at the
  first run of its own it is in one of two states (`Early`): the last run has been told all
  that can be sent of half the value (`Half`), or it knows enough already (`Enough`); the
  second run after a recalled failure is `Second`.

`FindsThresholdAlways`, the half of `FindsRates` about `search`, says that a steady
search for no drop ends with a rate not above the threshold and as close to it as
`error_percentage`. `HalvingsAreFew` is what is safety in `SearchEnds`: a steady search
goes on only while its unit, doubled at each halving, is below a bound that does not
grow. `NoRateOfAnother` says what is recalled from the cache. The refinement keeps the
variables of `Scanner` and the number of the search; `Rerun` is mapped to `Measure`,
`Recall` to `FailAgain`, the last `Except` to `GiveUp`, `NextSearch` to itself, and all
launches, exceptions and retries to stuttering. `UpdatesByZmq` bounds the run
`rabbit_rerun`: with the ZeroMQ driver a value is given up only after an exception.

The assumptions are those on the constants (`MaxTestsAssumption`,
`CppAssumption`, `SubAssumption`, `ReqRepAssumption`, `RegistryAssumption`,
`ScalingAssumption`, `ScannerAssumption`, `BoundaryAssumption`, `ClientsAssumption`)
and what the models assume as said above.

Model-checked only: liveness (`TestEndsOrStartLost`, `EveryTestEnds`, `SearchEnds`,
`CallsReturn`), which is out of the prover's reach: it rests on fairness, and so on ENABLED.
Every invariant, action property and refinement that a passing run checks is a theorem.

## 5. Not modelled

* The traffic between publishers and subscribers, the brokers, and the arithmetic
  on results: they are what Hydra measures, not what it does.
* `kafkatest/runtest.py` and the tests that use it: the same calls in the same order as
  the ZeroMQ driver, without slow clients. A module of it would be `TestRun` again.
* `rmq_sub.py`, `kafka_sub.py`: they differ from `zmq_sub.py` in where messages come from.
* The counters of `zmq_sub.cc`: one thread receives, resets and answers in turn.
* The handler of SIGCHLD in `lib/childmgr.py`, which may run between any two lines of the
  launch, and `lib/utility/py_sys_cmd.py`, which no test script calls.
* What is kept of clients beyond the 41st, which `fetch_app_stats` reads once only: it
  needs 42 clients, and is the case `KeptIsOneMoment` is not about.
* Slaves, attributes and clusters in `hydrabase.py`: read once, never changed.
* `lib/cli.py`, `lib/appserver.py`, `lib/util.py`, `lib/common.py`,
  `selftest/agents.py`: argument parsing, a static file server, logging, stubs.

## 6. Plan

Done: all modules and proofs above. Next, in this order:

1. `ChildManager`: the table of children under launch, wait, terminate and the handler
   of SIGCHLD, and the mock's tasks in `Scaling` as an abstraction of it.
2. `FetchStats`: `fetch_app_stats` over many clients with the limit of 41 as a constant,
   with a subscriber of `SubStats` cut down to a count that grows.
