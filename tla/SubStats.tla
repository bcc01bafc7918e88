------------------------------ MODULE SubStats ------------------------------
(***************************************************************************)
(* The counters of one Python subscriber (zmq_sub.py; kafka_sub.py differs *)
(* in the source of its messages), reset and read by the driver around     *)
(* each test while the receive loop updates them, with no lock.            *)
(*                                                                         *)
(*   driver    rerun_test as one subscriber sees it: resetstats, perhaps   *)
(*             updateconfig, the test, then getstats until msg_cnt is the  *)
(*             same twice                                                  *)
(*   daemon    the HDaemonRepSrv thread                                    *)
(*   receiver  the main thread: receive, count, stamp the time             *)
(*                                                                         *)
(* Time is counted in messages: a time stamp is the number of the message  *)
(* at which it was taken, 0 the value a reset writes.  A key of run_data   *)
(* or of its stats that a reset has removed and not yet put back is        *)
(* Missing; to look it up is a KeyError, which ends the receiver and not   *)
(* the daemon.  reconnect_cnt and the cpu, net and mem entries are left    *)
(* out, as are the lines that log.                                         *)
(*                                                                         *)
(* The subscriber is one that fetch_app_stats reads until its count stands *)
(* still; after 41 such clients it reads the others once.                  *)
(***************************************************************************)
EXTENDS Integers, Sequences

CONSTANTS MaxTests,  \* bound: the tests of one driver
          MaxSent    \* bound: the messages the publisher sends in one test

ASSUME SubAssumption == MaxTests \in Nat \ {0} /\ MaxSent \in Nat

VARIABLES
  mpc,       \* driver: the call it is at
  round,     \* driver: the test it is at
  read1,     \* driver: the stats it read last
  results,   \* driver: the stats kept, one per test
  chan,      \* "none", or whether the call mpc is a request or a reply
  reply,     \* the stats in a reply
  wire,      \* how many messages are on their way to this subscriber
  sent,      \* messages sent to this subscriber in this test
  dpc,       \* daemon: where in a handler it is
  seen,      \* daemon: stats['msg_cnt'], as get_stats has just written it
  rpc,       \* receiver: where in its loop it is
  loaded,    \* receiver: msg_cnt as line 124 has read it
  received,  \* receiver: how many messages it has taken off the wire
  msg_cnt, first, last,  \* hd.msg_cnt, run_data['first_msg_time_r'], ['last_msg_time_r']
  stamped,   \* whether run_data['stats'] has a first_msg_time
  paced, reconnects,     \* recv_rate # 0, reconnect_rate # 0
  base,      \* received, when the last reset began
  left,      \* what msg_cnt could come to without any message of this test, when its
             \* reset ended: the messages on the wire and in hand, or what line 124 had read
  overlap    \* a message was in hand during some reset

driver   == <<mpc, round, read1, results>>
net      == <<wire, sent>>
daemon   == <<dpc, seen>>
receiver == <<rpc, loaded, received>>
counters == <<msg_cnt, first, last, stamped>>
config   == <<paced, reconnects>>
history  == <<base, left, overlap>>
vars     == <<driver, chan, reply, net, daemon, receiver, counters, config, history>>

Missing == -1
Stamps  == Missing..MaxTests * MaxSent
Counts  == 0..MaxTests * MaxSent
Stats   == [cnt : Counts, first : Stamps, last : Stamps]
Zero    == [cnt |-> 0, first |-> 0, last |-> 0]
Calls   == {"resetstats", "updateconfig", "getstats", "getstats2"}
InHand  == rpc \in {"check", "first", "stamp", "log", "load", "store"}

\* What msg_cnt comes to, if it is n, when all that is on the wire or in hand is counted.
ToCount(n) == wire + IF rpc = "store" THEN loaded + 1 ELSE IF InHand THEN n + 1 ELSE n

Resetting == dpc \in {"reset44", "reset48", "reset49", "reset50"}

Init ==
  /\ mpc = "resetstats" /\ round = 1 /\ read1 = Zero /\ results = <<>>
  /\ chan = "none" /\ reply = Zero
  /\ wire = 0 /\ sent = 0
  /\ dpc = "recv" /\ seen = 0
  /\ rpc = "recv" /\ loaded = 0 /\ received = 0
  /\ msg_cnt = 0 /\ first = 0 /\ last = 0 /\ stamped = TRUE
  /\ paced = FALSE /\ reconnects = FALSE
  /\ base = 0 /\ left = 0 /\ overlap = FALSE

-----------------------------------------------------------------------------
(* The driver.                                                             *)

Send == /\ mpc \in Calls /\ chan = "none"
        /\ chan' = "request"
        /\ UNCHANGED <<driver, reply, net, daemon, receiver, counters, config, history>>

Return(c) == /\ mpc = c /\ chan = "reply"
             /\ chan' = "none"
             /\ UNCHANGED <<reply, net, daemon, receiver, counters, config, history>>

\* The slow or the reconnecting clients are told their rates only when the
\* selection has changed.
HasReset == /\ Return("resetstats")
            /\ mpc' \in {"updateconfig", "test"}
            /\ UNCHANGED <<round, read1, results>>

Configured == Return("updateconfig") /\ mpc' = "test" /\ UNCHANGED <<round, read1, results>>

\* The publisher sends; a message that finds the subscriber's queue full is dropped.
Publish == /\ mpc = "test" /\ sent < MaxSent
           /\ sent' = sent + 1
           /\ wire' \in {wire, wire + 1}
           /\ UNCHANGED <<driver, chan, reply, daemon, receiver, counters, config, history>>

TestEnds == /\ mpc = "test"
            /\ mpc' = "getstats"
            /\ UNCHANGED <<round, read1, results, chan, reply, net, daemon, receiver,
                           counters, config, history>>

ReadFirst == /\ Return("getstats")
             /\ read1' = reply
             /\ mpc' = "getstats2"
             /\ UNCHANGED <<round, results>>

\* fetch_app_stats: read again as long as msg_cnt changes; keep the read before.
ReadAgain == /\ Return("getstats2")
             /\ reply.cnt # read1.cnt
             /\ read1' = reply
             /\ UNCHANGED <<mpc, round, results>>

KeepUnread == /\ mpc = "getstats2" /\ chan = "reply"
              /\ results' = Append(results, [stats |-> read1, sent |-> sent, left |-> left])
              /\ round' = round + 1
              /\ sent' = 0
              /\ mpc' = IF round < MaxTests THEN "resetstats" ELSE "finished"
              /\ chan' = "none"
              /\ UNCHANGED <<read1, reply, wire, daemon, receiver, counters, config, history>>

Keep == /\ mpc = "getstats2" /\ chan = "reply"
        /\ reply.cnt = read1.cnt
        /\ results' = Append(results, [stats |-> read1, sent |-> sent, left |-> left])
        /\ round' = round + 1
        /\ sent' = 0
        /\ mpc' = IF round < MaxTests THEN "resetstats" ELSE "finished"
        /\ chan' = "none"
        /\ UNCHANGED <<read1, reply, wire, daemon, receiver, counters, config, history>>

Driver == \/ Send \/ HasReset \/ Configured \/ Publish \/ TestEnds
          \/ ReadFirst \/ ReadAgain \/ Keep

-----------------------------------------------------------------------------
(* The daemon.  One step per assignment the receiver can come between.     *)

Serve(c) == dpc = "recv" /\ mpc = c /\ chan = "request"
Others   == UNCHANGED <<driver, net, receiver, config>>

\* reset_stats, line 43: a run_data with empty stats.
Reset43 == /\ Serve("resetstats")
           /\ first' = Missing /\ last' = Missing /\ stamped' = FALSE
           /\ dpc' = "reset44"
           /\ base' = received
           /\ overlap' = (overlap \/ rpc # "recv")
           /\ UNCHANGED <<chan, reply, seen, msg_cnt, left>> /\ Others

Reset44 == /\ dpc = "reset44"
           /\ stamped' = TRUE /\ dpc' = "reset48"
           /\ UNCHANGED <<chan, reply, seen, msg_cnt, first, last, history>> /\ Others

Reset48 == /\ dpc = "reset48"
           /\ first' = 0 /\ dpc' = "reset49"
           /\ UNCHANGED <<chan, reply, seen, msg_cnt, last, stamped, history>> /\ Others

Reset49 == /\ dpc = "reset49"
           /\ last' = 0 /\ dpc' = "reset50"
           /\ UNCHANGED <<chan, reply, seen, msg_cnt, first, stamped, history>> /\ Others

Reset50Not == /\ dpc = "reset50"
              /\ dpc' = "recv"
              /\ chan' = "reply"
              /\ left' = ToCount(0)
              /\ UNCHANGED <<reply, seen, counters, base, overlap>> /\ Others

Reset50 == /\ dpc = "reset50"
           /\ msg_cnt' = 0 /\ dpc' = "recv"
           /\ chan' = "reply"
           /\ left' = ToCount(0)
           /\ UNCHANGED <<reply, seen, first, last, stamped, base, overlap>> /\ Others

UpdateConfig == /\ Serve("updateconfig")
                /\ paced' \in BOOLEAN /\ reconnects' \in BOOLEAN
                /\ chan' = "reply"
                /\ UNCHANGED <<driver, reply, net, daemon, receiver, counters, history>>

\* get_stats: the count first (line 31), the rate over the stamps later (line 36).
GetStats31 == /\ Serve("getstats") \/ Serve("getstats2")
              /\ seen' = msg_cnt
              /\ dpc' = "stats36"
              /\ UNCHANGED <<chan, reply, counters, history>> /\ Others

GetStatsOnce == /\ dpc = "stats36"
                /\ reply' = [cnt |-> seen, first |-> first, last |-> last]
                /\ first' = Missing /\ last' = Missing
                /\ dpc' = "recv"
                /\ chan' = "reply"
                /\ UNCHANGED <<seen, msg_cnt, stamped, history>> /\ Others

GetStats36 == /\ dpc = "stats36"
              /\ reply' = [cnt |-> seen, first |-> first, last |-> last]
              /\ dpc' = "recv"
              /\ chan' = "reply"
              /\ UNCHANGED <<seen, counters, history>> /\ Others

Daemon == \/ Reset43 \/ Reset44 \/ Reset48 \/ Reset49 \/ Reset50
          \/ UpdateConfig \/ GetStats31 \/ GetStats36

-----------------------------------------------------------------------------
(* The receiver.                                                           *)

\* A message in hand while a reset is on its way.
Handle == /\ overlap' = (overlap \/ Resetting)
          /\ UNCHANGED <<driver, chan, reply, sent, daemon, config, base, left>>

Receive == /\ rpc = "recv" /\ wire > 0
           /\ wire' = wire - 1
           /\ received' = received + 1
           /\ rpc' = "check"
           /\ UNCHANGED <<loaded, counters>> /\ Handle

Check == /\ rpc = "check"
         /\ rpc' = IF msg_cnt = 0 THEN "first" ELSE "load"
         /\ UNCHANGED <<wire, loaded, received, counters>> /\ Handle

First == /\ rpc = "first"
         /\ first' = received
         /\ rpc' = "stamp"
         /\ UNCHANGED <<wire, loaded, received, msg_cnt, last, stamped>> /\ Handle

\* Lines 122 and 123 look up what they have stored, in the run_data of the moment.
Stamp == /\ rpc = "stamp"
         /\ IF first = Missing THEN rpc' = "dead" /\ UNCHANGED stamped
                               ELSE rpc' = "log" /\ stamped' = TRUE
         /\ UNCHANGED <<wire, loaded, received, msg_cnt, first, last>> /\ Handle

Log == /\ rpc = "log"
       /\ rpc' = IF stamped THEN "load" ELSE "dead"
       /\ UNCHANGED <<wire, loaded, received, counters>> /\ Handle

\* Line 124 reads msg_cnt and then writes it.
Load == /\ rpc = "load"
        /\ loaded' = msg_cnt
        /\ rpc' = "store"
        /\ UNCHANGED <<wire, received, counters>> /\ Handle

StoreTwo == /\ rpc = "store"
            /\ msg_cnt' = loaded + 2
            /\ rpc' = "last"
            /\ UNCHANGED <<wire, loaded, received, first, last, stamped>> /\ Handle

Store == /\ rpc = "store"
         /\ msg_cnt' = loaded + 1
         /\ rpc' = "last"
         /\ UNCHANGED <<wire, loaded, received, first, last, stamped>> /\ Handle

Last == /\ rpc = "last"
        /\ last' = received
        /\ rpc' = "stamp2"
        /\ UNCHANGED <<wire, loaded, received, msg_cnt, first, stamped>> /\ Handle

Stamp2 == /\ rpc = "stamp2"
          /\ rpc' = IF last = Missing THEN "dead" ELSE "pace"
          /\ UNCHANGED <<wire, loaded, received, counters>> /\ Handle

\* Sleep to keep the rate, or break off to reconnect, as first_msg_time_r tells.
Pace == /\ rpc = "pace"
        /\ IF (paced \/ reconnects) /\ first = Missing
           THEN rpc' = "dead"
           ELSE \/ rpc' = "recv"
                \/ reconnects /\ rpc' = "reconnect"
        /\ UNCHANGED <<wire, loaded, received, counters>> /\ Handle

\* A new socket: whatever waited in the old one is lost.
Reconnect == /\ rpc = "reconnect"
             /\ wire' = 0
             /\ rpc' = "recv"
             /\ UNCHANGED <<loaded, received, counters>> /\ Handle

Receiver == \/ Receive \/ Check \/ First \/ Stamp \/ Log \/ Load \/ Store
            \/ Last \/ Stamp2 \/ Pace \/ Reconnect

-----------------------------------------------------------------------------
Next == Driver \/ Daemon \/ Receiver

Spec == Init /\ [][Next]_vars

-----------------------------------------------------------------------------
(* Properties.                                                             *)

\* Every variable stays within the values the code gives it.
TypeOK ==
  /\ mpc \in Calls \cup {"test", "finished"}
  /\ round \in 1..MaxTests + 1
  /\ read1 \in Stats /\ reply \in Stats
  /\ results \in Seq([stats : Stats, sent : 0..MaxSent, left : Counts])
  /\ chan \in {"none", "request", "reply"}
  /\ wire \in Counts /\ sent \in 0..MaxSent
  /\ dpc \in {"recv", "reset44", "reset48", "reset49", "reset50", "stats36"}
  /\ rpc \in {"recv", "check", "first", "stamp", "log", "load", "store", "last", "stamp2",
              "pace", "reconnect", "dead"}
  /\ seen \in Counts /\ loaded \in Counts /\ received \in Counts /\ msg_cnt \in Counts
  /\ first \in Stamps /\ last \in Stamps
  /\ stamped \in BOOLEAN /\ paced \in BOOLEAN /\ reconnects \in BOOLEAN
  /\ base \in Counts /\ left \in Counts /\ overlap \in BOOLEAN

\* The receive loop dies of no lookup, except where a reset comes while a message
\* is in hand; reading the stats and changing the rates never harm it.
DiesOnlyOfReset == rpc = "dead" => overlap

\* As long as no reset has met a message, every message received since the last
\* reset is counted once, and the stamps are those of the first and the last.
CountIsExact ==
  ~overlap /\ ~Resetting /\ rpc = "recv" =>
    /\ msg_cnt = received - base
    /\ msg_cnt > 0 => first = base + 1 /\ last = received

\* No test reports more messages than were sent to the subscriber in it and left over for it
\* by the tests before, whenever those were received, counted and read: what makes its packet
\* loss negative is left over when its reset ends, and nothing later.  A reset while line 124
\* is between its read and its write leaves the whole of the count it has read.
ExcessIsLeftOver ==
  \A t \in 1..Len(results) : results[t].stats.cnt <= results[t].sent + results[t].left

\* In the stats kept, as long as no reset has met a message, count and rate are of one
\* moment, but for the stamp of the message being counted, which may still be that of the
\* message before or of the reset: two reads with the same msg_cnt make sure that the stamps
\* are of no later message than the count.
KeptIsOneMoment ==
  \A t \in 1..Len(results) :
    ~overlap /\ results[t].stats.cnt > 0 =>
      LET s       == results[t].stats
          counted == s.first + s.cnt - 1
      IN  s.last \in {counted, IF s.cnt = 1 THEN 0 ELSE counted - 1}

\* A reset takes effect (hydrabase.py:535, "Reset all the stats for an application"):
\* afterwards msg_cnt counts no message received before it, but for the one in hand.
ResetTakesEffect == ~Resetting => msg_cnt <= received - base + 1
=============================================================================
