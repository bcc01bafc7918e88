------------------------- MODULE SubStats_proofs -------------------------
(***************************************************************************)
(* Proofs about module SubStats, for any number of tests and messages.     *)
(***************************************************************************)
EXTENDS SubStats, SequenceTheorems, TLAPS

\* How many messages may have been sent to the subscriber until now.
Total == (round - 1) * MaxSent + sent

Asked == mpc \in {"getstats", "getstats2"}

\* The reset of the current test has ended.
Counting == mpc # "finished" /\ (mpc = "resetstats" => chan = "reply")

\* What driver and daemon know of each other.
Driving ==
  /\ dpc # "recv" => chan = "request"
  /\ Resetting => mpc = "resetstats"
  /\ dpc = "stats36" => Asked
  /\ chan # "none" => mpc \in Calls
  /\ (mpc = "finished") = (round = MaxTests + 1)
  /\ mpc \in {"resetstats", "updateconfig", "finished"} => sent = 0

\* No message is counted before it is received, nor received before it is sent.
Within ==
  /\ wire + received <= Total
  /\ base <= received /\ msg_cnt <= received
  /\ InHand => msg_cnt < received
  /\ rpc = "store" => loaded < received

\* Until a reset has met a message, the counters are exact at every line of the
\* receive loop: the last time stamp is that of the message so many since the reset.
Stamped == received - base - (IF InHand \/ rpc = "last" THEN 1 ELSE 0)

ExactReset ==
  Resetting =>
    /\ rpc = "recv" /\ received = base
    /\ dpc \in {"reset49", "reset50"} => first = 0
    /\ dpc = "reset50" => last = 0
    /\ dpc # "reset44" => stamped

ExactRun ==
  ~Resetting =>
    /\ rpc # "dead" /\ stamped
    /\ received - base = IF InHand THEN msg_cnt + 1 ELSE msg_cnt
    /\ rpc = "store" => loaded = msg_cnt
    /\ rpc \in {"first", "stamp", "log"} => msg_cnt = 0
    /\ rpc \in {"last", "stamp2", "pace"} => msg_cnt > 0
    /\ first = IF msg_cnt > 0 \/ rpc \in {"stamp", "log", "load", "store"}
               THEN base + 1 ELSE 0
    /\ last = IF Stamped = 0 THEN 0 ELSE base + Stamped

Exact == ~overlap => ExactReset /\ ExactRun

\* No more is counted, now or when all that is on its way is counted, than was left over and
\* has been sent, and no more read than counted.
Left ==
  /\ Counting => msg_cnt <= sent + left /\ ToCount(msg_cnt) <= sent + left
  /\ dpc = "stats36" => seen <= sent + left
  /\ Asked /\ chan = "reply" => reply.cnt <= sent + left
  /\ mpc = "getstats2" => read1.cnt <= sent + left

\* Stats whose count and stamps are of one moment; those read are, if the count is the
\* same still.
OneMoment(s) ==
  s.cnt > 0 => s.last \in {s.first + s.cnt - 1, IF s.cnt = 1 THEN 0 ELSE s.first + s.cnt - 2}

Settled(s) == s.cnt <= msg_cnt /\ (s.cnt = msg_cnt => OneMoment(s))

MomentRead ==
  /\ dpc = "stats36" => seen <= msg_cnt
  /\ Asked /\ chan = "reply" => Settled(reply)
  /\ mpc = "getstats2" =>
       /\ Settled(read1)
       /\ dpc = "stats36" /\ seen = read1.cnt => OneMoment(read1)
       /\ chan = "reply" /\ reply.cnt = read1.cnt => OneMoment(read1)

MomentKept == \A t \in 1..Len(results) : OneMoment(results[t].stats)

Moment == ~overlap => MomentRead /\ MomentKept

IInv == TypeOK /\ Driving /\ Within /\ Exact /\ Left /\ ExcessIsLeftOver /\ Moment

-----------------------------------------------------------------------------
(* Numbers.                                                                *)

\* All that is sent before the tests are over, and in the last of them, is within bounds.
LEMMA Products ==
  ASSUME SubAssumption
  PROVE  /\ MaxTests * MaxSent \in Nat
         /\ \A r \in 1..MaxTests + 1 : (r - 1) * MaxSent \in Nat
         /\ \A r \in 1..MaxTests : /\ (r - 1) * MaxSent + MaxSent <= MaxTests * MaxSent
                                   /\ ((r + 1) - 1) * MaxSent = (r - 1) * MaxSent + MaxSent
         /\ ((MaxTests + 1) - 1) * MaxSent = MaxTests * MaxSent
<1>1. MaxTests \in Nat \ {0} /\ MaxSent \in Nat  BY DEF SubAssumption
<1>2. MaxTests * MaxSent \in Nat  BY <1>1
<1>3. ASSUME NEW r \in 1..MaxTests + 1 PROVE (r - 1) * MaxSent \in Nat
  <2>1. r - 1 \in Nat  BY <1>1
  <2>. QED BY <1>1, <2>1
<1>4. ASSUME NEW r \in 1..MaxTests
      PROVE  /\ (r - 1) * MaxSent + MaxSent <= MaxTests * MaxSent
             /\ ((r + 1) - 1) * MaxSent = (r - 1) * MaxSent + MaxSent
  <2>1. r \in Nat /\ MaxTests - r \in Nat  BY <1>1
  <2>2. (MaxTests - r) * MaxSent \in Nat  BY <1>1, <2>1
  <2>3. MaxTests * MaxSent = r * MaxSent + (MaxTests - r) * MaxSent  BY <1>1, <2>1
  <2>4. (r - 1) * MaxSent + MaxSent = r * MaxSent /\ (r + 1) - 1 = r  BY <1>1, <2>1
  <2>. QED BY <1>1, <2>1, <2>2, <2>3, <2>4
<1>5. (MaxTests + 1) - 1 = MaxTests  BY <1>1
<1>. QED BY <1>2, <1>3, <1>4, <1>5

LEMMA Numbers ==
  ASSUME SubAssumption, TypeOK
  PROVE  /\ MaxTests \in Nat /\ MaxSent \in Nat
         /\ wire \in Nat /\ received \in Nat /\ sent \in Nat /\ sent <= MaxSent /\ left \in Nat
         /\ msg_cnt \in Nat /\ loaded \in Nat /\ seen \in Nat /\ base \in Nat
         /\ first \in Int /\ last \in Int
         /\ reply.cnt \in Nat /\ reply.first \in Int /\ reply.last \in Int
         /\ read1.cnt \in Nat /\ read1.first \in Int /\ read1.last \in Int
<1>1. MaxTests * MaxSent \in Nat  BY Products
<1>2. Counts \subseteq Nat /\ Stamps \subseteq Int  BY <1>1 DEF Counts, Stamps, Missing
<1>3. /\ wire \in Nat /\ received \in Nat /\ left \in Nat /\ msg_cnt \in Nat /\ loaded \in Nat
      /\ seen \in Nat /\ base \in Nat /\ first \in Int /\ last \in Int
  BY <1>2 DEF TypeOK
<1>4. MaxTests \in Nat /\ MaxSent \in Nat  BY DEF SubAssumption
<1>5. sent \in Nat /\ sent <= MaxSent  BY <1>4 DEF TypeOK
<1>6. /\ reply.cnt \in Nat /\ reply.first \in Int /\ reply.last \in Int
      /\ read1.cnt \in Nat /\ read1.first \in Int /\ read1.last \in Int
  BY <1>2 DEF TypeOK, Stats
<1>. QED BY <1>3, <1>4, <1>5, <1>6

LEMMA TotalNat ==
  ASSUME SubAssumption, TypeOK PROVE (round - 1) * MaxSent \in Nat /\ Total \in Nat
<1>1. (round - 1) * MaxSent \in Nat  BY Products DEF TypeOK
<1>. QED BY <1>1, Numbers DEF Total

\* What has been received, and what may still be, is within the bounds of the types.
LEMMA SentWithin ==
  ASSUME SubAssumption, TypeOK, Driving, Within
  PROVE  /\ wire + received <= MaxTests * MaxSent
         /\ mpc # "finished" => Total + (MaxSent - sent) <= MaxTests * MaxSent
<1>1. /\ round \in 1..MaxTests + 1 /\ sent \in Nat /\ sent <= MaxSent
      /\ wire \in Nat /\ received \in Nat /\ MaxTests \in Nat /\ MaxSent \in Nat
  BY Numbers DEF TypeOK
<1>2. (round - 1) * MaxSent \in Nat /\ MaxTests * MaxSent \in Nat  BY <1>1, Products
<1>3. CASE mpc = "finished"
  <2>1. sent = 0 /\ round = MaxTests + 1  BY <1>3 DEF Driving
  <2>2. Total = MaxTests * MaxSent  BY <2>1, <1>2, Products DEF Total
  <2>. QED BY <1>1, <1>2, <1>3, <2>2 DEF Within
<1>4. CASE mpc # "finished"
  <2>1. round \in 1..MaxTests  BY <1>1, <1>4 DEF Driving
  <2>2. (round - 1) * MaxSent + MaxSent <= MaxTests * MaxSent  BY <2>1, Products
  <2>3. Total \in Nat /\ Total + (MaxSent - sent) = (round - 1) * MaxSent + MaxSent
    BY <1>1, <1>2 DEF Total
  <2>. QED BY <1>1, <1>2, <2>2, <2>3 DEF Within
<1>. QED BY <1>3, <1>4

LEMMA InitHolds == ASSUME SubAssumption, Init PROVE IInv
<1>1. MaxTests * MaxSent \in Nat /\ (1 - 1) * MaxSent = 0  BY Products DEF SubAssumption
<1>2. 0 \in Counts /\ 0 \in Stamps /\ Zero \in Stats
  BY <1>1 DEF Counts, Stamps, Missing, Zero, Stats
<1>3. 1 \in 1..MaxTests + 1 /\ 0 \in 0..MaxSent  BY DEF SubAssumption
<1>4. <<>> \in Seq([stats : Stats, sent : 0..MaxSent, left : Counts])  OBVIOUS
<1>5. TypeOK  BY <1>2, <1>3, <1>4 DEF Init, TypeOK, Calls
<1>6. Driving  BY DEF Init, Driving, Resetting, SubAssumption
<1>7. Within  BY <1>1 DEF Init, Within, InHand, Total
<1>8. ~InHand /\ ~Resetting /\ rpc # "last"  BY DEF Init, InHand, Resetting
<1>9. received = 0 /\ base = 0  BY DEF Init
<1>10. (IF InHand \/ rpc = "last" THEN 1 ELSE 0) = 0  BY <1>8
<1>11. Stamped = 0 - 0 - 0  BY <1>9, <1>10 DEF Stamped
<1>12. Stamped = 0  BY <1>11
<1>13. Exact  BY <1>12, <1>8 DEF Init, Exact, ExactReset, ExactRun
<1>14. Left  BY DEF Init, Left, Counting, Asked
<1>15. ExcessIsLeftOver  BY DEF Init, ExcessIsLeftOver
<1>16. Moment  BY DEF Init, Moment, MomentRead, MomentKept, Asked
<1>. QED BY <1>5, <1>6, <1>7, <1>13, <1>14, <1>15, <1>16 DEF IInv

LEMMA StatsTypes ==
  ASSUME SubAssumption, NEW s \in Stats PROVE s.cnt \in Nat /\ s.first \in Int /\ s.last \in Int
<1>1. Counts \subseteq Nat /\ Stamps \subseteq Int  BY Products DEF Counts, Stamps, Missing
<1>2. s.cnt \in Counts /\ s.first \in Stamps /\ s.last \in Stamps  BY DEF Stats
<1>. QED BY <1>1, <1>2

LEMMA KeptTypes ==
  ASSUME TypeOK PROVE \A t \in 1..Len(results) : results[t].stats \in Stats
<1>1. results \in Seq([stats : Stats, sent : 0..MaxSent, left : Counts])  BY DEF TypeOK
<1>2. \A t \in 1..Len(results) :
        results[t] \in [stats : Stats, sent : 0..MaxSent, left : Counts]
  BY <1>1, ElementOfSeq
<1>. QED BY <1>2

-----------------------------------------------------------------------------
(* Each action keeps the invariant.                                        *)

LEMMA SendKeeps == ASSUME SubAssumption, IInv, Send PROVE IInv'
<1>1. /\ mpc \in Calls /\ chan = "none" /\ chan' = "request"
      /\ mpc' = mpc /\ round' = round /\ read1' = read1 /\ results' = results
      /\ reply' = reply /\ wire' = wire /\ sent' = sent /\ dpc' = dpc /\ seen' = seen
      /\ rpc' = rpc /\ loaded' = loaded /\ received' = received /\ msg_cnt' = msg_cnt
      /\ first' = first /\ last' = last /\ stamped' = stamped /\ paced' = paced
      /\ reconnects' = reconnects /\ base' = base /\ left' = left
      /\ overlap' = overlap
  BY DEF Send, driver, net, daemon, receiver, counters, config, history
<1>2. TypeOK'
  BY <1>1 DEF IInv, TypeOK
<1>3. Driving'
  BY <1>1 DEF IInv, Driving, Resetting
<1>4. Within'
  BY <1>1 DEF IInv, Within, InHand, Total
<1>5. Exact'
  BY <1>1 DEF IInv, Exact, ExactReset, ExactRun, Resetting, InHand, Stamped, Missing
<1>6. Left'
  BY <1>1, Numbers DEF IInv, Driving, Left, Counting, ToCount, InHand, Asked, Resetting, Calls
<1>7. ExcessIsLeftOver'
  BY <1>1 DEF IInv, ExcessIsLeftOver
<1>8. Moment'
  BY <1>1 DEF IInv, Moment, MomentRead, MomentKept, Settled, OneMoment, Asked
<1>. QED BY <1>2, <1>3, <1>4, <1>5, <1>6, <1>7, <1>8 DEF IInv

LEMMA HasResetKeeps == ASSUME SubAssumption, IInv, HasReset PROVE IInv'
<1>1. /\ mpc = "resetstats" /\ chan = "reply" /\ chan' = "none"
      /\ mpc' \in {"updateconfig", "test"}
      /\ round' = round /\ read1' = read1 /\ results' = results /\ reply' = reply
      /\ wire' = wire /\ sent' = sent /\ dpc' = dpc /\ seen' = seen /\ rpc' = rpc
      /\ loaded' = loaded /\ received' = received /\ msg_cnt' = msg_cnt
      /\ first' = first /\ last' = last /\ stamped' = stamped /\ paced' = paced
      /\ reconnects' = reconnects /\ base' = base /\ left' = left
      /\ overlap' = overlap
  BY DEF HasReset, Return, driver, net, daemon, receiver, counters, config, history
<1>2. TypeOK'
  BY <1>1 DEF IInv, TypeOK, Calls
<1>3. Driving'
  BY <1>1 DEF IInv, Driving, Resetting
<1>4. Within'
  BY <1>1 DEF IInv, Within, InHand, Total
<1>5. Exact'
  BY <1>1 DEF IInv, Exact, ExactReset, ExactRun, Resetting, InHand, Stamped, Missing
<1>6. Left'
  BY <1>1, Numbers DEF IInv, Driving, Left, Counting, ToCount, InHand, Asked, Resetting, Calls
<1>7. ExcessIsLeftOver'
  BY <1>1 DEF IInv, ExcessIsLeftOver
<1>8. Moment'
  BY <1>1 DEF IInv, Moment, MomentRead, MomentKept, Settled, OneMoment, Asked
<1>. QED BY <1>2, <1>3, <1>4, <1>5, <1>6, <1>7, <1>8 DEF IInv

LEMMA ConfiguredKeeps == ASSUME SubAssumption, IInv, Configured PROVE IInv'
<1>1. /\ mpc = "updateconfig" /\ chan = "reply" /\ mpc' = "test" /\ chan' = "none"
      /\ round' = round /\ read1' = read1 /\ results' = results /\ reply' = reply
      /\ wire' = wire /\ sent' = sent /\ dpc' = dpc /\ seen' = seen /\ rpc' = rpc
      /\ loaded' = loaded /\ received' = received /\ msg_cnt' = msg_cnt
      /\ first' = first /\ last' = last /\ stamped' = stamped /\ paced' = paced
      /\ reconnects' = reconnects /\ base' = base /\ left' = left
      /\ overlap' = overlap
  BY DEF Configured, Return, driver, net, daemon, receiver, counters, config, history
<1>2. TypeOK'
  BY <1>1 DEF IInv, TypeOK
<1>3. Driving'
  BY <1>1 DEF IInv, Driving, Resetting
<1>4. Within'
  BY <1>1 DEF IInv, Within, InHand, Total
<1>5. Exact'
  BY <1>1 DEF IInv, Exact, ExactReset, ExactRun, Resetting, InHand, Stamped, Missing
<1>6. Left'
  BY <1>1, Numbers DEF IInv, Driving, Left, Counting, ToCount, InHand, Asked, Resetting, Calls
<1>7. ExcessIsLeftOver'
  BY <1>1 DEF IInv, ExcessIsLeftOver
<1>8. Moment'
  BY <1>1 DEF IInv, Moment, MomentRead, MomentKept, Settled, OneMoment, Asked
<1>. QED BY <1>2, <1>3, <1>4, <1>5, <1>6, <1>7, <1>8 DEF IInv

LEMMA PublishKeeps == ASSUME SubAssumption, IInv, Publish PROVE IInv'
<1>1. /\ mpc = "test" /\ sent < MaxSent /\ sent' = sent + 1
      /\ wire' \in {wire, wire + 1}
      /\ mpc' = mpc /\ round' = round /\ read1' = read1 /\ results' = results
      /\ chan' = chan /\ reply' = reply /\ dpc' = dpc /\ seen' = seen /\ rpc' = rpc
      /\ loaded' = loaded /\ received' = received /\ msg_cnt' = msg_cnt
      /\ first' = first /\ last' = last /\ stamped' = stamped /\ paced' = paced
      /\ reconnects' = reconnects /\ base' = base /\ left' = left
      /\ overlap' = overlap
  BY DEF Publish, driver, net, daemon, receiver, counters, config, history
<1>2. TypeOK'
  <2>1. wire + received <= Total /\ Total + (MaxSent - sent) <= MaxTests * MaxSent
    BY <1>1, SentWithin DEF IInv, Within
  <2>2. /\ wire \in Nat /\ received \in Nat /\ sent \in Nat /\ MaxSent \in Nat
        /\ Total \in Nat /\ MaxTests * MaxSent \in Nat
    BY Numbers, TotalNat, Products DEF IInv
  <2>3. wire \in 0..MaxTests * MaxSent /\ wire + 1 \in 0..MaxTests * MaxSent
    BY <1>1, <2>1, <2>2
  <2>4. wire' \in Counts /\ sent' \in 0..MaxSent  BY <1>1, <2>2, <2>3 DEF Counts
  <2>. QED BY <1>1, <2>4 DEF IInv, TypeOK
<1>3. Driving'
  BY <1>1 DEF IInv, Driving, Resetting, Asked, Calls
<1>4. Within'
  <2>1. (round - 1) * MaxSent \in Nat /\ sent \in Nat  BY TotalNat, Numbers DEF IInv
  <2>2. Total \in Nat /\ Total' = Total + 1  BY <1>1, <2>1 DEF Total
  <2>. QED BY <1>1, <2>2, Numbers DEF IInv, Within, InHand
<1>5. Exact'
  BY <1>1 DEF IInv, Exact, ExactReset, ExactRun, Resetting, InHand, Stamped, Missing
<1>6. Left'
  BY <1>1, Numbers DEF IInv, Driving, Left, Counting, ToCount, InHand, Asked, Resetting, Calls
<1>7. ExcessIsLeftOver'
  BY <1>1 DEF IInv, ExcessIsLeftOver
<1>8. Moment'
  BY <1>1 DEF IInv, Moment, MomentRead, MomentKept, Settled, OneMoment, Asked, Resetting
<1>. QED BY <1>2, <1>3, <1>4, <1>5, <1>6, <1>7, <1>8 DEF IInv

LEMMA TestEndsKeeps == ASSUME SubAssumption, IInv, TestEnds PROVE IInv'
<1>1. /\ mpc = "test" /\ mpc' = "getstats"
      /\ round' = round /\ read1' = read1 /\ results' = results /\ chan' = chan
      /\ reply' = reply /\ wire' = wire /\ sent' = sent /\ dpc' = dpc /\ seen' = seen
      /\ rpc' = rpc /\ loaded' = loaded /\ received' = received /\ msg_cnt' = msg_cnt
      /\ first' = first /\ last' = last /\ stamped' = stamped /\ paced' = paced
      /\ reconnects' = reconnects /\ base' = base /\ left' = left
      /\ overlap' = overlap
  BY DEF TestEnds, driver, net, daemon, receiver, counters, config, history
<1>2. TypeOK'
  BY <1>1 DEF IInv, TypeOK, Calls
<1>3. Driving'
  BY <1>1 DEF IInv, Driving, Resetting, Asked, Calls
<1>4. Within'
  BY <1>1 DEF IInv, Within, InHand, Total
<1>5. Exact'
  BY <1>1 DEF IInv, Exact, ExactReset, ExactRun, Resetting, InHand, Stamped, Missing
<1>6. Left'
  BY <1>1, Numbers DEF IInv, Driving, Left, Counting, ToCount, InHand, Asked, Resetting, Calls
<1>7. ExcessIsLeftOver'
  BY <1>1 DEF IInv, ExcessIsLeftOver
<1>8. Moment'
  BY <1>1, Numbers DEF IInv, Moment, MomentRead, MomentKept, Settled, OneMoment, Asked,
         Resetting, Driving, Calls, Exact, ExactReset, ExactRun, InHand, Stamped,
         Missing
<1>. QED BY <1>2, <1>3, <1>4, <1>5, <1>6, <1>7, <1>8 DEF IInv

LEMMA ReadFirstKeeps == ASSUME SubAssumption, IInv, ReadFirst PROVE IInv'
<1>1. /\ mpc = "getstats" /\ chan = "reply" /\ mpc' = "getstats2"
      /\ read1' = reply /\ chan' = "none"
      /\ round' = round /\ results' = results /\ reply' = reply /\ wire' = wire
      /\ sent' = sent /\ dpc' = dpc /\ seen' = seen /\ rpc' = rpc /\ loaded' = loaded
      /\ received' = received /\ msg_cnt' = msg_cnt /\ first' = first /\ last' = last
      /\ stamped' = stamped /\ paced' = paced /\ reconnects' = reconnects
      /\ base' = base /\ left' = left /\ overlap' = overlap
  BY DEF ReadFirst, Return, driver, net, daemon, receiver, counters, config, history
<1>2. TypeOK'
  BY <1>1 DEF IInv, TypeOK, Calls
<1>3. Driving'
  BY <1>1 DEF IInv, Driving, Resetting
<1>4. Within'
  BY <1>1 DEF IInv, Within, InHand, Total
<1>5. Exact'
  BY <1>1 DEF IInv, Exact, ExactReset, ExactRun, Resetting, InHand, Stamped, Missing
<1>6. Left'
  BY <1>1, Numbers DEF IInv, Driving, Left, Counting, ToCount, InHand, Asked, Resetting, Calls
<1>7. ExcessIsLeftOver'
  BY <1>1 DEF IInv, ExcessIsLeftOver
<1>8. Moment'
  BY <1>1 DEF IInv, Driving, Moment, MomentRead, MomentKept, Settled, OneMoment, Asked,
         Resetting
<1>. QED BY <1>2, <1>3, <1>4, <1>5, <1>6, <1>7, <1>8 DEF IInv

LEMMA ReadAgainKeeps == ASSUME SubAssumption, IInv, ReadAgain PROVE IInv'
<1>1. /\ mpc = "getstats2" /\ chan = "reply" /\ read1' = reply /\ chan' = "none"
      /\ mpc' = mpc /\ round' = round /\ results' = results /\ reply' = reply
      /\ wire' = wire /\ sent' = sent /\ dpc' = dpc /\ seen' = seen /\ rpc' = rpc
      /\ loaded' = loaded /\ received' = received /\ msg_cnt' = msg_cnt
      /\ first' = first /\ last' = last /\ stamped' = stamped /\ paced' = paced
      /\ reconnects' = reconnects /\ base' = base /\ left' = left
      /\ overlap' = overlap
  BY DEF ReadAgain, Return, driver, net, daemon, receiver, counters, config, history
<1>2. TypeOK'
  BY <1>1 DEF IInv, TypeOK
<1>3. Driving'
  BY <1>1 DEF IInv, Driving, Resetting
<1>4. Within'
  BY <1>1 DEF IInv, Within, InHand, Total
<1>5. Exact'
  BY <1>1 DEF IInv, Exact, ExactReset, ExactRun, Resetting, InHand, Stamped, Missing
<1>6. Left'
  BY <1>1, Numbers DEF IInv, Driving, Left, Counting, ToCount, InHand, Asked, Resetting, Calls
<1>7. ExcessIsLeftOver'
  BY <1>1 DEF IInv, ExcessIsLeftOver
<1>8. Moment'
  BY <1>1 DEF IInv, Driving, Moment, MomentRead, MomentKept, Settled, OneMoment, Asked,
         Resetting
<1>. QED BY <1>2, <1>3, <1>4, <1>5, <1>6, <1>7, <1>8 DEF IInv

LEMMA KeepKeeps == ASSUME SubAssumption, IInv, Keep PROVE IInv'
<1>1. /\ mpc = "getstats2" /\ chan = "reply" /\ reply.cnt = read1.cnt
      /\ mpc' = IF round < MaxTests THEN "resetstats" ELSE "finished"
      /\ round' = round + 1
      /\ results' = Append(results, [stats |-> read1, sent |-> sent, left |-> left])
      /\ chan' = "none" /\ sent' = 0
      /\ read1' = read1 /\ reply' = reply /\ wire' = wire /\ dpc' = dpc /\ seen' = seen
      /\ rpc' = rpc /\ loaded' = loaded /\ received' = received /\ msg_cnt' = msg_cnt
      /\ first' = first /\ last' = last /\ stamped' = stamped /\ paced' = paced
      /\ reconnects' = reconnects /\ base' = base /\ left' = left
      /\ overlap' = overlap
  BY DEF Keep, driver, net, daemon, receiver, counters, config, history
<1>2. TypeOK'
  BY <1>1, Numbers DEF IInv, TypeOK, Stats, Zero, Stamps, Missing, Within, InHand,
         Total, Driving, Resetting, Asked, Calls
<1>3. Driving'
  <2>1. round \in 1..MaxTests  BY <1>1 DEF IInv, TypeOK, Driving
  <2>2. (mpc' = "finished") = (round' = MaxTests + 1)  BY <1>1, <2>1
  <2>3. dpc = "recv"  BY <1>1 DEF IInv, Driving
  <2>. QED BY <1>1, <2>2, <2>3 DEF Driving, Resetting
<1>4. Within'
  <2>1. round \in 1..MaxTests  BY <1>1 DEF IInv, TypeOK, Driving
  <2>2. (round - 1) * MaxSent \in Nat /\ ((round + 1) - 1) * MaxSent = (round - 1) * MaxSent + MaxSent
    BY <2>1, Products, TotalNat DEF IInv
  <2>3. sent \in Nat /\ MaxSent \in Nat /\ sent <= MaxSent  BY Numbers DEF IInv
  <2>4. Total' = (round - 1) * MaxSent + MaxSent  BY <1>1, <2>2, <2>3 DEF Total
  <2>5. Total \in Nat /\ Total <= Total'  BY <2>2, <2>3, <2>4 DEF Total
  <2>6. Total' \in Nat  BY <2>2, <2>3, <2>4
  <2>7. wire' + received' <= Total'  BY <1>1, <2>5, <2>6, Numbers DEF IInv, Within
  <2>. QED BY <1>1, <2>7 DEF IInv, Within, InHand
<1>5. Exact'
  BY <1>1 DEF IInv, Exact, ExactReset, ExactRun, Resetting, InHand, Stamped, Missing
<1>6. Left'
  BY <1>1, Numbers DEF IInv, Driving, Left, Counting, ToCount, InHand, Asked, Resetting, Calls
<1>7. ExcessIsLeftOver'
  <2>1. results \in Seq([stats : Stats, sent : 0..MaxSent, left : Counts])
    BY DEF IInv, TypeOK
  <2>2. /\ Len(results') = Len(results) + 1 /\ Len(results) \in Nat
        /\ \A t \in 1..Len(results) : results'[t] = results[t]
        /\ results'[Len(results) + 1] = [stats |-> read1, sent |-> sent, left |-> left]
    BY <1>1, <2>1
  <2>3. read1.cnt <= sent + left  BY <1>1 DEF IInv, Left
  <2>. QED BY <2>2, <2>3 DEF IInv, ExcessIsLeftOver
<1>8. Moment'
  <2>1. results \in Seq([stats : Stats, sent : 0..MaxSent, left : Counts])
    BY DEF IInv, TypeOK
  <2>2. /\ Len(results') = Len(results) + 1 /\ Len(results) \in Nat
        /\ \A t \in 1..Len(results) : results'[t] = results[t]
        /\ results'[Len(results) + 1] = [stats |-> read1, sent |-> sent, left |-> left]
    BY <1>1, <2>1
  <2>. SUFFICES ASSUME ~overlap PROVE MomentRead' /\ MomentKept'  BY <1>1 DEF Moment
  <2>3. MomentRead /\ MomentKept /\ dpc = "recv"  BY <1>1 DEF IInv, Moment, Driving
  <2>4. OneMoment(read1)  BY <1>1, <2>3 DEF MomentRead
  <2>5. MomentKept'
    <3>. SUFFICES ASSUME NEW t \in 1..Len(results') PROVE OneMoment(results'[t].stats)
      BY DEF MomentKept
    <3>2. CASE t \in 1..Len(results)
      <4>1. results'[t] = results[t]  BY <3>2, <2>2
      <4>. QED BY <3>2, <4>1, <2>3 DEF MomentKept, OneMoment
    <3>3. CASE t = Len(results) + 1
      <4>1. results'[t].stats = read1  BY <3>3, <2>2
      <4>. QED BY <4>1, <2>4 DEF OneMoment
    <3>. QED BY <3>2, <3>3, <2>2
  <2>6. MomentRead'  BY <1>1, <2>3 DEF MomentRead, Asked
  <2>. QED BY <2>5, <2>6
<1>. QED BY <1>2, <1>3, <1>4, <1>5, <1>6, <1>7, <1>8 DEF IInv

LEMMA Reset43Keeps == ASSUME SubAssumption, IInv, Reset43 PROVE IInv'
<1>1. /\ dpc = "recv" /\ mpc = "resetstats" /\ chan = "request"
      /\ dpc' = "reset44"
      /\ first' = Missing
      /\ last' = Missing /\ stamped' = FALSE /\ base' = received
      /\ left' = left
      /\ overlap' = (overlap \/ rpc # "recv")
      /\ mpc' = mpc /\ round' = round /\ read1' = read1 /\ results' = results
      /\ chan' = chan /\ reply' = reply /\ wire' = wire /\ sent' = sent /\ seen' = seen
      /\ rpc' = rpc /\ loaded' = loaded /\ received' = received /\ msg_cnt' = msg_cnt
      /\ paced' = paced /\ reconnects' = reconnects
  BY DEF Reset43, Serve, Others, driver, net, daemon, receiver, counters, config,
         history
<1>2. TypeOK'
  <2>1. Missing \in Stamps
    BY Products DEF Missing, Stamps
  <2>. QED BY <1>1, <2>1 DEF IInv, TypeOK
<1>3. Driving'
  BY <1>1 DEF IInv, Driving, Resetting
<1>4. Within'
  BY <1>1, Numbers DEF IInv, Within, InHand, Total
<1>5. Exact'
  BY <1>1 DEF IInv, Exact, ExactReset, ExactRun, Stamped, InHand, Resetting
<1>6. Left'
  BY <1>1, Numbers DEF IInv, Driving, Left, Counting, ToCount, InHand, Asked, Resetting, Calls
<1>7. ExcessIsLeftOver'
  BY <1>1 DEF IInv, ExcessIsLeftOver
<1>8. Moment'
  BY <1>1 DEF IInv, Moment, MomentRead, MomentKept, Settled, OneMoment, Asked
<1>. QED BY <1>2, <1>3, <1>4, <1>5, <1>6, <1>7, <1>8 DEF IInv

LEMMA Reset44Keeps == ASSUME SubAssumption, IInv, Reset44 PROVE IInv'
<1>1. /\ dpc = "reset44" /\ dpc' = "reset48" /\ stamped' = TRUE
      /\ mpc' = mpc /\ round' = round /\ read1' = read1 /\ results' = results
      /\ chan' = chan /\ reply' = reply /\ wire' = wire /\ sent' = sent /\ seen' = seen
      /\ rpc' = rpc /\ loaded' = loaded /\ received' = received /\ msg_cnt' = msg_cnt
      /\ first' = first /\ last' = last /\ paced' = paced /\ reconnects' = reconnects
      /\ base' = base /\ left' = left /\ overlap' = overlap
  BY DEF Reset44, Others, driver, net, daemon, receiver, counters, config, history
<1>2. TypeOK'
  BY <1>1 DEF IInv, TypeOK
<1>3. Driving'
  BY <1>1 DEF IInv, Driving, Resetting
<1>4. Within'
  BY <1>1 DEF IInv, Within, InHand, Total
<1>5. Exact'
  BY <1>1 DEF IInv, Exact, ExactReset, ExactRun, Stamped, InHand, Resetting
<1>6. Left'
  BY <1>1, Numbers DEF IInv, Driving, Left, Counting, ToCount, InHand, Asked, Resetting, Calls
<1>7. ExcessIsLeftOver'
  BY <1>1 DEF IInv, ExcessIsLeftOver
<1>8. Moment'
  BY <1>1 DEF IInv, Moment, MomentRead, MomentKept, Settled, OneMoment, Asked
<1>. QED BY <1>2, <1>3, <1>4, <1>5, <1>6, <1>7, <1>8 DEF IInv

LEMMA Reset48Keeps == ASSUME SubAssumption, IInv, Reset48 PROVE IInv'
<1>1. /\ dpc = "reset48" /\ dpc' = "reset49" /\ first' = 0
      /\ mpc' = mpc /\ round' = round /\ read1' = read1 /\ results' = results
      /\ chan' = chan /\ reply' = reply /\ wire' = wire /\ sent' = sent /\ seen' = seen
      /\ rpc' = rpc /\ loaded' = loaded /\ received' = received /\ msg_cnt' = msg_cnt
      /\ last' = last /\ stamped' = stamped /\ paced' = paced
      /\ reconnects' = reconnects /\ base' = base /\ left' = left
      /\ overlap' = overlap
  BY DEF Reset48, Others, driver, net, daemon, receiver, counters, config, history
<1>2. TypeOK'
  BY <1>1, Numbers DEF IInv, TypeOK, Stats, Stamps, Counts, Missing
<1>3. Driving'
  BY <1>1 DEF IInv, Driving, Resetting
<1>4. Within'
  BY <1>1 DEF IInv, Within, InHand, Total
<1>5. Exact'
  BY <1>1 DEF IInv, Exact, ExactReset, ExactRun, Stamped, InHand, Resetting
<1>6. Left'
  BY <1>1, Numbers DEF IInv, Driving, Left, Counting, ToCount, InHand, Asked, Resetting, Calls
<1>7. ExcessIsLeftOver'
  BY <1>1 DEF IInv, ExcessIsLeftOver
<1>8. Moment'
  BY <1>1 DEF IInv, Moment, MomentRead, MomentKept, Settled, OneMoment, Asked
<1>. QED BY <1>2, <1>3, <1>4, <1>5, <1>6, <1>7, <1>8 DEF IInv

LEMMA Reset49Keeps == ASSUME SubAssumption, IInv, Reset49 PROVE IInv'
<1>1. /\ dpc = "reset49" /\ dpc' = "reset50" /\ last' = 0
      /\ mpc' = mpc /\ round' = round /\ read1' = read1 /\ results' = results
      /\ chan' = chan /\ reply' = reply /\ wire' = wire /\ sent' = sent /\ seen' = seen
      /\ rpc' = rpc /\ loaded' = loaded /\ received' = received /\ msg_cnt' = msg_cnt
      /\ first' = first /\ stamped' = stamped /\ paced' = paced
      /\ reconnects' = reconnects /\ base' = base /\ left' = left
      /\ overlap' = overlap
  BY DEF Reset49, Others, driver, net, daemon, receiver, counters, config, history
<1>2. TypeOK'
  BY <1>1, Numbers DEF IInv, TypeOK, Stats, Stamps, Counts, Missing
<1>3. Driving'
  BY <1>1 DEF IInv, Driving, Resetting
<1>4. Within'
  BY <1>1 DEF IInv, Within, InHand, Total
<1>5. Exact'
  BY <1>1 DEF IInv, Exact, ExactReset, ExactRun, Stamped, InHand, Resetting
<1>6. Left'
  BY <1>1, Numbers DEF IInv, Driving, Left, Counting, ToCount, InHand, Asked, Resetting, Calls
<1>7. ExcessIsLeftOver'
  BY <1>1 DEF IInv, ExcessIsLeftOver
<1>8. Moment'
  BY <1>1 DEF IInv, Moment, MomentRead, MomentKept, Settled, OneMoment, Asked
<1>. QED BY <1>2, <1>3, <1>4, <1>5, <1>6, <1>7, <1>8 DEF IInv

LEMMA Reset50Keeps == ASSUME SubAssumption, IInv, Reset50 PROVE IInv'
<1>1. /\ dpc = "reset50" /\ chan' = "reply" /\ dpc' = "recv" /\ msg_cnt' = 0
      /\ mpc' = mpc /\ round' = round /\ read1' = read1 /\ results' = results
      /\ reply' = reply /\ wire' = wire /\ sent' = sent /\ seen' = seen /\ rpc' = rpc
      /\ loaded' = loaded /\ received' = received /\ first' = first /\ last' = last
      /\ stamped' = stamped /\ paced' = paced /\ reconnects' = reconnects
      /\ base' = base /\ left' = ToCount(0) /\ overlap' = overlap
  BY DEF Reset50, Others, driver, net, daemon, receiver, counters, config, history
<1>2. TypeOK'
  <2>1. 0 \in Counts
    BY Products DEF Counts
  <2>2. ToCount(0) \in Counts
    <3>1. /\ wire \in Nat /\ received \in Nat /\ loaded \in Nat /\ msg_cnt \in Nat
          /\ wire + received <= MaxTests * MaxSent /\ MaxTests * MaxSent \in Nat
      BY Numbers, SentWithin, Products DEF IInv
    <3>2. (InHand => received >= 1) /\ (rpc = "store" => loaded < received)
      BY <3>1 DEF IInv, Within
    <3>. QED BY <3>1, <3>2 DEF ToCount, Counts
  <2>. QED BY <1>1, <2>1, <2>2 DEF IInv, TypeOK
<1>3. Driving'
  BY <1>1 DEF IInv, Driving, Resetting
<1>4. Within'
  BY <1>1, Numbers DEF IInv, Within, InHand, Total
<1>5. Exact'
  BY <1>1, Numbers DEF IInv, Exact, ExactReset, ExactRun, Stamped, InHand, Resetting,
         Missing
<1>6. Left'
  <2>1. ToCount(0) \in Nat  BY Numbers DEF ToCount, IInv
  <2>2. ToCount(msg_cnt)' = ToCount(0)  BY <1>1 DEF ToCount, InHand
  <2>. QED BY <1>1, <2>1, <2>2, Numbers DEF IInv, Driving, Left, Counting, Asked, Resetting, Calls
<1>7. ExcessIsLeftOver'
  BY <1>1 DEF IInv, ExcessIsLeftOver
<1>8. Moment'
  BY <1>1 DEF IInv, Driving, Moment, MomentRead, MomentKept, Settled, OneMoment, Asked,
         Resetting
<1>. QED BY <1>2, <1>3, <1>4, <1>5, <1>6, <1>7, <1>8 DEF IInv

LEMMA UpdateConfigKeeps == ASSUME SubAssumption, IInv, UpdateConfig PROVE IInv'
<1>1. /\ dpc = "recv" /\ mpc = "updateconfig" /\ chan = "request"
      /\ chan' = "reply"
      /\ paced' \in BOOLEAN /\ reconnects' \in BOOLEAN
      /\ mpc' = mpc /\ round' = round /\ read1' = read1 /\ results' = results
      /\ reply' = reply /\ wire' = wire /\ sent' = sent /\ dpc' = dpc /\ seen' = seen
      /\ rpc' = rpc /\ loaded' = loaded /\ received' = received /\ msg_cnt' = msg_cnt
      /\ first' = first /\ last' = last /\ stamped' = stamped /\ base' = base
      /\ left' = left /\ overlap' = overlap
  BY DEF UpdateConfig, Serve, driver, net, daemon, receiver, counters, config, history
<1>2. TypeOK'
  BY <1>1 DEF IInv, TypeOK
<1>3. Driving'
  BY <1>1 DEF IInv, Driving, Resetting
<1>4. Within'
  BY <1>1 DEF IInv, Within, InHand, Total
<1>5. Exact'
  BY <1>1 DEF IInv, Exact, ExactReset, ExactRun, Resetting, InHand, Stamped, Missing
<1>6. Left'
  BY <1>1, Numbers DEF IInv, Driving, Left, Counting, ToCount, InHand, Asked, Resetting, Calls
<1>7. ExcessIsLeftOver'
  BY <1>1 DEF IInv, ExcessIsLeftOver
<1>8. Moment'
  BY <1>1 DEF IInv, Moment, MomentRead, MomentKept, Settled, OneMoment, Asked
<1>. QED BY <1>2, <1>3, <1>4, <1>5, <1>6, <1>7, <1>8 DEF IInv

LEMMA GetStats31Keeps == ASSUME SubAssumption, IInv, GetStats31 PROVE IInv'
<1>1. /\ dpc = "recv" /\ mpc \in {"getstats", "getstats2"} /\ chan = "request"
      /\ dpc' = "stats36" /\ seen' = msg_cnt
      /\ mpc' = mpc /\ round' = round /\ read1' = read1 /\ results' = results
      /\ chan' = chan /\ reply' = reply /\ wire' = wire /\ sent' = sent /\ rpc' = rpc
      /\ loaded' = loaded /\ received' = received /\ msg_cnt' = msg_cnt
      /\ first' = first /\ last' = last /\ stamped' = stamped /\ paced' = paced
      /\ reconnects' = reconnects /\ base' = base /\ left' = left
      /\ overlap' = overlap
  BY DEF GetStats31, Serve, Others, driver, net, daemon, receiver, counters, config,
         history
<1>2. TypeOK'
  BY <1>1 DEF IInv, TypeOK
<1>3. Driving'
  BY <1>1 DEF IInv, Driving, Resetting, Asked, Calls
<1>4. Within'
  BY <1>1 DEF IInv, Within, InHand, Total
<1>5. Exact'
  BY <1>1 DEF IInv, Exact, ExactReset, ExactRun, Stamped, InHand, Resetting
<1>6. Left'
  BY <1>1, Numbers DEF IInv, Driving, Left, Counting, ToCount, InHand, Asked, Resetting, Calls
<1>7. ExcessIsLeftOver'
  BY <1>1 DEF IInv, ExcessIsLeftOver
<1>8. Moment'
  <2>. SUFFICES ASSUME ~overlap PROVE MomentRead' /\ MomentKept'  BY <1>1 DEF Moment
  <2>1. MomentRead /\ MomentKept  BY DEF IInv, Moment
  <2>2. MomentKept'  BY <1>1, <2>1 DEF MomentKept, OneMoment
  <2>3. msg_cnt \in Nat /\ read1.cnt \in Nat  BY Numbers DEF IInv
  <2>4. mpc = "getstats2" => read1.cnt <= msg_cnt /\ (msg_cnt = read1.cnt => OneMoment(read1))
    BY <2>1 DEF MomentRead, Settled
  <2>5. mpc = "getstats2" => Settled(read1)' /\ (seen' = read1.cnt => OneMoment(read1)')
    BY <1>1, <2>3, <2>4 DEF Settled, OneMoment
  <2>6. MomentRead'  BY <1>1, <2>3, <2>5 DEF MomentRead
  <2>. QED BY <2>2, <2>6
<1>. QED BY <1>2, <1>3, <1>4, <1>5, <1>6, <1>7, <1>8 DEF IInv

LEMMA GetStats36Keeps == ASSUME SubAssumption, IInv, GetStats36 PROVE IInv'
<1>1. /\ dpc = "stats36" /\ chan' = "reply"
      /\ reply' = [cnt |-> seen, first |-> first, last |-> last] /\ dpc' = "recv"
      /\ mpc' = mpc /\ round' = round /\ read1' = read1 /\ results' = results
      /\ wire' = wire /\ sent' = sent /\ seen' = seen /\ rpc' = rpc /\ loaded' = loaded
      /\ received' = received /\ msg_cnt' = msg_cnt /\ first' = first /\ last' = last
      /\ stamped' = stamped /\ paced' = paced /\ reconnects' = reconnects
      /\ base' = base /\ left' = left /\ overlap' = overlap
  BY DEF GetStats36, Others, driver, net, daemon, receiver, counters, config, history
<1>2. TypeOK'
  BY <1>1, Numbers DEF IInv, TypeOK, Stats, Stamps, Counts, Missing
<1>3. Driving'
  BY <1>1 DEF IInv, Driving, Resetting
<1>4. Within'
  BY <1>1 DEF IInv, Within, InHand, Total
<1>5. Exact'
  BY <1>1 DEF IInv, Exact, ExactReset, ExactRun, Stamped, InHand, Resetting
<1>6. Left'
  BY <1>1, Numbers DEF IInv, Driving, Left, Counting, ToCount, InHand, Asked, Resetting, Calls
<1>7. ExcessIsLeftOver'
  BY <1>1 DEF IInv, ExcessIsLeftOver
<1>8. Moment'
  <2>. SUFFICES ASSUME ~overlap PROVE MomentRead' /\ MomentKept'  BY <1>1 DEF Moment
  <2>1. MomentRead /\ MomentKept  BY DEF IInv, Moment
  <2>2. MomentKept'  BY <1>1, <2>1 DEF MomentKept, OneMoment
  <2>3. /\ reply'.cnt = seen /\ reply'.first = first /\ reply'.last = last
        /\ seen <= msg_cnt /\ msg_cnt \in Nat /\ base \in Nat /\ received \in Nat
    BY <1>1, <2>1, Numbers DEF MomentRead, IInv
  <2>4. ExactRun /\ ~Resetting  BY <1>1 DEF IInv, Exact, Resetting
  <2>5. Stamped \in {msg_cnt, msg_cnt - 1}
    BY <2>3, <2>4 DEF ExactRun, Stamped, InHand
  <2>6. msg_cnt > 0 => first = base + 1 /\ last = IF Stamped = 0 THEN 0 ELSE base + Stamped
    BY <2>4 DEF ExactRun
  <2>7. seen = msg_cnt => OneMoment(reply)'  BY <2>3, <2>5, <2>6 DEF OneMoment
  <2>8. Settled(reply)'  BY <1>1, <2>3, <2>7 DEF Settled
  <2>9. mpc = "getstats2" =>
          /\ Settled(read1)'
          /\ seen = read1.cnt => OneMoment(read1)'
    BY <1>1, <2>1 DEF MomentRead, Settled, OneMoment
  <2>10. MomentRead'  BY <1>1, <2>3, <2>8, <2>9 DEF MomentRead
  <2>. QED BY <2>2, <2>10
<1>. QED BY <1>2, <1>3, <1>4, <1>5, <1>6, <1>7, <1>8 DEF IInv

LEMMA ReceiveKeeps == ASSUME SubAssumption, IInv, Receive PROVE IInv'
<1>1. /\ rpc = "recv" /\ wire > 0 /\ wire' = wire - 1 /\ rpc' = "check"
      /\ received' = received + 1
      /\ overlap' = (overlap \/ Resetting)
      /\ mpc' = mpc /\ round' = round /\ read1' = read1 /\ results' = results
      /\ chan' = chan /\ reply' = reply /\ sent' = sent /\ dpc' = dpc /\ seen' = seen
      /\ loaded' = loaded /\ msg_cnt' = msg_cnt /\ first' = first /\ last' = last
      /\ stamped' = stamped /\ paced' = paced /\ reconnects' = reconnects
      /\ base' = base /\ left' = left
  BY DEF Receive, Handle, driver, net, daemon, receiver, counters, config, history
<1>2. TypeOK'
  <2>1. received + 1 <= MaxTests * MaxSent /\ wire - 1 <= MaxTests * MaxSent
    BY <1>1, SentWithin, Numbers, Products DEF IInv
  <2>2. received' \in Counts /\ wire' \in Counts  BY <1>1, <2>1, Numbers DEF IInv, Counts
  <2>. QED BY <1>1, <2>2 DEF IInv, TypeOK
<1>3. Driving'
  BY <1>1 DEF IInv, Driving, Resetting, Asked, Calls
<1>4. Within'
  BY <1>1, Numbers DEF IInv, Within, InHand, Total
<1>5. Exact'
  <2>. SUFFICES ASSUME ~overlap' PROVE ExactReset' /\ ExactRun'  BY DEF Exact
  <2>1. ~overlap /\ ~Resetting  BY <1>1
  <2>2. ~Resetting'  BY <1>1, <2>1 DEF Resetting
  <2>3. ExactRun  BY <2>1 DEF IInv, Exact
  <2>4. received \in Nat /\ base \in Nat /\ msg_cnt \in Nat  BY Numbers DEF IInv
  <2>5. ~InHand /\ Stamped = msg_cnt  BY <1>1, <2>1, <2>3, <2>4 DEF ExactRun, InHand, Stamped
  <2>6. InHand' /\ Stamped' = msg_cnt
    BY <1>1, <2>1, <2>3, <2>4, <2>5 DEF ExactRun, InHand, Stamped
  <2>7. ExactRun'  BY <1>1, <2>1, <2>3, <2>4, <2>5, <2>6 DEF ExactRun
  <2>. QED BY <2>2, <2>7 DEF ExactReset
<1>6. Left'
  BY <1>1, Numbers DEF IInv, Driving, Left, Counting, ToCount, InHand, Asked, Resetting, Calls
<1>7. ExcessIsLeftOver'
  BY <1>1 DEF IInv, ExcessIsLeftOver
<1>8. Moment'
  BY <1>1 DEF IInv, Moment, MomentRead, MomentKept, Settled, OneMoment, Asked
<1>. QED BY <1>2, <1>3, <1>4, <1>5, <1>6, <1>7, <1>8 DEF IInv

LEMMA CheckKeeps == ASSUME SubAssumption, IInv, Check PROVE IInv'
<1>1. /\ rpc = "check"
      /\ rpc' = IF msg_cnt = 0 THEN "first" ELSE "load"
      /\ overlap' = (overlap \/ Resetting)
      /\ mpc' = mpc /\ round' = round /\ read1' = read1 /\ results' = results
      /\ chan' = chan /\ reply' = reply /\ wire' = wire /\ sent' = sent /\ dpc' = dpc
      /\ seen' = seen /\ loaded' = loaded /\ received' = received /\ msg_cnt' = msg_cnt
      /\ first' = first /\ last' = last /\ stamped' = stamped /\ paced' = paced
      /\ reconnects' = reconnects /\ base' = base /\ left' = left
  BY DEF Check, Handle, driver, net, daemon, receiver, counters, config, history
<1>2. TypeOK'
  BY <1>1 DEF IInv, TypeOK
<1>3. Driving'
  BY <1>1 DEF IInv, Driving, Resetting, Asked, Calls
<1>4. Within'
  BY <1>1 DEF IInv, Within, InHand, Total
<1>5. Exact'
  <2>. SUFFICES ASSUME ~overlap' PROVE ExactReset' /\ ExactRun'  BY DEF Exact
  <2>1. ~overlap /\ ~Resetting  BY <1>1
  <2>2. ~Resetting'  BY <1>1, <2>1 DEF Resetting
  <2>3. ExactRun  BY <2>1 DEF IInv, Exact
  <2>4. received \in Nat /\ base \in Nat /\ msg_cnt \in Nat  BY Numbers DEF IInv
  <2>5. InHand /\ Stamped = msg_cnt  BY <1>1, <2>1, <2>3, <2>4 DEF ExactRun, InHand, Stamped
  <2>6. InHand' /\ Stamped' = msg_cnt
    BY <1>1, <2>1, <2>3, <2>4, <2>5 DEF ExactRun, InHand, Stamped
  <2>7. ExactRun'  BY <1>1, <2>1, <2>3, <2>4, <2>5, <2>6 DEF ExactRun
  <2>. QED BY <2>2, <2>7 DEF ExactReset
<1>6. Left'
  BY <1>1, Numbers DEF IInv, Driving, Left, Counting, ToCount, InHand, Asked, Resetting, Calls
<1>7. ExcessIsLeftOver'
  BY <1>1 DEF IInv, ExcessIsLeftOver
<1>8. Moment'
  BY <1>1 DEF IInv, Moment, MomentRead, MomentKept, Settled, OneMoment, Asked
<1>. QED BY <1>2, <1>3, <1>4, <1>5, <1>6, <1>7, <1>8 DEF IInv

LEMMA FirstKeeps == ASSUME SubAssumption, IInv, First PROVE IInv'
<1>1. /\ rpc = "first" /\ rpc' = "stamp" /\ first' = received
      /\ overlap' = (overlap \/ Resetting)
      /\ mpc' = mpc /\ round' = round /\ read1' = read1 /\ results' = results
      /\ chan' = chan /\ reply' = reply /\ wire' = wire /\ sent' = sent /\ dpc' = dpc
      /\ seen' = seen /\ loaded' = loaded /\ received' = received /\ msg_cnt' = msg_cnt
      /\ last' = last /\ stamped' = stamped /\ paced' = paced
      /\ reconnects' = reconnects /\ base' = base /\ left' = left
  BY DEF First, Handle, driver, net, daemon, receiver, counters, config, history
<1>2. TypeOK'
  <2>1. received \in Stamps
    BY Products DEF IInv, TypeOK, Counts, Stamps, Missing
  <2>. QED BY <1>1, <2>1 DEF IInv, TypeOK
<1>3. Driving'
  BY <1>1 DEF IInv, Driving, Resetting, Asked, Calls
<1>4. Within'
  BY <1>1 DEF IInv, Within, InHand, Total
<1>5. Exact'
  <2>. SUFFICES ASSUME ~overlap' PROVE ExactReset' /\ ExactRun'  BY DEF Exact
  <2>1. ~overlap /\ ~Resetting  BY <1>1
  <2>2. ~Resetting'  BY <1>1, <2>1 DEF Resetting
  <2>3. ExactRun  BY <2>1 DEF IInv, Exact
  <2>4. received \in Nat /\ base \in Nat /\ msg_cnt \in Nat  BY Numbers DEF IInv
  <2>5. InHand /\ Stamped = msg_cnt  BY <1>1, <2>1, <2>3, <2>4 DEF ExactRun, InHand, Stamped
  <2>6. InHand' /\ Stamped' = msg_cnt
    BY <1>1, <2>1, <2>3, <2>4, <2>5 DEF ExactRun, InHand, Stamped
  <2>7. ExactRun'  BY <1>1, <2>1, <2>3, <2>4, <2>5, <2>6 DEF ExactRun
  <2>. QED BY <2>2, <2>7 DEF ExactReset
<1>6. Left'
  BY <1>1, Numbers DEF IInv, Driving, Left, Counting, ToCount, InHand, Asked, Resetting, Calls
<1>7. ExcessIsLeftOver'
  BY <1>1 DEF IInv, ExcessIsLeftOver
<1>8. Moment'
  BY <1>1 DEF IInv, Moment, MomentRead, MomentKept, Settled, OneMoment, Asked
<1>. QED BY <1>2, <1>3, <1>4, <1>5, <1>6, <1>7, <1>8 DEF IInv

LEMMA StampKeeps == ASSUME SubAssumption, IInv, Stamp PROVE IInv'
<1>1. /\ rpc = "stamp"
      /\ rpc' = IF first = Missing THEN "dead" ELSE "log"
      /\ overlap' = (overlap \/ Resetting)
      /\ IF first = Missing THEN stamped' = stamped ELSE stamped' = TRUE
      /\ mpc' = mpc /\ round' = round /\ read1' = read1 /\ results' = results
      /\ chan' = chan /\ reply' = reply /\ wire' = wire /\ sent' = sent /\ dpc' = dpc
      /\ seen' = seen /\ loaded' = loaded /\ received' = received /\ msg_cnt' = msg_cnt
      /\ first' = first /\ last' = last /\ paced' = paced /\ reconnects' = reconnects
      /\ base' = base /\ left' = left
  BY DEF Stamp, Handle, driver, net, daemon, receiver, counters, config, history
<1>2. TypeOK'
  BY <1>1 DEF IInv, TypeOK
<1>3. Driving'
  BY <1>1 DEF IInv, Driving, Resetting, Asked, Calls
<1>4. Within'
  BY <1>1 DEF IInv, Within, InHand, Total
<1>5. Exact'
  <2>. SUFFICES ASSUME ~overlap' PROVE ExactReset' /\ ExactRun'  BY DEF Exact
  <2>1. ~overlap /\ ~Resetting  BY <1>1
  <2>2. ~Resetting'  BY <1>1, <2>1 DEF Resetting
  <2>3. ExactRun  BY <2>1 DEF IInv, Exact
  <2>4. received \in Nat /\ base \in Nat /\ msg_cnt \in Nat  BY Numbers DEF IInv
  <2>5. InHand /\ Stamped = msg_cnt  BY <1>1, <2>1, <2>3, <2>4 DEF ExactRun, InHand, Stamped
  <2>6. first = base + 1 /\ stamped  BY <1>1, <2>1, <2>3 DEF ExactRun
  <2>7. first # Missing  BY <2>4, <2>6 DEF Missing
  <2>8. first = base + 1 /\ rpc' = "log" /\ stamped' = TRUE  BY <1>1, <2>6, <2>7
  <2>9. InHand' /\ Stamped' = msg_cnt
    BY <1>1, <2>8, <2>1, <2>3, <2>4, <2>5 DEF ExactRun, InHand, Stamped
  <2>10. ExactRun'  BY <1>1, <2>8, <2>1, <2>3, <2>4, <2>5, <2>9 DEF ExactRun
  <2>. QED BY <2>2, <2>10 DEF ExactReset
<1>6. Left'
  BY <1>1, Numbers DEF IInv, Driving, Left, Counting, ToCount, InHand, Asked, Resetting, Calls
<1>7. ExcessIsLeftOver'
  BY <1>1 DEF IInv, ExcessIsLeftOver
<1>8. Moment'
  BY <1>1 DEF IInv, Moment, MomentRead, MomentKept, Settled, OneMoment, Asked
<1>. QED BY <1>2, <1>3, <1>4, <1>5, <1>6, <1>7, <1>8 DEF IInv

LEMMA LogKeeps == ASSUME SubAssumption, IInv, Log PROVE IInv'
<1>1. /\ rpc = "log"
      /\ rpc' = IF stamped THEN "load" ELSE "dead"
      /\ overlap' = (overlap \/ Resetting)
      /\ mpc' = mpc /\ round' = round /\ read1' = read1 /\ results' = results
      /\ chan' = chan /\ reply' = reply /\ wire' = wire /\ sent' = sent /\ dpc' = dpc
      /\ seen' = seen /\ loaded' = loaded /\ received' = received /\ msg_cnt' = msg_cnt
      /\ first' = first /\ last' = last /\ stamped' = stamped /\ paced' = paced
      /\ reconnects' = reconnects /\ base' = base /\ left' = left
  BY DEF Log, Handle, driver, net, daemon, receiver, counters, config, history
<1>2. TypeOK'
  BY <1>1 DEF IInv, TypeOK
<1>3. Driving'
  BY <1>1 DEF IInv, Driving, Resetting, Asked, Calls
<1>4. Within'
  BY <1>1 DEF IInv, Within, InHand, Total
<1>5. Exact'
  BY <1>1 DEF IInv, Exact, ExactReset, ExactRun, Stamped, InHand, Resetting
<1>6. Left'
  BY <1>1, Numbers DEF IInv, Driving, Left, Counting, ToCount, InHand, Asked, Resetting, Calls
<1>7. ExcessIsLeftOver'
  BY <1>1 DEF IInv, ExcessIsLeftOver
<1>8. Moment'
  BY <1>1 DEF IInv, Moment, MomentRead, MomentKept, Settled, OneMoment, Asked
<1>. QED BY <1>2, <1>3, <1>4, <1>5, <1>6, <1>7, <1>8 DEF IInv

LEMMA LoadKeeps == ASSUME SubAssumption, IInv, Load PROVE IInv'
<1>1. /\ rpc = "load" /\ rpc' = "store" /\ loaded' = msg_cnt
      /\ overlap' = (overlap \/ Resetting)
      /\ mpc' = mpc /\ round' = round /\ read1' = read1 /\ results' = results
      /\ chan' = chan /\ reply' = reply /\ wire' = wire /\ sent' = sent /\ dpc' = dpc
      /\ seen' = seen /\ received' = received /\ msg_cnt' = msg_cnt /\ first' = first
      /\ last' = last /\ stamped' = stamped /\ paced' = paced
      /\ reconnects' = reconnects /\ base' = base /\ left' = left
  BY DEF Load, Handle, driver, net, daemon, receiver, counters, config, history
<1>2. TypeOK'
  BY <1>1 DEF IInv, TypeOK
<1>3. Driving'
  BY <1>1 DEF IInv, Driving, Resetting, Asked, Calls
<1>4. Within'
  BY <1>1 DEF IInv, Within, InHand, Total
<1>5. Exact'
  BY <1>1 DEF IInv, Exact, ExactReset, ExactRun, Stamped, InHand, Resetting
<1>6. Left'
  BY <1>1, Numbers DEF IInv, Driving, Left, Counting, ToCount, InHand, Asked, Resetting, Calls
<1>7. ExcessIsLeftOver'
  BY <1>1 DEF IInv, ExcessIsLeftOver
<1>8. Moment'
  BY <1>1 DEF IInv, Moment, MomentRead, MomentKept, Settled, OneMoment, Asked
<1>. QED BY <1>2, <1>3, <1>4, <1>5, <1>6, <1>7, <1>8 DEF IInv

LEMMA StoreKeeps == ASSUME SubAssumption, IInv, Store PROVE IInv'
<1>1. /\ rpc = "store" /\ rpc' = "last" /\ msg_cnt' = loaded + 1
      /\ overlap' = (overlap \/ Resetting)
      /\ mpc' = mpc /\ round' = round /\ read1' = read1 /\ results' = results
      /\ chan' = chan /\ reply' = reply /\ wire' = wire /\ sent' = sent /\ dpc' = dpc
      /\ seen' = seen /\ loaded' = loaded /\ received' = received /\ first' = first
      /\ last' = last /\ stamped' = stamped /\ paced' = paced
      /\ reconnects' = reconnects /\ base' = base /\ left' = left
  BY DEF Store, Handle, driver, net, daemon, receiver, counters, config, history
<1>2. TypeOK'
  <2>1. loaded \in Nat /\ loaded < received /\ received \in Counts
    BY <1>1, Numbers DEF IInv, Within, TypeOK
  <2>2. msg_cnt' \in Counts  BY <1>1, <2>1, Products DEF Counts
  <2>. QED BY <1>1, <2>2 DEF IInv, TypeOK
<1>3. Driving'
  BY <1>1 DEF IInv, Driving, Resetting, Asked, Calls
<1>4. Within'
  BY <1>1, Numbers DEF IInv, Within, InHand, Total
<1>5. Exact'
  <2>. SUFFICES ASSUME ~overlap' PROVE ExactReset' /\ ExactRun'  BY DEF Exact
  <2>1. ~overlap /\ ~Resetting  BY <1>1
  <2>2. ~Resetting'  BY <1>1, <2>1 DEF Resetting
  <2>3. ExactRun  BY <2>1 DEF IInv, Exact
  <2>4. received \in Nat /\ base \in Nat /\ msg_cnt \in Nat  BY Numbers DEF IInv
  <2>5. InHand /\ Stamped = msg_cnt  BY <1>1, <2>1, <2>3, <2>4 DEF ExactRun, InHand, Stamped
  <2>6. msg_cnt' = msg_cnt + 1  BY <1>1, <2>1, <2>3, <2>4, <2>5 DEF ExactRun, Missing
  <2>7. ~InHand' /\ Stamped' = msg_cnt
    BY <1>1, <2>6, <2>1, <2>3, <2>4, <2>5 DEF ExactRun, InHand, Stamped
  <2>8. ExactRun'  BY <1>1, <2>6, <2>1, <2>3, <2>4, <2>5, <2>7 DEF ExactRun
  <2>. QED BY <2>2, <2>8 DEF ExactReset
<1>6. Left'
  BY <1>1, Numbers DEF IInv, Driving, Left, Counting, ToCount, InHand, Asked, Resetting, Calls
<1>7. ExcessIsLeftOver'
  BY <1>1 DEF IInv, ExcessIsLeftOver
<1>8. Moment'
  <2>. SUFFICES ASSUME ~overlap' PROVE MomentRead' /\ MomentKept'  BY DEF Moment
  <2>1. ~overlap /\ ~Resetting  BY <1>1
  <2>2. MomentRead /\ MomentKept  BY <2>1 DEF IInv, Moment
  <2>3. MomentKept'  BY <1>1, <2>2 DEF MomentKept, OneMoment
  <2>4. ExactRun  BY <2>1 DEF IInv, Exact
  <2>5. msg_cnt' = msg_cnt + 1  BY <1>1, <2>4 DEF ExactRun
  <2>6. /\ msg_cnt \in Nat /\ seen \in Nat /\ reply.cnt \in Nat /\ read1.cnt \in Nat
    BY Numbers DEF IInv
  <2>7. dpc = "stats36" => seen <= msg_cnt'  BY <2>2, <2>5, <2>6 DEF MomentRead
  <2>8. Asked /\ chan = "reply" => Settled(reply)'
    BY <1>1, <2>2, <2>5, <2>6 DEF MomentRead, Settled
  <2>9. mpc = "getstats2" => Settled(read1)'
    BY <1>1, <2>2, <2>5, <2>6 DEF MomentRead, Settled
  <2>10. MomentRead'
    BY <1>1, <2>2, <2>7, <2>8, <2>9 DEF MomentRead, Asked, OneMoment
  <2>. QED BY <2>3, <2>10
<1>. QED BY <1>2, <1>3, <1>4, <1>5, <1>6, <1>7, <1>8 DEF IInv

LEMMA LastKeeps == ASSUME SubAssumption, IInv, Last PROVE IInv'
<1>1. /\ rpc = "last" /\ rpc' = "stamp2" /\ last' = received
      /\ overlap' = (overlap \/ Resetting)
      /\ mpc' = mpc /\ round' = round /\ read1' = read1 /\ results' = results
      /\ chan' = chan /\ reply' = reply /\ wire' = wire /\ sent' = sent /\ dpc' = dpc
      /\ seen' = seen /\ loaded' = loaded /\ received' = received /\ msg_cnt' = msg_cnt
      /\ first' = first /\ stamped' = stamped /\ paced' = paced
      /\ reconnects' = reconnects /\ base' = base /\ left' = left
  BY DEF Last, Handle, driver, net, daemon, receiver, counters, config, history
<1>2. TypeOK'
  <2>1. received \in Stamps
    BY Products DEF IInv, TypeOK, Counts, Stamps, Missing
  <2>. QED BY <1>1, <2>1 DEF IInv, TypeOK
<1>3. Driving'
  BY <1>1 DEF IInv, Driving, Resetting, Asked, Calls
<1>4. Within'
  BY <1>1 DEF IInv, Within, InHand, Total
<1>5. Exact'
  <2>. SUFFICES ASSUME ~overlap' PROVE ExactReset' /\ ExactRun'  BY DEF Exact
  <2>1. ~overlap /\ ~Resetting  BY <1>1
  <2>2. ~Resetting'  BY <1>1, <2>1 DEF Resetting
  <2>3. ExactRun  BY <2>1 DEF IInv, Exact
  <2>4. received \in Nat /\ base \in Nat /\ msg_cnt \in Nat  BY Numbers DEF IInv
  <2>5. ~InHand /\ Stamped = msg_cnt - 1  BY <1>1, <2>1, <2>3, <2>4 DEF ExactRun, InHand, Stamped
  <2>6. ~InHand' /\ Stamped' = msg_cnt
    BY <1>1, <2>1, <2>3, <2>4, <2>5 DEF ExactRun, InHand, Stamped
  <2>7. ExactRun'  BY <1>1, <2>1, <2>3, <2>4, <2>5, <2>6 DEF ExactRun
  <2>. QED BY <2>2, <2>7 DEF ExactReset
<1>6. Left'
  BY <1>1, Numbers DEF IInv, Driving, Left, Counting, ToCount, InHand, Asked, Resetting, Calls
<1>7. ExcessIsLeftOver'
  BY <1>1 DEF IInv, ExcessIsLeftOver
<1>8. Moment'
  BY <1>1 DEF IInv, Moment, MomentRead, MomentKept, Settled, OneMoment, Asked
<1>. QED BY <1>2, <1>3, <1>4, <1>5, <1>6, <1>7, <1>8 DEF IInv

LEMMA Stamp2Keeps == ASSUME SubAssumption, IInv, Stamp2 PROVE IInv'
<1>1. /\ rpc = "stamp2"
      /\ rpc' = IF last = Missing THEN "dead" ELSE "pace"
      /\ overlap' = (overlap \/ Resetting)
      /\ mpc' = mpc /\ round' = round /\ read1' = read1 /\ results' = results
      /\ chan' = chan /\ reply' = reply /\ wire' = wire /\ sent' = sent /\ dpc' = dpc
      /\ seen' = seen /\ loaded' = loaded /\ received' = received /\ msg_cnt' = msg_cnt
      /\ first' = first /\ last' = last /\ stamped' = stamped /\ paced' = paced
      /\ reconnects' = reconnects /\ base' = base /\ left' = left
  BY DEF Stamp2, Handle, driver, net, daemon, receiver, counters, config, history
<1>2. TypeOK'
  BY <1>1 DEF IInv, TypeOK
<1>3. Driving'
  BY <1>1 DEF IInv, Driving, Resetting, Asked, Calls
<1>4. Within'
  BY <1>1 DEF IInv, Within, InHand, Total
<1>5. Exact'
  <2>. SUFFICES ASSUME ~overlap' PROVE ExactReset' /\ ExactRun'  BY DEF Exact
  <2>1. ~overlap /\ ~Resetting  BY <1>1
  <2>2. ~Resetting'  BY <1>1, <2>1 DEF Resetting
  <2>3. ExactRun  BY <2>1 DEF IInv, Exact
  <2>4. received \in Nat /\ base \in Nat /\ msg_cnt \in Nat  BY Numbers DEF IInv
  <2>5. ~InHand /\ Stamped = msg_cnt  BY <1>1, <2>1, <2>3, <2>4 DEF ExactRun, InHand, Stamped
  <2>6. rpc' = "pace"  BY <1>1, <2>1, <2>3, <2>4, <2>5 DEF ExactRun, Missing
  <2>7. ~InHand' /\ Stamped' = msg_cnt
    BY <1>1, <2>6, <2>1, <2>3, <2>4, <2>5 DEF ExactRun, InHand, Stamped
  <2>8. ExactRun'  BY <1>1, <2>6, <2>1, <2>3, <2>4, <2>5, <2>7 DEF ExactRun
  <2>. QED BY <2>2, <2>8 DEF ExactReset
<1>6. Left'
  BY <1>1, Numbers DEF IInv, Driving, Left, Counting, ToCount, InHand, Asked, Resetting, Calls
<1>7. ExcessIsLeftOver'
  BY <1>1 DEF IInv, ExcessIsLeftOver
<1>8. Moment'
  BY <1>1 DEF IInv, Moment, MomentRead, MomentKept, Settled, OneMoment, Asked
<1>. QED BY <1>2, <1>3, <1>4, <1>5, <1>6, <1>7, <1>8 DEF IInv

LEMMA PaceKeeps == ASSUME SubAssumption, IInv, Pace PROVE IInv'
<1>1. /\ rpc = "pace"
      /\ overlap' = (overlap \/ Resetting)
      /\ rpc' \in {"recv", "reconnect", "dead"} /\ (rpc' = "dead" => first = Missing)
      /\ mpc' = mpc /\ round' = round /\ read1' = read1 /\ results' = results
      /\ chan' = chan /\ reply' = reply /\ wire' = wire /\ sent' = sent /\ dpc' = dpc
      /\ seen' = seen /\ loaded' = loaded /\ received' = received /\ msg_cnt' = msg_cnt
      /\ first' = first /\ last' = last /\ stamped' = stamped /\ paced' = paced
      /\ reconnects' = reconnects /\ base' = base /\ left' = left
  BY DEF Pace, Handle, driver, net, daemon, receiver, counters, config, history
<1>2. TypeOK'
  BY <1>1 DEF IInv, TypeOK
<1>3. Driving'
  BY <1>1 DEF IInv, Driving, Resetting, Asked, Calls
<1>4. Within'
  BY <1>1 DEF IInv, Within, InHand, Total
<1>5. Exact'
  <2>. SUFFICES ASSUME ~overlap' PROVE ExactReset' /\ ExactRun'  BY DEF Exact
  <2>1. ~overlap /\ ~Resetting  BY <1>1
  <2>2. ~Resetting'  BY <1>1, <2>1 DEF Resetting
  <2>3. ExactRun  BY <2>1 DEF IInv, Exact
  <2>4. received \in Nat /\ base \in Nat /\ msg_cnt \in Nat  BY Numbers DEF IInv
  <2>5. ~InHand /\ Stamped = msg_cnt  BY <1>1, <2>1, <2>3, <2>4 DEF ExactRun, InHand, Stamped
  <2>6. rpc' \in {"recv", "reconnect"}  BY <1>1, <2>1, <2>3, <2>4, <2>5 DEF ExactRun, Missing
  <2>7. ~InHand' /\ Stamped' = msg_cnt
    BY <1>1, <2>6, <2>1, <2>3, <2>4, <2>5 DEF ExactRun, InHand, Stamped
  <2>8. ExactRun'  BY <1>1, <2>6, <2>1, <2>3, <2>4, <2>5, <2>7 DEF ExactRun
  <2>. QED BY <2>2, <2>8 DEF ExactReset
<1>6. Left'
  BY <1>1, Numbers DEF IInv, Driving, Left, Counting, ToCount, InHand, Asked, Resetting, Calls
<1>7. ExcessIsLeftOver'
  BY <1>1 DEF IInv, ExcessIsLeftOver
<1>8. Moment'
  BY <1>1 DEF IInv, Moment, MomentRead, MomentKept, Settled, OneMoment, Asked
<1>. QED BY <1>2, <1>3, <1>4, <1>5, <1>6, <1>7, <1>8 DEF IInv

LEMMA ReconnectKeeps == ASSUME SubAssumption, IInv, Reconnect PROVE IInv'
<1>1. /\ rpc = "reconnect" /\ wire' = 0 /\ rpc' = "recv"
      /\ overlap' = (overlap \/ Resetting)
      /\ mpc' = mpc /\ round' = round /\ read1' = read1 /\ results' = results
      /\ chan' = chan /\ reply' = reply /\ sent' = sent /\ dpc' = dpc /\ seen' = seen
      /\ loaded' = loaded /\ received' = received /\ msg_cnt' = msg_cnt
      /\ first' = first /\ last' = last /\ stamped' = stamped /\ paced' = paced
      /\ reconnects' = reconnects /\ base' = base /\ left' = left
  BY DEF Reconnect, Handle, driver, net, daemon, receiver, counters, config, history
<1>2. TypeOK'
  <2>1. 0 \in Counts  BY Products DEF Counts
  <2>. QED BY <1>1, <2>1 DEF IInv, TypeOK
<1>3. Driving'
  BY <1>1 DEF IInv, Driving, Resetting, Asked, Calls
<1>4. Within'
  <2>1. Total \in Nat /\ Total' = Total  BY <1>1, TotalNat DEF Total, IInv
  <2>. QED BY <1>1, <2>1, Numbers DEF IInv, Within, InHand
<1>5. Exact'
  BY <1>1 DEF IInv, Exact, ExactReset, ExactRun, Stamped, InHand, Resetting
<1>6. Left'
  BY <1>1, Numbers DEF IInv, Driving, Left, Counting, ToCount, InHand, Asked, Resetting, Calls
<1>7. ExcessIsLeftOver'
  BY <1>1 DEF IInv, ExcessIsLeftOver
<1>8. Moment'
  BY <1>1 DEF IInv, Moment, MomentRead, MomentKept, Settled, OneMoment, Asked
<1>. QED BY <1>2, <1>3, <1>4, <1>5, <1>6, <1>7, <1>8 DEF IInv
LEMMA StutterKeeps == ASSUME IInv, UNCHANGED vars PROVE IInv'
<1>1. TypeOK' /\ Driving' /\ Within'
  BY DEF IInv, TypeOK, Driving, Within, Total, InHand, Asked, Resetting, vars, driver, net,
         daemon, receiver, counters, config, history
<1>2. Exact' /\ Left'
  BY DEF IInv, Exact, ExactReset, ExactRun, Stamped, Left, Counting, ToCount, InHand, Asked,
         Resetting, vars, driver, net, daemon, receiver, counters, config, history
<1>3. ExcessIsLeftOver' /\ Moment'
  BY DEF IInv, ExcessIsLeftOver, Moment, MomentRead, MomentKept, Settled, OneMoment, Asked,
         vars, driver, net, daemon, receiver, counters, config, history
<1>. QED BY <1>1, <1>2, <1>3 DEF IInv

-----------------------------------------------------------------------------
LEMMA Invariant == ASSUME SubAssumption PROVE Spec => []IInv
<1>1. Init => IInv  BY InitHolds
<1>2. ASSUME IInv, Driver PROVE IInv'
  BY <1>2, SendKeeps, HasResetKeeps, ConfiguredKeeps, PublishKeeps, TestEndsKeeps,
     ReadFirstKeeps, ReadAgainKeeps, KeepKeeps DEF Driver
<1>3. ASSUME IInv, Daemon PROVE IInv'
  BY <1>3, Reset43Keeps, Reset44Keeps, Reset48Keeps, Reset49Keeps, Reset50Keeps,
     UpdateConfigKeeps, GetStats31Keeps, GetStats36Keeps DEF Daemon
<1>4. ASSUME IInv, Receiver PROVE IInv'
  BY <1>4, ReceiveKeeps, CheckKeeps, FirstKeeps, StampKeeps, LogKeeps, LoadKeeps, StoreKeeps,
     LastKeeps, Stamp2Keeps, PaceKeeps, ReconnectKeeps DEF Receiver
<1>5. IInv /\ [Next]_vars => IInv'  BY <1>2, <1>3, <1>4, StutterKeeps DEF Next
<1>. QED BY <1>1, <1>5, PTL DEF Spec

\* For any number of tests and messages, every variable of driver, daemon and receiver
\* keeps its type (TypeOK).
THEOREM TypeCorrect == ASSUME SubAssumption PROVE Spec => []TypeOK
<1>1. IInv => TypeOK  BY DEF IInv
<1>. QED BY <1>1, Invariant, PTL

\* For any number of tests and messages, the receive loop of zmq_sub.py dies of no lookup
\* unless a reset has come while a message was in hand (DiesOnlyOfReset).
THEOREM DiesOnlyOfResetAlways == ASSUME SubAssumption PROVE Spec => []DiesOnlyOfReset
<1>1. IInv => DiesOnlyOfReset  BY DEF IInv, Exact, ExactReset, ExactRun, DiesOnlyOfReset
<1>. QED BY <1>1, Invariant, PTL

\* For any number of tests and messages, msg_cnt and the two stamps tell what has been
\* received since the last reset, unless one has met a message (CountIsExact).
THEOREM CountIsExactAlways == ASSUME SubAssumption PROVE Spec => []CountIsExact
<1>1. ASSUME IInv PROVE CountIsExact
  <2>1. TypeOK /\ Exact  BY <1>1 DEF IInv
  <2>. QED BY <2>1, Numbers DEF Exact, ExactRun, InHand, Stamped, CountIsExact
<1>. QED BY <1>1, Invariant, PTL

\* For any number of tests and messages, whatever is received, counted, reset and read in
\* between, no test reports more messages than were sent in it and left over for it
\* (ExcessIsLeftOver).
THEOREM ExcessIsLeftOverAlways == ASSUME SubAssumption PROVE Spec => []ExcessIsLeftOver
<1>1. IInv => ExcessIsLeftOver  BY DEF IInv
<1>. QED BY <1>1, Invariant, PTL

\* For any number of tests and messages, the stats fetch_app_stats keeps after two equal
\* reads are of one moment, unless a reset has met a message (KeptIsOneMoment).
THEOREM KeptIsOneMomentAlways == ASSUME SubAssumption PROVE Spec => []KeptIsOneMoment
<1>1. ASSUME IInv PROVE KeptIsOneMoment
  <2>. SUFFICES ASSUME NEW t \in 1..Len(results), ~overlap, results[t].stats.cnt > 0
                PROVE  LET s       == results[t].stats
                           counted == s.first + s.cnt - 1
                       IN  s.last \in {counted, IF s.cnt = 1 THEN 0 ELSE counted - 1}
    BY DEF KeptIsOneMoment
  <2>1. results[t].stats \in Stats  BY <1>1, KeptTypes DEF IInv
  <2>2. /\ results[t].stats.cnt \in Nat /\ results[t].stats.first \in Int
        /\ results[t].stats.last \in Int
    BY <2>1, StatsTypes
  <2>3. OneMoment(results[t].stats)  BY <1>1 DEF IInv, Moment, MomentKept
  <2>4. \A s \in Int, c \in Nat : (s + c - 1) - 1 = s + c - 2  OBVIOUS
  <2>5. CASE results[t].stats.cnt = 1
    BY <2>3, <2>5 DEF OneMoment
  <2>6. CASE results[t].stats.cnt # 1
    <3>1. results[t].stats.last \in {results[t].stats.first + results[t].stats.cnt - 1,
                                    results[t].stats.first + results[t].stats.cnt - 2}
      BY <2>3, <2>6 DEF OneMoment
    <3>. QED BY <2>2, <2>4, <2>6, <3>1
  <2>. QED BY <2>5, <2>6
<1>. QED BY <1>1, Invariant, PTL
\* A reset takes effect as its test says (ResetTakesEffect) until one has met a message: that
\* is the only way to the old count, which SubStatsReset.cfg finds.
MetOrReset == overlap \/ ResetTakesEffect

THEOREM MetOrResetAlways == ASSUME SubAssumption PROVE Spec => []MetOrReset
<1>1. ASSUME IInv, ~overlap, ~Resetting PROVE msg_cnt <= received - base + 1
  <2>1. TypeOK /\ ExactRun  BY <1>1 DEF IInv, Exact
  <2>. QED BY <1>1, <2>1, Numbers DEF ExactRun
<1>2. IInv => MetOrReset  BY <1>1 DEF MetOrReset, ResetTakesEffect
<1>. QED BY <1>2, Invariant, PTL
=============================================================================
