------------------------ MODULE SlowClients_proofs ------------------------
(***************************************************************************)
(* Proofs about module SlowClients, for any number of rounds of any sizes, *)
(* any percentage, and any number of subscribers that do not answer.       *)
(***************************************************************************)
EXTENDS SlowClients, FiniteSetTheorems, TLAPS

\* Before its first run after a rescaling, a round's processes may still be at the rates
\* of the round before; but then some subscribers have yet to be picked to reconnect,
\* whereupon all of them are told their rates.
Overdue == /\ slow_clients = {} /\ reconnecting_clients = {}
           /\ rec_clients_percent = Percent
           /\ Share(ip_port_map, Percent) > 0

\* What the options and the property are in each search.
AtSearch ==
  /\ search = "max" => /\ slow_clients_percent = 0
                       /\ spc \notin {"scale", "raised"} => slow_clients = {}
  /\ search = "slow" => slow_clients_percent = Percent
  /\ search # "max" => slow_clients_rate = round
  /\ search = "reconnecting" \/ spc = "scale" => rec_clients_percent = Percent

IInv == /\ TypeOK
        /\ AtSearch
        /\ RatesAreNoted
        /\ spc = "run" => Noted \/ Overdue

LEMMA ClientsFinite ==
  ASSUME ClientsAssumption
  PROVE  \A S \in SUBSET Clients : IsFiniteSet(S) /\ Cardinality(S) \in Nat
<1>1. Sizes[Len(Sizes)] \in Nat  BY DEF ClientsAssumption
<1>2. 1 \in Int /\ Sizes[Len(Sizes)] \in Int  BY <1>1
<1>3. IsFiniteSet(1..Sizes[Len(Sizes)])  BY ONLY <1>2, FS_Interval
<1>4. IsFiniteSet(Clients)  BY <1>3 DEF Clients
<1>. QED BY <1>4, FS_Subset, FS_CardinalityType

\* Nobody is picked for no percent.
LEMMA NobodyForNothing ==
  ASSUME ClientsAssumption, ip_port_map \subseteq Clients, NEW picked
  PROVE  Select(picked, 0) = {picked}
<1>1. Cardinality(ip_port_map) \in Nat  BY ClientsFinite
<1>2. Share(ip_port_map, 0) = 0  BY <1>1 DEF Share
<1>. QED BY <1>2 DEF Select, Due

\* If nobody has been picked, and some should, then all are told.
LEMMA OverdueIsUpdated ==
  ASSUME Overdue PROVE update_sub_config
<1>1. Cardinality(reconnecting_clients) = 0  BY FS_EmptySet DEF Overdue
<1>2. Due(reconnecting_clients, rec_clients_percent)  BY <1>1 DEF Due, Overdue
<1>. QED BY <1>2 DEF update_sub_config

LEMMA InitHolds == ASSUME ClientsAssumption, Init PROVE IInv
<1>1. /\ Len(Sizes) \in Nat \ {0} /\ 1 \in Rounds  BY DEF ClientsAssumption, Rounds
<1>2. TypeOK  BY <1>1 DEF Init, TypeOK
<1>. QED BY <1>2 DEF IInv, Init, AtSearch, RatesAreNoted

LEMMA RefreshedTypes ==
  ASSUME ClientsAssumption, TypeOK, Refreshed
  PROVE  /\ ip_port_map' \subseteq Clients
         /\ Share(ip_port_map', Percent) > 0
         /\ slow_clients' = {} /\ reconnecting_clients' = {}
<1>1. Sizes[round] \in Nat /\ Sizes[Len(Sizes)] \in Nat /\ Sizes[round] <= Sizes[Len(Sizes)]
  BY DEF ClientsAssumption, TypeOK, Rounds
<1>2. 1..Sizes[round] \subseteq Clients  BY <1>1 DEF Clients
<1>. QED BY <1>2 DEF Refreshed, Responsive

LEMMA LaunchKeeps == ASSUME ClientsAssumption, IInv, Launch PROVE IInv'
<1>1. /\ ip_port_map' \subseteq Clients
      /\ slow_clients' = {} /\ reconnecting_clients' = {}
  BY RefreshedTypes DEF IInv, Launch
<1>2. /\ spc = "launch" /\ spc' = "run"
      /\ recv_rate' = [c \in Clients |-> 0] /\ reconnecting' = {}
      /\ c_sub' = c_sub /\ round' = round /\ search' = search
      /\ slow_clients_percent' = slow_clients_percent
      /\ rec_clients_percent' = rec_clients_percent
      /\ slow_clients_rate' = slow_clients_rate
  BY DEF Launch, options
<1>3. 0 \in 0..Len(Sizes)  BY DEF ClientsAssumption
<1>4. TypeOK'  BY <1>1, <1>2, <1>3 DEF IInv, TypeOK
<1>5. Noted'  BY <1>1, <1>2 DEF Noted
<1>6. AtSearch'  BY <1>1, <1>2 DEF IInv, AtSearch
<1>. QED BY <1>2, <1>4, <1>5, <1>6 DEF IInv, RatesAreNoted

LEMMA ScaleSubAppKeeps == ASSUME ClientsAssumption, IInv, ScaleSubApp PROVE IInv'
<1>1. /\ ip_port_map' \subseteq Clients /\ Share(ip_port_map', Percent) > 0
      /\ slow_clients' = {} /\ reconnecting_clients' = {}
  BY RefreshedTypes DEF IInv, ScaleSubApp
<1>2. /\ spc = "scale" /\ spc' = "run"
      /\ recv_rate' = recv_rate /\ reconnecting' = reconnecting
      /\ c_sub' = c_sub /\ round' = round /\ search' = search
      /\ slow_clients_percent' = slow_clients_percent
      /\ rec_clients_percent' = rec_clients_percent
      /\ slow_clients_rate' = slow_clients_rate
  BY DEF ScaleSubApp, options, processes
<1>3. TypeOK'  BY <1>1, <1>2 DEF IInv, TypeOK
<1>4. Overdue'  BY <1>1, <1>2 DEF IInv, AtSearch, Overdue
<1>5. AtSearch'  BY <1>1, <1>2 DEF IInv, AtSearch
<1>. QED BY <1>2, <1>3, <1>4, <1>5 DEF IInv, RatesAreNoted

LEMMA RerunTestKeeps == ASSUME ClientsAssumption, IInv, RerunTest PROVE IInv'
<1>1. /\ spc = "run" /\ spc' = "result"
      /\ c_sub' = c_sub /\ round' = round /\ search' = search
      /\ slow_clients_percent' = slow_clients_percent
      /\ rec_clients_percent' = rec_clients_percent
      /\ slow_clients_rate' = slow_clients_rate
      /\ ip_port_map' = ip_port_map
      /\ slow_clients' \in Select(slow_clients, slow_clients_percent)
      /\ reconnecting_clients' \in Select(reconnecting_clients, rec_clients_percent)
  BY DEF RerunTest, options
<1>2. /\ slow_clients \subseteq ip_port_map /\ reconnecting_clients \subseteq ip_port_map
      /\ ip_port_map \subseteq Clients
      /\ recv_rate \in [Clients -> 0..Len(Sizes)] /\ reconnecting \subseteq Clients
      /\ slow_clients_rate \in 0..Len(Sizes) /\ 0 \in 0..Len(Sizes)
  BY DEF IInv, TypeOK, ClientsAssumption
<1>3. slow_clients' \subseteq ip_port_map /\ reconnecting_clients' \subseteq ip_port_map
  BY <1>1, <1>2 DEF Select
<1>4. AtSearch'
  <2>1. search = "max" => slow_clients' = {}
    <3>1. search = "max" => slow_clients = {} /\ slow_clients_percent = 0
      BY <1>1 DEF IInv, AtSearch
    <3>. QED BY <1>1, <1>2, <3>1, NobodyForNothing
  <2>. QED BY <1>1, <2>1 DEF IInv, AtSearch
<1>5. CASE update_sub_config
  <2>1. Update  BY <1>5 DEF RerunTest
  <2>2. recv_rate' = [c \in Clients |-> IF c \in ip_port_map
                                        THEN IF c \in slow_clients'
                                             THEN slow_clients_rate ELSE 0
                                        ELSE recv_rate[c]]
    BY <2>1 DEF Update
  <2>3. reconnecting' = (reconnecting \ ip_port_map) \cup reconnecting_clients'
    BY <2>1 DEF Update
  <2>4. recv_rate' \in [Clients -> 0..Len(Sizes)] /\ reconnecting' \subseteq Clients
    BY <1>2, <1>3, <2>2, <2>3
  <2>5. TypeOK'  BY <1>1, <1>3, <2>4 DEF IInv, TypeOK
  <2>6. Noted'  BY <1>1, <1>2, <2>2, <2>3 DEF Noted
  <2>. QED BY <1>1, <1>4, <2>5, <2>6 DEF IInv, RatesAreNoted
<1>6. CASE ~update_sub_config
  <2>1. recv_rate' = recv_rate /\ reconnecting' = reconnecting
    BY <1>6 DEF RerunTest, processes
  <2>2. slow_clients' = slow_clients /\ reconnecting_clients' = reconnecting_clients
    BY <1>1, <1>6 DEF Select, update_sub_config
  <2>3. Noted  BY <1>1, <1>6, OverdueIsUpdated DEF IInv
  <2>4. Noted'  BY <1>1, <2>1, <2>2, <2>3 DEF Noted
  <2>5. TypeOK'  BY <1>1, <2>1, <2>2 DEF IInv, TypeOK
  <2>. QED BY <1>1, <1>4, <2>4, <2>5 DEF IInv, RatesAreNoted
<1>. QED BY <1>5, <1>6

LEMMA FaultKeeps == ASSUME IInv, Fault PROVE IInv'
<1>1. /\ spc' \in {"launch", "raised"} /\ (spc = "scale" => spc' = "raised")
      /\ spc' # "launch" \/ spc \in {"launch", "run"}
      /\ UNCHANGED <<c_sub, round, search, slow_clients_percent, rec_clients_percent,
                     slow_clients_rate, ip_port_map, slow_clients, reconnecting_clients,
                     recv_rate, reconnecting>>
  BY DEF Fault, options, property, processes
<1>. QED BY <1>1 DEF IInv, TypeOK, AtSearch, RatesAreNoted

\* The steps of the suite leave the subscribers and what is noted of them alone.
LEMMA SuiteSame ==
  ASSUME Suite
  PROVE  UNCHANGED <<c_sub, ip_port_map, slow_clients, reconnecting_clients, recv_rate,
                     reconnecting>>
BY DEF Suite, property, processes

LEMMA RunAgainKeeps == ASSUME IInv, RunAgain PROVE IInv'
<1>1. /\ spc = "result" /\ spc' = "run" /\ Suite
      /\ UNCHANGED <<round, search, slow_clients_percent, rec_clients_percent,
                     slow_clients_rate>>
  BY DEF RunAgain, options
<1>2. TypeOK'  BY <1>1, SuiteSame DEF IInv, TypeOK
<1>3. Noted'  BY <1>1, SuiteSame DEF IInv, RatesAreNoted, Noted
<1>4. AtSearch'  BY <1>1, SuiteSame DEF IInv, AtSearch
<1>. QED BY <1>1, <1>2, <1>3, <1>4 DEF IInv, RatesAreNoted

LEMMA SearchSlowKeeps == ASSUME ClientsAssumption, IInv, SearchSlow PROVE IInv'
<1>1. /\ spc = "result" /\ search = "max" /\ spc' = "run" /\ search' = "slow" /\ Suite
      /\ slow_clients_percent' = Percent /\ rec_clients_percent' = 0
      /\ slow_clients_rate' = round /\ round' = round
  BY DEF SearchSlow
<1>2. round \in 0..Len(Sizes)  BY DEF IInv, TypeOK, Rounds, ClientsAssumption
<1>3. TypeOK'  BY <1>1, <1>2, SuiteSame DEF IInv, TypeOK
<1>4. slow_clients = {}  BY <1>1 DEF IInv, AtSearch
<1>5. Noted'  BY <1>1, <1>4, SuiteSame DEF IInv, RatesAreNoted, Noted
<1>6. AtSearch'  BY <1>1 DEF AtSearch
<1>. QED BY <1>1, <1>3, <1>5, <1>6 DEF IInv, RatesAreNoted

LEMMA SearchReconnectingKeeps ==
  ASSUME ClientsAssumption, IInv, SearchReconnecting PROVE IInv'
<1>1. /\ spc = "result" /\ search = "slow" /\ spc' = "run" /\ search' = "reconnecting"
      /\ Suite
      /\ slow_clients_percent' = 0 /\ rec_clients_percent' = Percent
      /\ slow_clients_rate' = round /\ round' = round
  BY DEF SearchReconnecting
<1>2. round \in 0..Len(Sizes)  BY DEF IInv, TypeOK, Rounds, ClientsAssumption
<1>3. TypeOK'  BY <1>1, <1>2, SuiteSame DEF IInv, TypeOK
<1>4. slow_clients_rate' = slow_clients_rate  BY <1>1 DEF IInv, AtSearch
<1>5. Noted'  BY <1>1, <1>4, SuiteSame DEF IInv, RatesAreNoted, Noted
<1>6. AtSearch'  BY <1>1 DEF AtSearch
<1>. QED BY <1>1, <1>3, <1>5, <1>6 DEF IInv, RatesAreNoted

LEMMA NextRoundKeeps == ASSUME ClientsAssumption, IInv, NextRound PROVE IInv'
<1>1. /\ spc = "result" /\ search = "reconnecting" /\ round < Len(Sizes)
      /\ spc' = "scale" /\ search' = "max" /\ round' = round + 1 /\ Suite
      /\ slow_clients_percent' = 0
      /\ UNCHANGED <<rec_clients_percent, slow_clients_rate>>
  BY DEF NextRound
<1>2. round' \in Rounds  BY <1>1 DEF IInv, TypeOK, Rounds, ClientsAssumption
<1>3. TypeOK'  BY <1>1, <1>2, SuiteSame DEF IInv, TypeOK
<1>4. AtSearch'  BY <1>1 DEF IInv, AtSearch
<1>. QED BY <1>1, <1>3, <1>4 DEF IInv, RatesAreNoted

LEMMA FinishKeeps == ASSUME IInv, Finish PROVE IInv'
<1>1. /\ spc = "result" /\ search = "reconnecting" /\ spc' = "done" /\ Suite
      /\ UNCHANGED <<round, search, slow_clients_percent, rec_clients_percent,
                     slow_clients_rate>>
  BY DEF Finish, options
<1>2. TypeOK'  BY <1>1, SuiteSame DEF IInv, TypeOK
<1>3. AtSearch'  BY <1>1 DEF IInv, AtSearch
<1>. QED BY <1>1, <1>2, <1>3 DEF IInv, RatesAreNoted

LEMMA StutterKeeps == ASSUME IInv, UNCHANGED vars PROVE IInv'
BY DEF IInv, TypeOK, AtSearch, RatesAreNoted, Noted, Overdue, Share,
       vars, options, property, processes

THEOREM Invariant == Spec => []IInv
<1>1. Init => IInv  BY ClientsAssumption, InitHolds
<1>2. IInv /\ [Next]_vars => IInv'
  <2>. SUFFICES ASSUME IInv, [Next]_vars PROVE IInv'  OBVIOUS
  <2>1. CASE Launch              BY <2>1, ClientsAssumption, LaunchKeeps
  <2>2. CASE ScaleSubApp         BY <2>2, ClientsAssumption, ScaleSubAppKeeps
  <2>3. CASE RerunTest           BY <2>3, ClientsAssumption, RerunTestKeeps
  <2>4. CASE Fault               BY <2>4, FaultKeeps
  <2>5. CASE RunAgain            BY <2>5, RunAgainKeeps
  <2>6. CASE SearchSlow          BY <2>6, ClientsAssumption, SearchSlowKeeps
  <2>7. CASE SearchReconnecting  BY <2>7, ClientsAssumption, SearchReconnectingKeeps
  <2>8. CASE NextRound           BY <2>8, ClientsAssumption, NextRoundKeeps
  <2>9. CASE Finish              BY <2>9, FinishKeeps
  <2>10. CASE UNCHANGED vars     BY <2>10, StutterKeeps
  <2>. QED BY <2>1, <2>2, <2>3, <2>4, <2>5, <2>6, <2>7, <2>8, <2>9, <2>10 DEF Next
<1>. QED BY <1>1, <1>2, PTL DEF Spec

\* For any rounds, the suite's variables stay within their types.
THEOREM TypeCorrect == Spec => []TypeOK
<1>1. IInv => TypeOK  BY DEF IInv
<1>. QED BY <1>1, Invariant, PTL

\* Whatever the rounds are, and whoever does not answer in one and does in the next, every
\* result is of subscribers that run as the driver has noted.
THEOREM RatesAreNotedAlways == Spec => []RatesAreNoted
<1>1. IInv => RatesAreNoted  BY DEF IInv
<1>. QED BY <1>1, Invariant, PTL

\* No round's highest rate is one of clients slowed down by the round before.
THEOREM BaselineIsFullAlways == Spec => []BaselineIsFull
<1>1. IInv => BaselineIsFull
  <2>. SUFFICES ASSUME IInv, spc = "result", search = "max"
                PROVE  \A c \in ip_port_map : recv_rate[c] = 0
    BY DEF BaselineIsFull
  <2>1. slow_clients = {}  BY DEF IInv, AtSearch
  <2>. QED BY <2>1 DEF IInv, RatesAreNoted, Noted
<1>. QED BY <1>1, Invariant, PTL
\* How far SlowOnlyWhenAsked is from true: a subscriber is slow in a run with no percent of
\* slow ones only in the last search of a round, only if the search before has picked it,
\* and only at the rate of this round.  No slow one is left of an earlier round.
LeftOnlySlow ==
  spc = "result" /\ slow_clients_percent = 0 =>
    \A c \in ip_port_map : recv_rate[c] # 0 =>
      search = "reconnecting" /\ c \in slow_clients /\ recv_rate[c] = round

THEOREM LeftOnlySlowAlways == Spec => []LeftOnlySlow
<1>1. IInv => LeftOnlySlow
  <2>. SUFFICES ASSUME IInv, spc = "result", slow_clients_percent = 0,
                       NEW c \in ip_port_map, recv_rate[c] # 0
                PROVE  search = "reconnecting" /\ c \in slow_clients /\ recv_rate[c] = round
    BY DEF LeftOnlySlow
  <2>1. c \in slow_clients /\ recv_rate[c] = slow_clients_rate
    BY DEF IInv, RatesAreNoted, Noted
  <2>2. search # "max"  BY <2>1 DEF IInv, AtSearch
  <2>3. Percent # 0  BY ClientsAssumption DEF ClientsAssumption
  <2>4. search = "reconnecting"  BY <2>2, <2>3 DEF IInv, TypeOK, AtSearch
  <2>. QED BY <2>1, <2>2, <2>4 DEF IInv, AtSearch
<1>. QED BY <1>1, Invariant, PTL
=============================================================================
