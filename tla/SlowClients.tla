---------------------------- MODULE SlowClients ----------------------------
(***************************************************************************)
(* The suite of zmqtest/maxrate_test.py, run with --flaky_clients: rounds  *)
(* with more and more subscribers, and in each round a search for the      *)
(* highest rate, one with some slow subscribers, and one with some that    *)
(* reconnect.  What is asked for is in the options; which subscribers are  *)
(* picked is a property of the application; at which rates they run is in  *)
(* their processes, which live on when the application is rescaled.        *)
(*                                                                         *)
(* A rate is told apart by the round it was computed in: slow subscribers  *)
(* run at half of what that round found (maxrate_test.py:113).  The runs   *)
(* of a search all have the same options; Scanner and BoundaryRun say how  *)
(* many there are, and how often one is tried again.  The daemons answer   *)
(* one request at a time and only the driver asks them, so all of them are *)
(* told their rates in one step.                                           *)
(***************************************************************************)
EXTENDS Naturals, Sequences, FiniteSets

CONSTANTS Sizes,      \* client_set: the subscribers of each round
          Percent,    \* slow_clients_percent, reconnecting_clients_percent
          MaxSilent   \* bound: subscribers of a round that answer no ping

Rounds  == 1..Len(Sizes)
Clients == 1..Sizes[Len(Sizes)]

ASSUME ClientsAssumption ==
  /\ Sizes \in Seq(Nat \ {0}) /\ Len(Sizes) \in Nat \ {0}
  /\ \A i \in Rounds : Sizes[i] <= Sizes[Len(Sizes)]
  /\ Percent \in 1..100 /\ MaxSilent \in Nat

VARIABLES
  c_sub,                 \* whether the subscribers are those in C++
  round, search,         \* suite: client_count's index, and which search
  spc,                   \* where the suite is
  slow_clients_percent, rec_clients_percent, slow_clients_rate,    \* options
  ip_port_map,           \* the subscribers that the driver talks to
  slow_clients, reconnecting_clients,     \* property, {} for None
  recv_rate,             \* in each process: the rate it receives at, 0 for any
  reconnecting           \* the processes whose reconnect_rate is not 0

options    == <<slow_clients_percent, rec_clients_percent, slow_clients_rate>>
property   == <<slow_clients, reconnecting_clients>>
processes  == <<recv_rate, reconnecting>>
vars == <<c_sub, round, search, spc, options, ip_port_map, property, processes>>

Share(ipm, percent) == (Cardinality(ipm) * percent) \div 100

\* Who answers the ping.  The bound keeps enough of them to pick one: of the 30 and
\* more subscribers of the suite, 10.
Responsive == {K \in SUBSET (1..Sizes[round]) :
                 /\ Cardinality((1..Sizes[round]) \ K) <= MaxSilent
                 /\ Share(K, Percent) > 0}

Init ==
  /\ c_sub \in BOOLEAN
  /\ round = 1 /\ search = "max" /\ spc = "launch"
  /\ slow_clients_percent = 0 /\ rec_clients_percent = 0 /\ slow_clients_rate = 0
  /\ ip_port_map = {}
  /\ slow_clients = {} /\ reconnecting_clients = {}
  /\ recv_rate = [c \in Clients |-> 0] /\ reconnecting = {}

\* Mutant: the property of the application is kept.
RefreshedOnly == /\ ip_port_map' \in Responsive
                 /\ UNCHANGED property

\* The driver learns who is there, and forgets what it knew of them.
Refreshed == /\ ip_port_map' \in Responsive
             /\ slow_clients' = {} /\ reconnecting_clients' = {}

-----------------------------------------------------------------------------
(* The driver.                                                             *)

\* run_test, the first time and after an exception: all processes are new.
Launch == /\ spc = "launch" /\ spc' = "run"
          /\ Refreshed
          /\ recv_rate' = [c \in Clients |-> 0] /\ reconnecting' = {}
          /\ UNCHANGED <<c_sub, round, search, options>>

\* scale_sub_app: those there are run on.
ScaleSubApp == /\ spc = "scale" /\ spc' = "run"
               /\ Refreshed
               /\ UNCHANGED <<c_sub, round, search, options, processes>>

\* Others are picked if the option asks for some, and not as many as there are.
Due(picked, percent) == /\ Share(ip_port_map, percent) > 0
                        /\ Share(ip_port_map, percent) # Cardinality(picked)

\* random_select_instances may pick one subscriber several times.
Select(picked, percent) ==
  IF Due(picked, percent)
  THEN {S \in SUBSET ip_port_map :
          S # {} /\ Cardinality(S) <= Share(ip_port_map, percent)}
  ELSE {picked}

update_sub_config == \/ Due(slow_clients, slow_clients_percent)
                     \/ Due(reconnecting_clients, rec_clients_percent)

\* Mutant: those which are not picked are left as they are.
UpdatePicked ==
  /\ recv_rate' = [c \in Clients |->
                     IF c \in ip_port_map /\ c \in slow_clients'
                     THEN slow_clients_rate ELSE recv_rate[c]]
  /\ reconnecting' = reconnecting \cup reconnecting_clients'

\* Each subscriber the driver knows is told its rates.  Those in C++ know no updateconfig,
\* on which update_config raises.
Update ==
  /\ ~c_sub
  /\ recv_rate' = [c \in Clients |->
                     IF c \in ip_port_map
                     THEN IF c \in slow_clients' THEN slow_clients_rate ELSE 0
                     ELSE recv_rate[c]]
  /\ reconnecting' = (reconnecting \ ip_port_map) \cup reconnecting_clients'

Valid == ip_port_map \ (slow_clients \cup reconnecting_clients)

\* rerun_test, with a result: which is divided by the number of valid clients.
RerunTest ==
  /\ spc = "run" /\ spc' = "result"
  /\ slow_clients' \in Select(slow_clients, slow_clients_percent)
  /\ reconnecting_clients' \in Select(reconnecting_clients, rec_clients_percent)
  /\ IF update_sub_config THEN Update ELSE UNCHANGED processes
  /\ UNCHANGED <<c_sub, round, search, options, ip_port_map>>
  /\ Valid' # {}

\* A call raises.  A run of a search is then tried again, with everything deleted and
\* launched anew, or given up; the suite has no handler.
Fault == /\ \/ spc \in {"launch", "run"} /\ spc' \in {"launch", "raised"}
            \/ spc = "scale" /\ spc' = "raised"
         /\ UNCHANGED <<c_sub, round, search, options, ip_port_map, property, processes>>

-----------------------------------------------------------------------------
(* The suite.                                                              *)

Suite == UNCHANGED <<c_sub, ip_port_map, property, processes>>

RunAgain == /\ spc = "result" /\ spc' = "run"
            /\ Suite /\ UNCHANGED <<round, search, options>>

SearchSlow == /\ spc = "result" /\ search = "max"
              /\ spc' = "run" /\ search' = "slow"
              /\ slow_clients_percent' = Percent /\ rec_clients_percent' = 0
              /\ slow_clients_rate' = round
              /\ Suite /\ UNCHANGED round

SearchReconnecting == /\ spc = "result" /\ search = "slow"
                      /\ spc' = "run" /\ search' = "reconnecting"
                      /\ slow_clients_percent' = 0 /\ rec_clients_percent' = Percent
                      /\ slow_clients_rate' = round
                      /\ Suite /\ UNCHANGED round

\* Mutant: the option that a round resets is the one rerun_test reads.
NextRoundAnew == /\ spc = "result" /\ search = "reconnecting" /\ round < Len(Sizes)
                 /\ spc' = "scale" /\ search' = "max" /\ round' = round + 1
                 /\ slow_clients_percent' = 0 /\ rec_clients_percent' = 0
                 /\ Suite /\ UNCHANGED slow_clients_rate

\* A round sets reconnecting_clients_percent to 0; the option is rec_clients_percent.
NextRound == /\ spc = "result" /\ search = "reconnecting" /\ round < Len(Sizes)
             /\ spc' = "scale" /\ search' = "max" /\ round' = round + 1
             /\ slow_clients_percent' = 0
             /\ Suite /\ UNCHANGED <<rec_clients_percent, slow_clients_rate>>

\* delete_all_launched_apps.
Finish == /\ spc = "result" /\ search = "reconnecting" /\ round = Len(Sizes)
          /\ spc' = "done"
          /\ Suite /\ UNCHANGED <<round, search, options>>

Next == \/ Launch \/ ScaleSubApp \/ RerunTest \/ Fault
        \/ RunAgain \/ SearchSlow \/ SearchReconnecting \/ NextRound \/ Finish

Spec == Init /\ [][Next]_vars

-----------------------------------------------------------------------------
(* Properties.                                                             *)

\* Every variable stays within the values the code gives it.
TypeOK ==
  /\ c_sub \in BOOLEAN
  /\ round \in Rounds /\ search \in {"max", "slow", "reconnecting"}
  /\ spc \in {"launch", "scale", "run", "result", "done", "raised"}
  /\ slow_clients_percent \in {0, Percent} /\ rec_clients_percent \in {0, Percent}
  /\ slow_clients_rate \in 0..Len(Sizes)
  /\ ip_port_map \subseteq Clients
  /\ slow_clients \subseteq ip_port_map /\ reconnecting_clients \subseteq ip_port_map
  /\ recv_rate \in [Clients -> 0..Len(Sizes)] /\ reconnecting \subseteq Clients

\* What the driver has noted of its subscribers is how their processes run, at every
\* result: a valid client is at no limit, and a slow one at this round's rate, though
\* rescaling forgets the notes and leaves the processes as they are.
Noted == \A c \in ip_port_map :
           /\ recv_rate[c] = IF c \in slow_clients THEN slow_clients_rate ELSE 0
           /\ c \in reconnecting <=> c \in reconnecting_clients
RatesAreNoted == spc = "result" => Noted

\* The highest rate of each round is found with no client slowed down by the round
\* before.  (It is the subscribers which reconnect in it that see to that.)
BaselineIsFull ==
  spc = "result" /\ search = "max" => \A c \in ip_port_map : recv_rate[c] = 0

\* The last search of a round "indicates the effect of 10% of the clients reconnecting"
\* (README.zmq.md:92), and the suite asks for 0 percent of slow ones for it
\* (maxrate_test.py:122): there are none then.
SlowOnlyWhenAsked ==
  spc = "result" /\ slow_clients_percent = 0 => \A c \in ip_port_map : recv_rate[c] = 0
=============================================================================
