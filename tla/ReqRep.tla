------------------------------- MODULE ReqRep -------------------------------
(***************************************************************************)
(* Requests and replies between a test script and one task, whatever the   *)
(* commands are: the analyser on the one side (lib/h_analyser.py), with    *)
(* its REQ socket and its timeouts, and on the other the daemon thread of  *)
(* a Python task (lib/hdaemon.py) or the loop of a C++ one.                *)
(*                                                                         *)
(* The script may close an analyser and make another at any time between   *)
(* two calls.  What the closed one has sent is still delivered: nothing    *)
(* in the code sets a linger period.  A broken connection loses a request  *)
(* or a reply.  Anybody may send the daemon a command it does not know, a  *)
(* STOP, or what is no message at all; the analysers of the repository do  *)
(* the first only, to C++ tasks.                                           *)
(***************************************************************************)
EXTENDS Naturals

CONSTANTS MaxCalls,     \* bound: the calls of one script
          MaxConns      \* bound: the analysers it makes

ASSUME ReqRepAssumption == MaxCalls \in Nat /\ MaxConns \in Nat \ {0}

VARIABLES
  kind,         \* "python" or "cpp"
  srv,          \* "up"; "garbled": msg is a str; "dead"; "stopped"
  wire,         \* requests on their way to the task
  out,          \* the reply the task is making
  back,         \* replies on their way to the analyser
  conn,         \* the analyser in use
  sock,         \* its REQ socket: "idle", or "awaiting" a reply
  waiting,      \* the call do_resp_only is waiting in, 0 for none
  last,         \* the calls made so far
  outcome,      \* of each call
  carried,      \* how often the task has carried out each
  late,         \* the analysers that have timed out
  odd           \* what the daemon has received that it has no function for

server == <<srv, out, carried, odd>>
client == <<conn, sock, waiting, last, outcome, late>>
vars   == <<kind, server, wire, back, client>>

Calls    == 1..MaxCalls
Conns    == 1..MaxConns
Odd      == {"unknown", "stop", "garbage"}
Commands == {"known"} \cup Odd
\* A foreign client's request is call 0 on connection 0.
Requests == [conn : 0..MaxConns, id : 0..MaxCalls, cmd : Commands]
Replies  == [conn : 0..MaxConns, id : 0..MaxCalls,
             status : {"ok", "error", "exception", "json"}]

Init ==
  /\ kind \in {"python", "cpp"} /\ srv = "up"
  /\ wire = {} /\ out = {} /\ back = {}
  /\ conn = 1 /\ sock = "idle" /\ waiting = 0 /\ last = 0
  /\ outcome = [i \in Calls |-> "new"]
  /\ carried = [i \in Calls |-> 0]
  /\ late = {} /\ odd = {}

-----------------------------------------------------------------------------
(* The analyser.                                                           *)

Ends(i, how) == outcome' = [outcome EXCEPT ![i] = how]

\* do_req_only on a socket that is owed no reply.
Send(cmd) ==
  /\ last < MaxCalls /\ waiting = 0 /\ sock = "idle"
  /\ last' = last + 1 /\ waiting' = last + 1 /\ Ends(last + 1, "pending")
  /\ sock' = "awaiting"
  /\ wire' = wire \cup {[conn |-> conn, id |-> last + 1, cmd |-> cmd]}
  /\ UNCHANGED <<kind, server, back, conn, late>>

\* On one that still is, the send raises EFSM.
SendRaises ==
  /\ last < MaxCalls /\ waiting = 0 /\ sock = "awaiting"
  /\ last' = last + 1 /\ Ends(last + 1, "failed")
  /\ UNCHANGED <<kind, server, wire, back, conn, sock, waiting, late>>

\* do_resp_only, with a reply.  One in JSON cannot be parsed; with any status but 'ok'
\* every caller returns False or raises.
Receive ==
  /\ waiting # 0
  /\ \E r \in back :
       /\ r.conn = conn /\ back' = back \ {r}
       /\ Ends(waiting, IF r.status = "ok" THEN "ok" ELSE "failed")
  /\ waiting' = 0 /\ sock' = "idle"
  /\ UNCHANGED <<kind, server, wire, conn, last, late>>

\* Mutant: the socket is ready for another request.
TimeOutReady ==
  /\ waiting # 0
  /\ Ends(waiting, "failed") /\ waiting' = 0 /\ late' = late \cup {conn}
  /\ sock' = "idle"
  /\ UNCHANGED <<kind, server, wire, back, conn, last>>

\* do_resp_only, without one in time.
TimeOut ==
  /\ waiting # 0
  /\ Ends(waiting, "failed") /\ waiting' = 0 /\ late' = late \cup {conn}
  /\ UNCHANGED <<kind, server, wire, back, conn, sock, last>>

\* stop, and another HAnalyser.
Reopen ==
  /\ waiting = 0 /\ conn < MaxConns
  /\ conn' = conn + 1 /\ sock' = "idle"
  /\ back' = {}
  /\ UNCHANGED <<kind, server, wire, waiting, last, outcome, late>>

-----------------------------------------------------------------------------
(* What lies between.                                                      *)

Lose == /\ \/ \E m \in wire : wire' = wire \ {m} /\ UNCHANGED back
           \/ \E r \in back : back' = back \ {r} /\ UNCHANGED wire
        /\ UNCHANGED <<kind, server, client>>

Foreign(cmd) ==
  /\ wire' = wire \cup {[conn |-> 0, id |-> 0, cmd |-> cmd]}
  /\ UNCHANGED <<kind, server, back, client>>

-----------------------------------------------------------------------------
(* The task.                                                               *)

Answer(m, status) == out' = {[conn |-> m.conn, id |-> m.id, status |-> status]}

\* Mutant: the function is called outside the try.
CarryOutUntried(m) ==
  /\ m.cmd = "known"
  /\ carried' = [carried EXCEPT ![m.id] = @ + 1]
  /\ \E st \in (IF kind = "python" THEN {"ok", "exception"} ELSE {"ok", "error"}) :
        /\ srv' = IF st = "exception" THEN "dead" ELSE srv
        /\ IF st = "exception" THEN out' = {} ELSE Answer(m, st)
  /\ UNCHANGED odd

\* A command there is a function for; it may raise, or refuse.
CarryOut(m) ==
  /\ m.cmd = "known"
  /\ carried' = [carried EXCEPT ![m.id] = @ + 1]
  /\ \E st \in {"ok", IF kind = "python" THEN "exception" ELSE "error"} : Answer(m, st)
  /\ UNCHANGED <<srv, odd>>

\* One there is none for: in C++ an error.  The Python daemon puts its error text where its
\* message was, and sends it as JSON; for a STOP it closes the socket and returns; and what
\* it cannot parse is an exception outside the try, which ends the thread.
Refuse(m) ==
  /\ m.cmd \in Odd /\ odd' = odd \cup {m.cmd}
  /\ \/ kind = "cpp" /\ srv' = srv /\ Answer(m, "error")
     \/ kind = "python" /\ m.cmd = "unknown" /\ srv' = "garbled" /\ Answer(m, "json")
     \/ kind = "python" /\ m.cmd = "stop" /\ srv' = "stopped" /\ out' = {}
     \/ kind = "python" /\ m.cmd = "garbage" /\ srv' = "dead" /\ out' = {}
  /\ UNCHANGED carried

\* Mutant: the request is handed over again.
ServeAgain ==
  /\ srv = "up" /\ out = {}
  /\ \E m \in wire : /\ wire' \in {wire, wire \ {m}}
                     /\ CarryOut(m) \/ Refuse(m)
  /\ UNCHANGED <<kind, back, client>>

Serve ==
  /\ srv = "up" /\ out = {}
  /\ \E m \in wire : /\ wire' = wire \ {m}
                     /\ CarryOut(m) \/ Refuse(m)
  /\ UNCHANGED <<kind, back, client>>

\* msg.ParseFromString on a str, outside the try: the exception ends the thread.
ServeGarbled ==
  /\ srv = "garbled" /\ out = {}
  /\ \E m \in wire : wire' = wire \ {m}
  /\ srv' = "dead"
  /\ UNCHANGED <<kind, out, carried, odd, back, client>>

\* The reply of a client that is gone is dropped.
Reply ==
  /\ out # {} /\ out' = {}
  /\ back' = back \cup {r \in out : r.conn = conn}
  /\ UNCHANGED <<kind, srv, carried, odd, wire, client>>

-----------------------------------------------------------------------------
Next == \/ Send("known") \/ Send("unknown") \/ SendRaises \/ Receive \/ TimeOut \/ Reopen
        \/ Lose \/ (\E c \in Odd : Foreign(c))
        \/ Serve \/ ServeGarbled \/ Reply

Spec == Init /\ [][Next]_vars

-----------------------------------------------------------------------------
(* Properties.                                                             *)

\* Every variable stays within the values the code gives it.
TypeOK ==
  /\ kind \in {"python", "cpp"} /\ srv \in {"up", "garbled", "dead", "stopped"}
  /\ wire \subseteq Requests /\ out \subseteq Replies /\ back \subseteq Replies
  /\ conn \in Conns /\ sock \in {"idle", "awaiting"}
  /\ waiting \in 0..MaxCalls /\ last \in 0..MaxCalls
  /\ outcome \in [Calls -> {"new", "pending", "ok", "failed"}]
  /\ carried \in [Calls -> 0..1]
  /\ late \subseteq Conns /\ odd \subseteq Odd

\* Only what the daemon has no function for ends a daemon, and only one in Python: no
\* command it knows does, though its function raises, and no client that gives up.
DiesOnlyOfUnknown ==
  /\ srv # "up" => kind = "python" /\ odd # {}
  /\ srv = "stopped" => "stop" \in odd
  /\ srv = "garbled" => "unknown" \in odd
  /\ srv = "dead" => odd \cap {"unknown", "garbage"} # {}

\* An analyser that has timed out once never gets an answer again, however late the reply
\* it has not waited for.
Poisoned ==
  [][\A i \in Calls : outcome[i] = "pending" /\ outcome'[i] = "ok" => conn \notin late]_vars

\* Analyser and task implement RemoteCall: a reply is never taken for that of another
\* call, and no request is carried out twice, with whatever lost or late.
Remote == INSTANCE RemoteCall WITH done <- carried
ImplementsCall == Remote!Spec
=============================================================================
