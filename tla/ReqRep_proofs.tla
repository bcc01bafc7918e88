---------------------------- MODULE ReqRep_proofs ----------------------------
(***************************************************************************)
(* Proofs about module ReqRep, for any number of calls and analysers.      *)
(***************************************************************************)
EXTENDS ReqRep, TLAPS

\* Of each call there is one request at most, until it is carried out.
RequestInv ==
  \A m \in wire :
    /\ m.cmd = "known" => m.id # 0
    /\ m.id <= last /\ m.conn <= conn
    /\ m.id # 0 => carried[m.id] = 0
    /\ \A n \in wire : m.id # 0 /\ n.id = m.id => n = m

\* A reply of 'ok' is that of a call that has been carried out.
ReplyInv(replies) ==
  \A r \in replies : /\ r.conn <= conn
                     /\ r.status = "ok" => r.id # 0 /\ carried[r.id] = 1

\* A message of the analyser in use is that of the call it waits in, or of one it has
\* given up.
OwnInv(messages) ==
  \A m \in messages : m.conn = conn => sock = "awaiting" /\ (waiting = m.id \/ conn \in late)

\* The analyser in use has one request or reply under way at most.
SoleInv ==
  /\ \A m, n \in wire : m.conn = conn /\ n.conn = conn => m = n
  /\ \A r, q \in out : r = q
  /\ \A r, q \in back : r.conn = conn /\ q.conn = conn => r = q
  /\ \A m \in wire : m.conn = conn => \A r \in out \cup back : r.conn # conn
  /\ \A r \in out : r.conn = conn => \A q \in back : q.conn # conn

\* A call is pending while it is waited for, and not carried out before it is made.
CallInv ==
  /\ \A i \in Calls : outcome[i] # "new" <=> i <= last
  /\ \A i \in Calls : outcome[i] = "pending" => i = waiting
  /\ \A i \in Calls : i > last => carried[i] = 0
  /\ waiting # 0 => waiting <= last /\ outcome[waiting] = "pending" /\ conn \notin late
  /\ sock = "idle" => waiting = 0
  /\ \A c \in late : c <= conn
  /\ conn \in late => sock = "awaiting"

IInv == /\ TypeOK /\ DiesOnlyOfUnknown /\ CallInv
        /\ RequestInv /\ ReplyInv(out) /\ ReplyInv(back)
        /\ OwnInv(wire) /\ OwnInv(out) /\ OwnInv(back) /\ SoleInv

LEMMA InitIsFine ==
  ASSUME ReqRepAssumption, Init
  PROVE  IInv
<1>1. /\ kind \in {"python", "cpp"} /\ srv = "up" /\ wire = {} /\ out = {} /\ back = {}
      /\ conn = 1 /\ sock = "idle" /\ waiting = 0 /\ last = 0
      /\ outcome = [i \in Calls |-> "new"] /\ carried = [i \in Calls |-> 0]
      /\ late = {} /\ odd = {} /\ MaxCalls \in Nat /\ MaxConns \in Nat \ {0}
  BY DEF Init, ReqRepAssumption
<1>2. conn \in Conns /\ 0 \in 0..MaxCalls  BY <1>1 DEF Conns
<1>3. TypeOK  BY <1>1, <1>2 DEF TypeOK
<1>4. DiesOnlyOfUnknown  BY <1>1 DEF DiesOnlyOfUnknown
<1>5. CallInv  BY <1>1 DEF CallInv, Calls
<1>6. RequestInv /\ ReplyInv(out) /\ ReplyInv(back) /\ OwnInv(wire) /\ OwnInv(out)
      /\ OwnInv(back) /\ SoleInv
  BY <1>1 DEF RequestInv, ReplyInv, OwnInv, SoleInv
<1>. QED BY <1>3, <1>4, <1>5, <1>6 DEF IInv

-----------------------------------------------------------------------------
(* The analyser.                                                           *)

LEMMA SendKeeps ==
  ASSUME ReqRepAssumption, IInv, NEW cmd \in {"known", "unknown"}, Send(cmd)
  PROVE  IInv' /\ Remote!Call(last + 1)
<1> DEFINE m == [conn |-> conn, id |-> last + 1, cmd |-> cmd]
<1>1. /\ last < MaxCalls /\ waiting = 0 /\ sock = "idle" /\ last' = last + 1
      /\ waiting' = last + 1 /\ outcome' = [outcome EXCEPT ![last + 1] = "pending"]
      /\ sock' = "awaiting" /\ wire' = wire \cup {m} /\ kind' = kind /\ srv' = srv
      /\ out' = out /\ back' = back /\ conn' = conn /\ late' = late /\ odd' = odd
      /\ carried' = carried
  BY DEF Send, Ends, server
<1>2. last \in Nat /\ MaxCalls \in Nat /\ MaxConns \in Nat /\ conn \in Conns
      /\ last + 1 \in Calls /\ last + 1 \in 0..MaxCalls /\ last + 1 # 0
  BY <1>1 DEF IInv, TypeOK, ReqRepAssumption, Calls
<1>3. m \in Requests  BY <1>2 DEF Requests, Conns, Commands, Odd
<1>4. outcome' \in [Calls -> {"new", "pending", "ok", "failed"}]
  BY <1>1, <1>2 DEF IInv, TypeOK
<1>5. TypeOK'
  <2>1. wire' \subseteq Requests  BY <1>1, <1>3 DEF IInv, TypeOK
  <2>. QED BY <1>1, <1>2, <1>4, <2>1 DEF IInv, TypeOK
<1>6. DiesOnlyOfUnknown'  BY <1>1 DEF IInv, DiesOnlyOfUnknown
<1>7. /\ \A i \in Calls : outcome[i] # "pending"
      /\ \A i \in Calls : outcome'[i] = IF i = last + 1 THEN "pending" ELSE outcome[i]
      /\ outcome[last + 1] = "new" /\ carried[last + 1] = 0 /\ conn \notin late
  <2>1. \A i \in Calls : outcome[i] # "pending"
    BY <1>1 DEF IInv, CallInv, Calls
  <2>2. \A i \in Calls : outcome'[i] = IF i = last + 1 THEN "pending" ELSE outcome[i]
    BY <1>1 DEF IInv, TypeOK
  <2>3. outcome[last + 1] = "new" /\ carried[last + 1] = 0 /\ conn \notin late
    BY <1>1, <1>2 DEF IInv, CallInv
  <2>. QED BY <2>1, <2>2, <2>3
<1>8. CallInv'
  <2>1. \A i \in Calls : i <= last + 1 <=> i <= last \/ i = last + 1
    BY <1>2 DEF Calls
  <2>2. \A i \in Calls : outcome'[i] # "new" <=> i <= last'
    BY <1>1, <1>7, <2>1 DEF IInv, CallInv
  <2>3. \A i \in Calls : i > last' => carried'[i] = 0
    BY <1>1, <1>2 DEF IInv, CallInv, Calls
  <2>. QED BY <1>1, <1>2, <1>7, <2>2, <2>3 DEF IInv, CallInv
<1>9. RequestInv'
  <2>1. \A n \in wire : n.id # last + 1 /\ n.id <= last + 1
    BY <1>2 DEF IInv, TypeOK, RequestInv, Requests
  <2>2. m.id = last + 1 /\ m.conn = conn /\ conn <= conn  BY <1>2 DEF Conns
  <2>3. \A n \in wire' : /\ n.cmd = "known" => n.id # 0
                         /\ n.id <= last' /\ n.conn <= conn'
                         /\ n.id # 0 => carried'[n.id] = 0
    BY <1>1, <1>2, <1>7, <2>1, <2>2 DEF IInv, RequestInv
  <2>4. \A n, k \in wire' : n.id # 0 /\ k.id = n.id => k = n
    BY <1>1, <2>1, <2>2 DEF IInv, RequestInv
  <2>. QED BY <2>3, <2>4 DEF RequestInv
<1>10. ReplyInv(out)' /\ ReplyInv(back)'  BY <1>1 DEF IInv, ReplyInv
<1>11. OwnInv(wire)' /\ OwnInv(out)' /\ OwnInv(back)' /\ SoleInv'
  <2>1. \A n \in wire \cup out \cup back : n.conn # conn
    BY <1>1, <1>7 DEF IInv, OwnInv
  <2>2. OwnInv(wire)' /\ OwnInv(out)' /\ OwnInv(back)'  BY <1>1, <2>1 DEF OwnInv
  <2>3. \A n \in wire' : n.conn = conn => n = m  BY <1>1, <2>1
  <2>4. SoleInv'  BY <1>1, <2>1, <2>3 DEF IInv, SoleInv
  <2>. QED BY <2>2, <2>4
<1>12. Remote!Call(last + 1)
  BY <1>1, <1>2, <1>7 DEF Remote!Call, Remote!Calls, Calls
<1>. QED BY <1>5, <1>6, <1>8, <1>9, <1>10, <1>11, <1>12 DEF IInv

LEMMA SendRaisesKeeps ==
  ASSUME ReqRepAssumption, IInv, SendRaises
  PROVE  IInv' /\ Remote!Call(last + 1)
<1>1. /\ last < MaxCalls /\ waiting = 0 /\ sock = "awaiting" /\ last' = last + 1
      /\ outcome' = [outcome EXCEPT ![last + 1] = "failed"]
      /\ waiting' = waiting /\ sock' = sock /\ wire' = wire /\ kind' = kind /\ srv' = srv
      /\ out' = out /\ back' = back /\ conn' = conn /\ late' = late /\ odd' = odd
      /\ carried' = carried
  BY DEF SendRaises, Ends, server
<1>2. last \in Nat /\ MaxCalls \in Nat /\ conn \in Conns
      /\ last + 1 \in Calls /\ last + 1 \in 0..MaxCalls /\ last + 1 # 0
  BY <1>1 DEF IInv, TypeOK, ReqRepAssumption, Calls
<1>3. TypeOK'
  <2>1. outcome' \in [Calls -> {"new", "pending", "ok", "failed"}]
    BY <1>1, <1>2 DEF IInv, TypeOK
  <2>. QED BY <1>1, <1>2, <2>1 DEF IInv, TypeOK
<1>4. DiesOnlyOfUnknown'  BY <1>1 DEF IInv, DiesOnlyOfUnknown
<1>5. /\ \A i \in Calls : outcome[i] # "pending"
      /\ \A i \in Calls : outcome'[i] = IF i = last + 1 THEN "failed" ELSE outcome[i]
      /\ outcome[last + 1] = "new"
  <2>1. \A i \in Calls : outcome[i] # "pending"
    BY <1>1 DEF IInv, CallInv, Calls
  <2>2. \A i \in Calls : outcome'[i] = IF i = last + 1 THEN "failed" ELSE outcome[i]
    BY <1>1 DEF IInv, TypeOK
  <2>3. outcome[last + 1] = "new"  BY <1>1, <1>2 DEF IInv, CallInv
  <2>. QED BY <2>1, <2>2, <2>3
<1>6. CallInv'
  <2>1. \A i \in Calls : i <= last + 1 <=> i <= last \/ i = last + 1
    BY <1>2 DEF Calls
  <2>2. \A i \in Calls : outcome'[i] # "new" <=> i <= last'
    BY <1>1, <1>5, <2>1 DEF IInv, CallInv
  <2>3. \A i \in Calls : i > last' => carried'[i] = 0
    BY <1>1, <1>2 DEF IInv, CallInv, Calls
  <2>. QED BY <1>1, <1>2, <1>5, <2>2, <2>3 DEF IInv, CallInv
<1>7. RequestInv'
  <2>1. \A n \in wire : n.id <= last + 1
    BY <1>2 DEF IInv, TypeOK, RequestInv, Requests
  <2>. QED BY <1>1, <2>1 DEF IInv, RequestInv
<1>8. ReplyInv(out)' /\ ReplyInv(back)'  BY <1>1 DEF IInv, ReplyInv
<1>9. OwnInv(wire)' /\ OwnInv(out)' /\ OwnInv(back)' /\ SoleInv'
  BY <1>1 DEF IInv, OwnInv, SoleInv
<1>10. Remote!Call(last + 1)
  BY <1>1, <1>2, <1>5 DEF Remote!Call, Remote!Calls, Calls
<1>. QED BY <1>3, <1>4, <1>6, <1>7, <1>8, <1>9, <1>10 DEF IInv

\* A call that ends was the one that is waited for.
LEMMA EndKeepsCalls ==
  ASSUME ReqRepAssumption, IInv, waiting # 0, waiting' = 0, NEW how \in {"ok", "failed"},
         Ends(waiting, how), last' = last, carried' = carried, conn' = conn,
         \/ sock' = "idle" /\ late' = late
         \/ sock' = sock /\ late' = late \cup {conn}
  PROVE  /\ CallInv' /\ waiting \in Calls /\ outcome[waiting] = "pending"
         /\ outcome' \in [Calls -> {"new", "pending", "ok", "failed"}]
<1>1. /\ waiting \in Calls /\ outcome[waiting] = "pending" /\ conn \notin late
      /\ sock = "awaiting" /\ waiting <= last
  BY DEF IInv, TypeOK, CallInv, Calls, ReqRepAssumption
<1>2. /\ outcome' \in [Calls -> {"new", "pending", "ok", "failed"}]
      /\ \A i \in Calls : outcome'[i] = IF i = waiting THEN how ELSE outcome[i]
  BY <1>1 DEF IInv, TypeOK, Ends
<1>3. /\ \A i \in Calls : outcome'[i] # "new" <=> i <= last'
      /\ \A i \in Calls : outcome'[i] # "pending"
  BY <1>1, <1>2 DEF IInv, CallInv
<1>4. conn \in Nat  BY DEF IInv, TypeOK, Conns
<1>5. /\ \A c \in late' : c <= conn'
      /\ conn' \in late' => sock' = "awaiting"
  BY <1>1, <1>4 DEF IInv, CallInv
<1>. QED BY <1>1, <1>2, <1>3, <1>5 DEF IInv, CallInv

LEMMA ReceiveKeeps ==
  ASSUME ReqRepAssumption, IInv, Receive
  PROVE  /\ IInv' /\ \/ Remote!Return(waiting)
                     \/ Remote!Fail(waiting)
         /\ waiting \in Calls /\ conn \notin late
<1>1. PICK r \in back : /\ r.conn = conn /\ back' = back \ {r}
                        /\ Ends(waiting, IF r.status = "ok" THEN "ok" ELSE "failed")
  BY DEF Receive
<1>2. /\ waiting # 0 /\ waiting' = 0 /\ sock' = "idle" /\ kind' = kind /\ srv' = srv
      /\ out' = out /\ carried' = carried /\ odd' = odd /\ wire' = wire /\ conn' = conn
      /\ last' = last /\ late' = late
  BY DEF Receive, server
<1>3. conn \notin late /\ r.id = waiting
  BY <1>1, <1>2 DEF IInv, CallInv, OwnInv
<1>4. /\ CallInv' /\ waiting \in Calls /\ outcome[waiting] = "pending"
      /\ outcome' \in [Calls -> {"new", "pending", "ok", "failed"}]
  <2> DEFINE how == IF r.status = "ok" THEN "ok" ELSE "failed"
  <2>1. how \in {"ok", "failed"} /\ Ends(waiting, how)  BY <1>1
  <2>. QED BY <1>2, <2>1, EndKeepsCalls
<1>5. TypeOK'  BY <1>1, <1>2, <1>4 DEF IInv, TypeOK
<1>6. DiesOnlyOfUnknown'  BY <1>2 DEF IInv, DiesOnlyOfUnknown
<1>7. RequestInv' /\ ReplyInv(out)' /\ ReplyInv(back)'
  BY <1>1, <1>2 DEF IInv, RequestInv, ReplyInv
<1>8. \A n \in wire \cup out \cup (back \ {r}) : n.conn # conn
  BY <1>1 DEF IInv, SoleInv
<1>9. OwnInv(wire)' /\ OwnInv(out)' /\ OwnInv(back)' /\ SoleInv'
  BY <1>1, <1>2, <1>8 DEF IInv, OwnInv, SoleInv
<1>10. Remote!Return(waiting) \/ Remote!Fail(waiting)
  <2>1. r.status = "ok" => carried[waiting] = 1  BY <1>1, <1>3 DEF IInv, ReplyInv
  <2>. QED BY <1>1, <1>2, <1>4, <2>1 DEF Remote!Return, Remote!Fail, Ends
<1>. QED BY <1>3, <1>4, <1>5, <1>6, <1>7, <1>9, <1>10 DEF IInv

LEMMA TimeOutKeeps ==
  ASSUME ReqRepAssumption, IInv, TimeOut
  PROVE  IInv' /\ waiting \in Calls /\ Remote!Fail(waiting)
<1>1. /\ waiting # 0 /\ waiting' = 0 /\ sock' = sock /\ kind' = kind /\ srv' = srv
      /\ out' = out /\ carried' = carried /\ odd' = odd /\ wire' = wire /\ conn' = conn
      /\ last' = last /\ late' = late \cup {conn} /\ back' = back
      /\ Ends(waiting, "failed")
  BY DEF TimeOut, server
<1>2. /\ CallInv' /\ waiting \in Calls /\ outcome[waiting] = "pending"
      /\ outcome' \in [Calls -> {"new", "pending", "ok", "failed"}]
  BY <1>1, EndKeepsCalls
<1>3. TypeOK'  BY <1>1, <1>2 DEF IInv, TypeOK
<1>4. DiesOnlyOfUnknown'  BY <1>1 DEF IInv, DiesOnlyOfUnknown
<1>5. RequestInv' /\ ReplyInv(out)' /\ ReplyInv(back)' /\ SoleInv'
  BY <1>1 DEF IInv, RequestInv, ReplyInv, SoleInv
<1>6. OwnInv(wire)' /\ OwnInv(out)' /\ OwnInv(back)'
  BY <1>1 DEF IInv, OwnInv
<1>7. Remote!Fail(waiting)  BY <1>1, <1>2 DEF Remote!Fail, Ends
<1>. QED BY <1>2, <1>3, <1>4, <1>5, <1>6, <1>7 DEF IInv

LEMMA ReopenKeeps ==
  ASSUME ReqRepAssumption, IInv, Reopen
  PROVE  IInv' /\ UNCHANGED <<outcome, carried>>
<1>1. /\ waiting = 0 /\ conn < MaxConns /\ conn' = conn + 1 /\ sock' = "idle" /\ back' = {}
      /\ kind' = kind /\ srv' = srv /\ out' = out /\ carried' = carried /\ odd' = odd
      /\ wire' = wire /\ waiting' = waiting /\ last' = last /\ outcome' = outcome
      /\ late' = late
  BY DEF Reopen, server
<1>2. conn \in Nat /\ conn' \in Conns
  BY <1>1 DEF IInv, TypeOK, Conns, ReqRepAssumption
<1>3. TypeOK'  BY <1>1, <1>2 DEF IInv, TypeOK
<1>4. DiesOnlyOfUnknown'  BY <1>1 DEF IInv, DiesOnlyOfUnknown
<1>5. \A c \in late : c <= conn /\ c \in Nat  BY DEF IInv, CallInv, TypeOK, Conns
<1>6. CallInv'
  <2>1. conn' \notin late /\ \A c \in late : c <= conn'  BY <1>1, <1>2, <1>5
  <2>. QED BY <1>1, <2>1 DEF IInv, CallInv
<1>7. /\ \A m \in wire : m.conn <= conn /\ m.conn \in Nat
      /\ \A r \in out : r.conn <= conn /\ r.conn \in Nat
  BY DEF IInv, TypeOK, RequestInv, ReplyInv, Requests, Replies
<1>8. \A m \in wire \cup out : m.conn # conn' /\ m.conn <= conn'  BY <1>1, <1>2, <1>7
<1>9. RequestInv' /\ ReplyInv(out)' /\ ReplyInv(back)'
  BY <1>1, <1>8 DEF IInv, RequestInv, ReplyInv
<1>10. OwnInv(wire)' /\ OwnInv(out)' /\ OwnInv(back)' /\ SoleInv'
  BY <1>1, <1>8 DEF IInv, OwnInv, SoleInv
<1>. QED BY <1>1, <1>3, <1>4, <1>6, <1>9, <1>10 DEF IInv

-----------------------------------------------------------------------------
(* What lies between.                                                      *)

LEMMA LoseKeeps ==
  ASSUME ReqRepAssumption, IInv, Lose
  PROVE  IInv' /\ UNCHANGED <<outcome, carried>>
<1>1. /\ wire' \subseteq wire /\ back' \subseteq back
      /\ kind' = kind /\ srv' = srv /\ out' = out /\ carried' = carried /\ odd' = odd
      /\ conn' = conn /\ sock' = sock /\ waiting' = waiting /\ last' = last
      /\ outcome' = outcome /\ late' = late
  BY DEF Lose, server, client
<1>2. TypeOK' /\ DiesOnlyOfUnknown' /\ CallInv'
  BY <1>1 DEF IInv, TypeOK, DiesOnlyOfUnknown, CallInv
<1>3. RequestInv' /\ ReplyInv(out)' /\ ReplyInv(back)'
  BY <1>1 DEF IInv, RequestInv, ReplyInv
<1>4. OwnInv(wire)' /\ OwnInv(out)' /\ OwnInv(back)' /\ SoleInv'
  BY <1>1 DEF IInv, OwnInv, SoleInv
<1>. QED BY <1>1, <1>2, <1>3, <1>4 DEF IInv

LEMMA ForeignKeeps ==
  ASSUME ReqRepAssumption, IInv, NEW cmd \in Odd, Foreign(cmd)
  PROVE  IInv' /\ UNCHANGED <<outcome, carried>>
<1> DEFINE m == [conn |-> 0, id |-> 0, cmd |-> cmd]
<1>1. /\ wire' = wire \cup {m} /\ back' = back
      /\ kind' = kind /\ srv' = srv /\ out' = out /\ carried' = carried /\ odd' = odd
      /\ conn' = conn /\ sock' = sock /\ waiting' = waiting /\ last' = last
      /\ outcome' = outcome /\ late' = late
  BY DEF Foreign, server, client
<1>2. /\ conn \in Nat /\ conn # 0 /\ last \in Nat /\ MaxCalls \in Nat /\ MaxConns \in Nat
      /\ cmd # "known"
  BY DEF IInv, TypeOK, Conns, ReqRepAssumption, Odd
<1>3. m \in Requests  BY <1>2 DEF Requests, Commands
<1>4. TypeOK'
  <2>1. wire' \subseteq Requests  BY <1>1, <1>3 DEF IInv, TypeOK
  <2>. QED BY <1>1, <2>1 DEF IInv, TypeOK
<1>5. DiesOnlyOfUnknown' /\ CallInv'
  BY <1>1 DEF IInv, DiesOnlyOfUnknown, CallInv
<1>6. m.id = 0 /\ m.conn = 0 /\ m.cmd # "known" /\ 0 <= last /\ 0 <= conn  BY <1>2
<1>7. RequestInv'  BY <1>1, <1>6 DEF IInv, RequestInv
<1>8. ReplyInv(out)' /\ ReplyInv(back)'  BY <1>1 DEF IInv, ReplyInv
<1>9. OwnInv(wire)' /\ OwnInv(out)' /\ OwnInv(back)' /\ SoleInv'
  BY <1>1, <1>2, <1>6 DEF IInv, OwnInv, SoleInv
<1>. QED BY <1>1, <1>4, <1>5, <1>7, <1>8, <1>9 DEF IInv

-----------------------------------------------------------------------------
(* The task.                                                               *)

\* A request that is carried out or refused leaves a reply in its place, or nothing.
LEMMA Served ==
  ASSUME ReqRepAssumption, IInv, out = {}, NEW m \in wire, wire' = wire \ {m},
         \/ out' = {}
         \/ \E st \in {"ok", "error", "exception", "json"} :
              /\ Answer(m, st)
              /\ st = "ok" => m.id # 0 /\ carried'[m.id] = 1,
         \A i \in Calls : carried'[i] = carried[i] \/ i = m.id,
         back' = back, UNCHANGED client
  PROVE  /\ RequestInv' /\ ReplyInv(out)' /\ ReplyInv(back)'
         /\ OwnInv(wire)' /\ OwnInv(out)' /\ OwnInv(back)' /\ SoleInv'
         /\ wire' \subseteq Requests /\ out' \subseteq Replies
<1>1. /\ conn' = conn /\ sock' = sock /\ waiting' = waiting /\ last' = last
      /\ outcome' = outcome /\ late' = late
  BY DEF client
<1>2. /\ m \in Requests /\ m.conn <= conn /\ m.id \in 0..MaxCalls
      /\ m.id # 0 => carried[m.id] = 0
      /\ \A n \in wire' : n # m /\ n \in wire
  BY DEF IInv, TypeOK, RequestInv, Requests
<1>3. \A r \in out' : /\ r \in Replies /\ r.conn = m.conn /\ r.id = m.id
                      /\ r.status = "ok" => r.id # 0 /\ carried'[r.id] = 1
                      /\ \A q \in out' : q = r
  BY <1>2 DEF Answer, Replies, Requests
<1>4. RequestInv'
  <2>1. \A n \in wire' : n.id # 0 => carried'[n.id] = 0
    <3>1. SUFFICES ASSUME NEW n \in wire', n.id # 0  PROVE carried'[n.id] = 0
      OBVIOUS
    <3>2. n.id # m.id /\ carried[n.id] = 0 /\ n.id \in Calls
      BY <1>2, <3>1 DEF IInv, RequestInv, TypeOK, Requests, Calls
    <3>. QED BY <3>2
  <2>2. wire' \subseteq wire /\ last' = last /\ conn' = conn  BY <1>1
  <2>3. \A n \in wire' : /\ n.cmd = "known" => n.id # 0
                         /\ n.id <= last' /\ n.conn <= conn'
                         /\ \A k \in wire' : n.id # 0 /\ k.id = n.id => k = n
    BY <2>2 DEF IInv, RequestInv
  <2>. QED BY <2>1, <2>3 DEF RequestInv
<1>5. ReplyInv(out)'  BY <1>1, <1>2, <1>3 DEF ReplyInv
<1>6. ReplyInv(back)'
  <2>1. ASSUME NEW r \in back, r.status = "ok"  PROVE r.id # 0 /\ carried'[r.id] = 1
    <3>1. r.id # 0 /\ carried[r.id] = 1 /\ r.id \in Calls
      BY <2>1 DEF IInv, ReplyInv, TypeOK, Replies, Calls
    <3>2. r.id # m.id  BY <1>2, <3>1
    <3>. QED BY <3>1, <3>2
  <2>2. \A r \in back : r.conn <= conn  BY DEF IInv, ReplyInv
  <2>. QED BY <1>1, <2>1, <2>2 DEF ReplyInv
<1>7. OwnInv(wire)' /\ OwnInv(out)' /\ OwnInv(back)'
  <2>1. m.conn = conn => sock = "awaiting" /\ (waiting = m.id \/ conn \in late)
    BY DEF IInv, OwnInv
  <2>2. OwnInv(wire)'  BY <1>1 DEF IInv, OwnInv
  <2>3. OwnInv(out)'  BY <1>1, <1>3, <2>1 DEF OwnInv
  <2>4. OwnInv(back)'  BY <1>1 DEF IInv, OwnInv
  <2>. QED BY <2>2, <2>3, <2>4
<1>8. SoleInv'
  <2>1. m.conn = conn => /\ \A n \in wire' : n.conn # conn
                         /\ \A q \in back : q.conn # conn
    BY <1>2 DEF IInv, SoleInv
  <2>2. /\ \A n, k \in wire' : n.conn = conn /\ k.conn = conn => n = k
        /\ \A r, q \in back : r.conn = conn /\ q.conn = conn => r = q
        /\ \A n \in wire' : n.conn = conn => \A r \in back : r.conn # conn
    BY <1>2 DEF IInv, SoleInv
  <2>3. \A r \in out' : r.conn = m.conn /\ \A q \in out' : r = q  BY <1>3
  <2>. QED BY <1>1, <2>1, <2>2, <2>3 DEF SoleInv
<1>9. wire' \subseteq Requests /\ out' \subseteq Replies  BY <1>2, <1>3 DEF IInv, TypeOK
<1>. QED BY <1>4, <1>5, <1>6, <1>7, <1>8, <1>9

LEMMA ServeKeeps ==
  ASSUME ReqRepAssumption, IInv, Serve
  PROVE  IInv' /\ (\/ UNCHANGED <<outcome, carried>>
                   \/ \E i \in Calls : Remote!CarryOut(i))
<1>1. PICK m \in wire : wire' = wire \ {m} /\ (CarryOut(m) \/ Refuse(m))  BY DEF Serve
<1>2. /\ srv = "up" /\ out = {} /\ kind' = kind /\ back' = back /\ UNCHANGED client
      /\ conn' = conn /\ sock' = sock /\ waiting' = waiting /\ last' = last
      /\ outcome' = outcome /\ late' = late
  BY DEF Serve, client
<1>3. CASE CarryOut(m)
  <2>1. /\ m.id \in Calls /\ m.id <= last /\ carried[m.id] = 0
    BY <1>3 DEF CarryOut, IInv, TypeOK, RequestInv, Requests, Calls
  <2>2. /\ carried' = [carried EXCEPT ![m.id] = @ + 1] /\ srv' = srv /\ odd' = odd
        /\ \E st \in {"ok", "error", "exception", "json"} : Answer(m, st)
    BY <1>3 DEF CarryOut
  <2>3. /\ carried' \in [Calls -> 0..1] /\ carried'[m.id] = 1
        /\ \A i \in Calls : i # m.id => carried'[i] = carried[i]
        /\ carried' = [carried EXCEPT ![m.id] = 1]
    BY <2>1, <2>2 DEF IInv, TypeOK
  <2>4. m.id # 0  BY <2>1 DEF Calls
  <2>5. /\ RequestInv' /\ ReplyInv(out)' /\ ReplyInv(back)'
        /\ OwnInv(wire)' /\ OwnInv(out)' /\ OwnInv(back)' /\ SoleInv'
        /\ wire' \subseteq Requests /\ out' \subseteq Replies
    BY <1>1, <1>2, <2>2, <2>3, <2>4, Served
  <2>6. TypeOK'  BY <1>2, <2>2, <2>3, <2>5 DEF IInv, TypeOK
  <2>7. DiesOnlyOfUnknown'  BY <1>2, <2>2 DEF IInv, DiesOnlyOfUnknown
  <2>8. CallInv'
    <3>1. \A i \in Calls : i > last => carried'[i] = 0
      <4>1. SUFFICES ASSUME NEW i \in Calls, i > last  PROVE carried'[i] = 0
        OBVIOUS
      <4>2. i # m.id  BY <2>1, <4>1 DEF IInv, TypeOK, Calls
      <4>. QED BY <2>3, <4>1, <4>2 DEF IInv, CallInv
    <3>. QED BY <1>2, <3>1 DEF IInv, CallInv
  <2>9. Remote!CarryOut(m.id)
    <3>1. outcome[m.id] # "new"  BY <2>1 DEF IInv, CallInv
    <3>. QED BY <1>2, <2>1, <2>3, <3>1 DEF Remote!CarryOut
  <2>. QED BY <2>1, <2>5, <2>6, <2>7, <2>8, <2>9 DEF IInv
<1>4. CASE Refuse(m)
  <2>1. /\ m.cmd \in Odd /\ odd' = odd \cup {m.cmd} /\ carried' = carried
        /\ out' = {} \/ Answer(m, "error") \/ Answer(m, "json")
        /\ srv' \in {"up", "garbled", "stopped", "dead"}
        /\ srv' # "up" => kind = "python"
        /\ srv' = "garbled" => m.cmd = "unknown"
        /\ srv' = "stopped" => m.cmd = "stop"
        /\ srv' = "dead" => m.cmd = "garbage"
    BY <1>2, <1>4 DEF Refuse
  <2>2. \/ out' = {}
        \/ \E st \in {"ok", "error", "exception", "json"} :
             /\ Answer(m, st)
             /\ st = "ok" => m.id # 0 /\ carried'[m.id] = 1
    BY <2>1
  <2>3. /\ RequestInv' /\ ReplyInv(out)' /\ ReplyInv(back)'
        /\ OwnInv(wire)' /\ OwnInv(out)' /\ OwnInv(back)' /\ SoleInv'
        /\ wire' \subseteq Requests /\ out' \subseteq Replies
    BY <1>1, <1>2, <2>1, <2>2, Served
  <2>4. TypeOK'  BY <1>2, <2>1, <2>3 DEF IInv, TypeOK
  <2>5. DiesOnlyOfUnknown'  BY <1>2, <2>1 DEF IInv, DiesOnlyOfUnknown
  <2>6. CallInv'  BY <1>2, <2>1 DEF IInv, CallInv
  <2>. QED BY <1>2, <2>1, <2>3, <2>4, <2>5, <2>6 DEF IInv
<1>. QED BY <1>1, <1>3, <1>4

LEMMA ServeGarbledKeeps ==
  ASSUME ReqRepAssumption, IInv, ServeGarbled
  PROVE  IInv' /\ UNCHANGED <<outcome, carried>>
<1>1. PICK m \in wire : wire' = wire \ {m}  BY DEF ServeGarbled
<1>2. /\ srv = "garbled" /\ srv' = "dead" /\ kind' = kind /\ back' = back /\ out' = out
      /\ carried' = carried /\ odd' = odd /\ out = {} /\ UNCHANGED client
      /\ conn' = conn /\ sock' = sock /\ waiting' = waiting /\ last' = last
      /\ outcome' = outcome /\ late' = late
  BY DEF ServeGarbled, client
<1>3. /\ RequestInv' /\ ReplyInv(out)' /\ ReplyInv(back)'
      /\ OwnInv(wire)' /\ OwnInv(out)' /\ OwnInv(back)' /\ SoleInv'
      /\ wire' \subseteq Requests /\ out' \subseteq Replies
  BY <1>1, <1>2, Served
<1>4. TypeOK'  BY <1>2, <1>3 DEF IInv, TypeOK
<1>5. DiesOnlyOfUnknown'  BY <1>2 DEF IInv, DiesOnlyOfUnknown
<1>6. CallInv'  BY <1>2 DEF IInv, CallInv
<1>. QED BY <1>2, <1>3, <1>4, <1>5, <1>6 DEF IInv

LEMMA ReplyKeeps ==
  ASSUME ReqRepAssumption, IInv, Reply
  PROVE  IInv' /\ UNCHANGED <<outcome, carried>>
<1>1. /\ out' = {} /\ back' = back \cup {r \in out : r.conn = conn}
      /\ kind' = kind /\ srv' = srv /\ carried' = carried /\ odd' = odd /\ wire' = wire
      /\ conn' = conn /\ sock' = sock /\ waiting' = waiting /\ last' = last
      /\ outcome' = outcome /\ late' = late
  BY DEF Reply, client
<1>2. TypeOK' /\ DiesOnlyOfUnknown' /\ CallInv'
  BY <1>1 DEF IInv, TypeOK, DiesOnlyOfUnknown, CallInv
<1>3. RequestInv' /\ ReplyInv(out)' /\ ReplyInv(back)'
  BY <1>1 DEF IInv, RequestInv, ReplyInv
<1>4. OwnInv(wire)' /\ OwnInv(out)' /\ OwnInv(back)'
  BY <1>1 DEF IInv, OwnInv
<1>5. SoleInv'  BY <1>1 DEF IInv, SoleInv
<1>. QED BY <1>1, <1>2, <1>3, <1>4, <1>5 DEF IInv

LEMMA StutterKeeps ==
  ASSUME IInv, UNCHANGED vars
  PROVE  IInv' /\ UNCHANGED <<outcome, carried>>
<1>1. /\ kind' = kind /\ srv' = srv /\ out' = out /\ back' = back /\ carried' = carried
      /\ odd' = odd /\ wire' = wire /\ conn' = conn /\ sock' = sock
      /\ waiting' = waiting /\ last' = last /\ outcome' = outcome /\ late' = late
  BY DEF vars, server, client
<1>2. TypeOK' /\ DiesOnlyOfUnknown' /\ CallInv'
  BY <1>1 DEF IInv, TypeOK, DiesOnlyOfUnknown, CallInv
<1>3. RequestInv' /\ ReplyInv(out)' /\ ReplyInv(back)'
  BY <1>1 DEF IInv, RequestInv, ReplyInv
<1>4. OwnInv(wire)' /\ OwnInv(out)' /\ OwnInv(back)' /\ SoleInv'
  BY <1>1 DEF IInv, OwnInv, SoleInv
<1>. QED BY <1>1, <1>2, <1>3, <1>4 DEF IInv

-----------------------------------------------------------------------------
(* The theorems.                                                           *)

\* Every step keeps the invariant, and is a step of RemoteCall or none.
LEMMA NextKeeps ==
  ASSUME ReqRepAssumption, IInv, [Next]_vars
  PROVE  IInv' /\ [Remote!Next]_<<outcome, carried>>
<1>1. CASE \E cmd \in {"known", "unknown"} : Send(cmd)
  <2>1. IInv' /\ Remote!Call(last + 1)  BY <1>1, SendKeeps
  <2>2. last + 1 \in Remote!Calls
    BY <1>1 DEF Send, IInv, TypeOK, ReqRepAssumption, Remote!Calls
  <2>. QED BY <2>1, <2>2 DEF Remote!Next
<1>2. CASE SendRaises
  <2>1. IInv' /\ Remote!Call(last + 1)  BY <1>2, SendRaisesKeeps
  <2>2. last + 1 \in Remote!Calls
    BY <1>2 DEF SendRaises, IInv, TypeOK, ReqRepAssumption, Remote!Calls
  <2>. QED BY <2>1, <2>2 DEF Remote!Next
<1>3. CASE Receive
  BY <1>3, ReceiveKeeps DEF Remote!Next, Remote!Calls, Calls
<1>4. CASE TimeOut
  BY <1>4, TimeOutKeeps DEF Remote!Next, Remote!Calls, Calls
<1>5. CASE Serve
  BY <1>5, ServeKeeps DEF Remote!Next, Remote!Calls, Calls
<1>6. CASE Reopen \/ Lose \/ (\E c \in Odd : Foreign(c)) \/ ServeGarbled \/ Reply
           \/ UNCHANGED vars
  BY <1>6, ReopenKeeps, LoseKeeps, ForeignKeeps, ServeGarbledKeeps, ReplyKeeps, StutterKeeps
<1>. QED BY <1>1, <1>2, <1>3, <1>4, <1>5, <1>6 DEF Next

\* The invariant the others are parts of holds whatever is lost or late.
THEOREM Invariant == Spec => []IInv
<1>1. Init => IInv  BY InitIsFine, ReqRepAssumption
<1>2. IInv /\ [Next]_vars => IInv'  BY NextKeeps, ReqRepAssumption
<1>. QED BY <1>1, <1>2, PTL DEF Spec

\* Every variable of analyser and task stays within its values, and no request is carried
\* out twice.
THEOREM TypeCorrect == Spec => []TypeOK
<1>1. IInv => TypeOK  BY DEF IInv
<1>. QED BY <1>1, Invariant, PTL

\* For any number of calls and analysers, nothing a daemon has a function for ends it.
THEOREM DiesOnlyOfUnknownAlways == Spec => []DiesOnlyOfUnknown
<1>1. IInv => DiesOnlyOfUnknown  BY DEF IInv
<1>. QED BY <1>1, Invariant, PTL

\* For any number of calls, an analyser that has timed out never gets an answer again.
THEOREM PoisonedAlways == Spec => Poisoned
<1> DEFINE Unanswered ==
      \A i \in Calls : outcome[i] = "pending" /\ outcome'[i] = "ok" => conn \notin late
<1>1. IInv /\ [Next]_vars => [Unanswered]_vars
  <2>1. ASSUME IInv, Next, ~Receive, NEW i \in Calls,
               outcome[i] = "pending", outcome'[i] = "ok"
        PROVE  FALSE
    <3>1. outcome \in [Calls -> {"new", "pending", "ok", "failed"}]
      BY <2>1 DEF IInv, TypeOK
    <3>2. CASE \E cmd \in {"known", "unknown"} : Send(cmd)
      BY <2>1, <3>1, <3>2 DEF Send, Ends
    <3>3. CASE SendRaises  BY <2>1, <3>1, <3>3 DEF SendRaises, Ends
    <3>4. CASE TimeOut  BY <2>1, <3>1, <3>4 DEF TimeOut, Ends
    <3>5. CASE UNCHANGED outcome  BY <2>1, <3>5
    <3>. QED BY <2>1, <3>2, <3>3, <3>4, <3>5
         DEF Next, Reopen, Lose, Foreign, Serve, ServeGarbled, Reply, client
  <2>2. ASSUME IInv, Receive  PROVE conn \notin late
    BY <2>2, ReceiveKeeps, ReqRepAssumption
  <2>. QED BY <2>1, <2>2
<1>. QED BY <1>1, Invariant, PTL DEF Spec, Poisoned

\* For any number of calls and analysers, a reply is never taken for that of another call.
THEOREM RefinesRemoteCall == Spec => ImplementsCall
<1>1. Init => Remote!Init  BY DEF Init, Remote!Init, Calls, Remote!Calls
<1>2. IInv /\ [Next]_vars => [Remote!Next]_<<outcome, carried>>
  BY NextKeeps, ReqRepAssumption
<1>. QED BY <1>1, <1>2, Invariant, PTL DEF Spec, ImplementsCall, Remote!Spec, Remote!cvars
=============================================================================
