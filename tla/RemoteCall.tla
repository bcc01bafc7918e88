----------------------------- MODULE RemoteCall -----------------------------
(***************************************************************************)
(* What the methods of an analyser promise (lib/h_analyser.py): a call     *)
(* that comes back with the answer 'ok' has been carried out by the task,  *)
(* and no call is carried out twice.  One that comes back with anything    *)
(* else, or with an exception, may have been carried out, or may still be. *)
(***************************************************************************)
EXTENDS Naturals

CONSTANT MaxCalls  \* bound: the calls of one script

Calls == 1..MaxCalls

VARIABLES outcome,  \* of each call
          done      \* how often the task has carried it out

cvars == <<outcome, done>>

Init == /\ outcome = [i \in Calls |-> "new"]
        /\ done = [i \in Calls |-> 0]

\* One call at a time: the script is one thread.
Call(i) == /\ outcome[i] = "new" /\ \A j \in Calls : outcome[j] # "pending"
           /\ outcome' \in {[outcome EXCEPT ![i] = s] : s \in {"pending", "failed"}}
           /\ UNCHANGED done

CarryOut(i) == /\ outcome[i] # "new" /\ done[i] = 0
               /\ done' = [done EXCEPT ![i] = 1]
               /\ UNCHANGED outcome

Return(i) == /\ outcome[i] = "pending" /\ done[i] = 1
             /\ outcome' = [outcome EXCEPT ![i] = "ok"]
             /\ UNCHANGED done

Fail(i) == /\ outcome[i] = "pending"
           /\ outcome' = [outcome EXCEPT ![i] = "failed"]
           /\ UNCHANGED done

Next == \E i \in Calls : Call(i) \/ CarryOut(i) \/ Return(i) \/ Fail(i)

Spec == Init /\ [][Next]_cvars
=============================================================================
