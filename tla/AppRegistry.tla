---------------------------- MODULE AppRegistry ----------------------------
(***************************************************************************)
(* The bookkeeping of HydraBase: which tasks an application has, how they  *)
(* are addressed, and which of them form groups (hydrabase.py).  One test  *)
(* script calls it, one call at a time; meanwhile Marathon loses tasks and *)
(* launches others in their place.                                         *)
(*                                                                         *)
(* A task is a number, never given twice.  A key of ip_port_map, the       *)
(* string task_id + '_PORT' + port, is a pair of a task and one of the     *)
(* ports a task of the application has.  tasks_list and all_task_ids are   *)
(* lists without duplicates whose order is Python's choice (keys() of a    *)
(* dictionary, a set difference, random.choice): they are sets here, and   *)
(* what pop() takes is any member.  A batch of scale_app or delete_app is  *)
(* one step with the rest of the call: this script is the only caller and  *)
(* none of the batches touches the bookkeeping.  num_tasks is left out:    *)
(* nothing reads it.                                                       *)
(*                                                                         *)
(* Whatever a call asks of Marathon or Mesos may raise, and the call ends  *)
(* there, with what it has changed so far.  Its outcome is "failed", as    *)
(* for an assert, a KeyError and a result that says so (1 or False).       *)
(***************************************************************************)
EXTENDS Naturals, FiniteSets

CONSTANTS Apps,      \* application names
          Groups,    \* group names
          Ports,     \* the ports each task gets
          MaxTasks,  \* bound: the tasks Marathon ever launches
          MaxScale,  \* bound: the tasks an app is scaled to
          MaxGroup   \* bound: the instances asked for in one group

ASSUME RegistryAssumption ==
  MaxTasks \in Nat /\ MaxScale \in 1..MaxTasks /\ MaxGroup \in Nat /\ Ports # {}

Tasks == 1..MaxTasks
Keys  == Tasks \X Ports

VARIABLES
  target,        \* Marathon: the instances each app should have
  running,       \* Marathon: the tasks each app has
  launched,      \* Marathon: how many tasks it has ever launched
  apps,          \* the names in the dictionary apps
  ip_port_map,   \* apps[name]['ip_port_map'], for those that have one
  all_task_ids,  \* all_task_ids[name]
  app_group,     \* app_group[name]: the app and the tasks_list
  outcome,       \* how the last call ended
  torn           \* history: the apps created or refreshed without success since
                 \* their last refresh that went through

marathon == <<target, running, launched>>
registry == <<apps, ip_port_map, all_task_ids, app_group, torn>>
vars     == <<marathon, registry, outcome>>

KeysOf(T)    == T \X Ports
TaskOf(key)  == key[1]
Grouped      == UNION {app_group[g].tasks : g \in DOMAIN app_group}
Set(f, x, v) == [y \in DOMAIN f \cup {x} |-> IF y = x THEN v ELSE f[y]]
Drop(f, X)   == [y \in DOMAIN f \ X |-> f[y]]
At(f, x)     == IF x \in DOMAIN f THEN f[x] ELSE {}

Init ==
  /\ target = [a \in Apps |-> 0]
  /\ running = [a \in Apps |-> {}]
  /\ launched = 0
  /\ apps = {} /\ ip_port_map = <<>> /\ all_task_ids = <<>> /\ app_group = <<>>
  /\ torn = {}
  /\ outcome = "ok"

-----------------------------------------------------------------------------
(* Marathon, on its own.                                                   *)

\* A task dies.
Lose(a, t) == /\ t \in running[a]
              /\ running' = [running EXCEPT ![a] = @ \ {t}]
              /\ UNCHANGED <<target, launched, registry, outcome>>

\* Marathon makes up for a task it has lost or was told to kill.
Replace(a) == /\ Cardinality(running[a]) < target[a]
              /\ launched < MaxTasks
              /\ launched' = launched + 1
              /\ running' = [running EXCEPT ![a] = @ \cup {launched + 1}]
              /\ UNCHANGED <<target, registry, outcome>>

\* Marathon brings app a to n tasks; wait_app_ready has seen them running.
Reach(a, n, T) ==
  LET new == IF n > Cardinality(running[a]) THEN n - Cardinality(running[a]) ELSE 0
      next == launched + new
  IN  /\ next <= MaxTasks
      /\ Cardinality(T) = n
      /\ IF new > 0 THEN T = running[a] \cup (launched + 1)..next ELSE T \subseteq running[a]
      /\ launched' = next
      /\ target' = [target EXCEPT ![a] = n]
      /\ running' = [running EXCEPT ![a] = T]

-----------------------------------------------------------------------------
(* The calls of the script.                                                *)

Calls == outcome # "stuck"

\* refresh_app_info gives the app an empty map, fills it task by task from the
\* tasks T Marathon tells it, and takes its keys for the list ...
RefreshMapOnly(a, T) == /\ ip_port_map' = Set(ip_port_map, a, KeysOf(T))
                        /\ all_task_ids' = Set(all_task_ids, a, At(all_task_ids, a))
                        /\ torn' = torn \ {a}
                        /\ outcome' = "ok"

Refresh(a, T) == /\ ip_port_map' = Set(ip_port_map, a, KeysOf(T))
                 /\ all_task_ids' = Set(all_task_ids, a, KeysOf(T))
                 /\ torn' = torn \ {a}
                 /\ outcome' = "ok"

\* ... or raises on the way, at get_app_tasks or at the host of one of the tasks:
\* the map has the tasks before that one, and the list is as it was.
RefreshFailsEmptied(a, T) == /\ \E S \in ((SUBSET T) \ {T}) \cup {{}} :
                                  ip_port_map' = Set(ip_port_map, a, KeysOf(S))
                             /\ all_task_ids' = Set(all_task_ids, a, {})
                             /\ torn' = torn \cup {a}
                             /\ outcome' = "failed"

RefreshFails(a, T) == /\ \E S \in ((SUBSET T) \ {T}) \cup {{}} :
                           ip_port_map' = Set(ip_port_map, a, KeysOf(S))
                      /\ torn' = torn \cup {a}
                      /\ outcome' = "failed"
                      /\ UNCHANGED all_task_ids

RefreshAppInfo(a, T) == Refresh(a, T) \/ RefreshFails(a, T)

\* The call ends before anything has changed.
Fails(how) == outcome' = how /\ UNCHANGED <<marathon, registry>>

\* It raises while Marathon, told to have n tasks of app a, is at work on it.
GivesUp(a, n) == /\ target' = [target EXCEPT ![a] = n]
                 /\ outcome' = "failed"
                 /\ UNCHANGED <<running, launched>>

\* create_hydra_app, create_binary_app.  Marathon refuses an app it has, and may
\* have taken a new one although the call raises.  The app is entered without a
\* map before the wait for its first task.
CreateApp(a) ==
  /\ Calls
  /\ \/ Fails("failed")
     \/ /\ a \notin apps /\ target[a] = 0 /\ running[a] = {}
        /\ \/ GivesUp(a, 1) /\ UNCHANGED registry
           \/ /\ GivesUp(a, 1)
              /\ apps' = apps \cup {a} /\ torn' = torn \cup {a}
              /\ UNCHANGED <<ip_port_map, all_task_ids, app_group>>
           \/ /\ apps' = apps \cup {a}
              /\ \E T \in SUBSET Tasks : Reach(a, 1, T) /\ RefreshAppInfo(a, T)
              /\ UNCHANGED app_group

\* scale_app; the count it asserts at the end is the one it has waited for.  A
\* batch or the wait for it may raise, with Marathon told any number on the way.
ScaleApp(a, n) ==
  /\ Calls
  /\ \/ a \notin apps /\ Fails("failed")
     \/ a \in apps /\ GivesUp(a, n) /\ UNCHANGED registry
     \/ /\ a \in apps
        /\ \E T \in SUBSET Tasks : Reach(a, n, T) /\ RefreshAppInfo(a, T)
        /\ UNCHANGED <<apps, app_group>>

\* delete_app forgets the map of the app, and neither its list nor its groups; only
\* then does it turn to Marathon, which may leave the app, or fewer tasks of it.
DeleteApp(a) ==
  /\ Calls
  /\ apps' = apps \ {a} /\ torn' = torn \ {a}
  /\ ip_port_map' = Drop(ip_port_map, {a})
  /\ UNCHANGED <<all_task_ids, app_group>>
  /\ \/ \E n \in 0..target[a] : GivesUp(a, n)
     \/ /\ target' = [target EXCEPT ![a] = 0]
        /\ running' = [running EXCEPT ![a] = {}]
        /\ outcome' = "ok"
        /\ UNCHANGED launched

\* create_app_instances_group: the group is entered before it is filled, and stays
\* empty where the app was never refreshed; the number asked for is cut to the
\* tasks of the app, grouped ones included, and the search for one more ungrouped
\* task never gives up.
UngroupedOrNot(a) == all_task_ids[a]
Ungrouped(a) == all_task_ids[a] \ Grouped
Taken(a, n)  == IF n > Cardinality(all_task_ids[a]) THEN Cardinality(all_task_ids[a]) ELSE n

Enter(g, a, S) == app_group' = Set(app_group, g, [app |-> a, tasks |-> S])

CreateGroup(g, a, n) ==
  /\ Calls
  /\ \/ a \notin apps /\ Fails("failed")
     \/ a \in apps /\ g \in DOMAIN app_group /\ Fails("failed")
     \/ /\ a \in apps /\ g \notin DOMAIN app_group
        /\ \/ /\ a \notin DOMAIN all_task_ids
              /\ Enter(g, a, {}) /\ outcome' = "failed"
           \/ /\ a \in DOMAIN all_task_ids
              /\ Taken(a, n) > Cardinality(Ungrouped(a))
              /\ Enter(g, a, {}) /\ outcome' = "stuck"
           \/ /\ a \in DOMAIN all_task_ids
              /\ \E S \in SUBSET Ungrouped(a) : Cardinality(S) = Taken(a, n) /\ Enter(g, a, S)
              /\ outcome' = "ok"
        /\ UNCHANGED <<marathon, apps, ip_port_map, all_task_ids, torn>>

\* delete_app_instances_group; delete_all_app_instances_groups is one for each.
DeleteGroups(G) ==
  /\ Calls
  /\ \/ ~(G \subseteq DOMAIN app_group) /\ Fails("failed")
     \/ /\ G \subseteq DOMAIN app_group
        /\ app_group' = Drop(app_group, G)
        /\ outcome' = "ok"
        /\ UNCHANGED <<marathon, apps, ip_port_map, all_task_ids, torn>>

\* The keys a call goes through: those of the app, or those of one group.  The list
\* of the app is looked up first, whichever it is.
Scopes         == Groups \cup {""}
TaskList(a, s) == IF s = "" THEN all_task_ids[a] ELSE app_group[s].tasks
Listed(a, s)   == a \in apps \cap DOMAIN all_task_ids /\ s \in {""} \cup DOMAIN app_group

\* reset_all_app_stats, fetch_app_stats: each looks every key of its list up in the
\* map of the app, as does AppGroup._execute for the members of a group.
ForEach(a, s) ==
  /\ Calls
  /\ Fails(IF Listed(a, s) /\ TaskList(a, s) \subseteq At(ip_port_map, a)
             THEN "ok" ELSE "failed")

Execute(g) ==
  /\ Calls
  /\ Fails(IF g \in DOMAIN app_group /\ app_group[g].tasks \subseteq At(ip_port_map, app_group[g].app)
             THEN "ok" ELSE "failed")

\* A group without the keys in X.
WithoutApp(g, X) == [app |-> g, tasks |-> app_group[g].tasks \ X]
Without(g, X) == [app |-> app_group[g].app, tasks |-> app_group[g].tasks \ X]

\* remove_unresponsive_tasks: ping every key of the list, then strike those in
\* bad from the map, the list and every group.
StrikeNoGroup(a, bad) ==
  /\ ip_port_map' = [ip_port_map EXCEPT ![a] = @ \ bad]
  /\ all_task_ids' = [all_task_ids EXCEPT ![a] = @ \ bad]
  /\ UNCHANGED app_group

Strike(a, bad) ==
  /\ ip_port_map' = [ip_port_map EXCEPT ![a] = @ \ bad]
  /\ all_task_ids' = [all_task_ids EXCEPT ![a] = @ \ bad]
  /\ app_group' = [g \in DOMAIN app_group |-> Without(g, bad)]

RemoveUnresponsive(a, s) ==
  /\ Calls
  /\ \/ Fails("failed")
     \/ /\ Listed(a, s) /\ a \in DOMAIN ip_port_map
        /\ TaskList(a, s) \subseteq ip_port_map[a]
        /\ \E bad \in SUBSET TaskList(a, s) :
             /\ \A k \in TaskList(a, s) : TaskOf(k) \notin running[a] => k \in bad
             /\ Strike(a, bad)
        /\ outcome' = "ok"
        /\ UNCHANGED <<marathon, apps, torn>>

\* delete_tasks_from_group: pop a key and kill its whole task, as often as asked;
\* Marathon knows no task it no longer runs, and the first kill that raises ends
\* the loop with its key popped and nothing refreshed.
DeleteTasks(g, n) ==
  /\ Calls
  /\ g \in DOMAIN app_group
  /\ LET grp    == app_group[g]
         a      == grp.app
         wanted == IF n > Cardinality(grp.tasks) THEN Cardinality(grp.tasks) ELSE n
     IN \E P \in SUBSET grp.tasks :
          LET killed == {TaskOf(k) : k \in P}
          IN /\ killed \subseteq running[a]
             /\ Cardinality(killed) = Cardinality(P)
             /\ running' = [running EXCEPT ![a] = @ \ killed]
             /\ \/ /\ Cardinality(P) = wanted /\ a \in apps
                   /\ app_group' = Set(app_group, g, Without(g, P))
                   /\ RefreshAppInfo(a, running[a] \ killed)
                \/ /\ Cardinality(P) = wanted /\ a \notin apps
                   /\ app_group' = Set(app_group, g, Without(g, P))
                   /\ outcome' = "failed"
                   /\ UNCHANGED <<ip_port_map, all_task_ids, torn>>
                \/ /\ Cardinality(P) < wanted
                   /\ \E k \in grp.tasks \ P : app_group' = Set(app_group, g, Without(g, P \cup {k}))
                   /\ outcome' = "failed"
                   /\ UNCHANGED <<ip_port_map, all_task_ids, torn>>
  /\ UNCHANGED <<target, launched, apps>>

-----------------------------------------------------------------------------
Marathon == \E a \in Apps : Replace(a) \/ \E t \in Tasks : Lose(a, t)

Script ==
  \/ \E a \in Apps : \/ CreateApp(a)
                     \/ DeleteApp(a)
                     \/ \E n \in 1..MaxScale : ScaleApp(a, n)
                     \/ \E g \in Groups, n \in 1..MaxGroup : CreateGroup(g, a, n)
                     \/ \E s \in Scopes : ForEach(a, s) \/ RemoveUnresponsive(a, s)
  \/ \E g \in Groups : Execute(g)
  \/ DeleteGroups(DOMAIN app_group)
  \/ \E g \in Groups : \/ DeleteGroups({g})
                       \/ \E n \in 1..MaxGroup : DeleteTasks(g, n)

Next == Marathon \/ Script

Spec == Init /\ [][Next]_vars

-----------------------------------------------------------------------------
(* Properties.                                                             *)

\* Every variable stays within the values the code gives it.
TypeOK ==
  /\ target \in [Apps -> 0..MaxTasks]
  /\ running \in [Apps -> SUBSET Tasks]
  /\ launched \in 0..MaxTasks
  /\ apps \subseteq Apps /\ torn \subseteq apps
  /\ DOMAIN ip_port_map \subseteq apps
  /\ \A a \in DOMAIN ip_port_map : ip_port_map[a] \subseteq Keys
  /\ DOMAIN all_task_ids \subseteq Apps
  /\ \A a \in DOMAIN all_task_ids : all_task_ids[a] \subseteq Keys
  /\ DOMAIN app_group \subseteq Groups
  /\ \A g \in DOMAIN app_group :
       app_group[g].app \in Apps /\ app_group[g].tasks \subseteq Keys
  /\ outcome \in {"ok", "failed", "stuck"}

\* The list of an app names exactly the keys its map can address, through every
\* removal and every refresh up to one that raises: a call on the whole app never
\* fails to look one up.  (hydrabase.py:611-627, 575-598)
ListMatchesMap ==
  \A a \in apps \ torn :
    /\ a \in DOMAIN ip_port_map \cap DOMAIN all_task_ids
    /\ all_task_ids[a] = ip_port_map[a]

\* No task instance is in two groups, whatever is created, deleted, killed or lost
\* in between: no signal reaches an instance through two groups.
GroupsDisjoint ==
  \A g, h \in DOMAIN app_group : g # h => app_group[g].tasks \cap app_group[h].tasks = {}

\* A group member that is not in the list of its app any more is a dead one, also
\* after a refresh or a deletion that raised halfway: the list is what the removal
\* of unresponsive instances and every new group go by, and the removal, which may
\* strike live tasks, reaches every group.  (hydrabase.py:594-609, 611-627)
LostMembersAreDead ==
  \A g \in DOMAIN app_group : \A k \in app_group[g].tasks :
    k \notin At(all_task_ids, app_group[g].app) => TaskOf(k) \notin running[app_group[g].app]

\* A member its app's map can address is in the app's list, though a refresh that
\* raised has given the map new tasks and left the list: the removal of a member
\* that does not answer, which takes it out of the map, then out of the list, then
\* out of its groups, never stops between them.  (hydrabase.py:596-597)
MembersAreListed ==
  \A g \in DOMAIN app_group :
    app_group[g].tasks \cap At(ip_port_map, app_group[g].app) \subseteq At(all_task_ids, app_group[g].app)
=============================================================================
