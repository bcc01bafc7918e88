------------------------ MODULE AppRegistry_proofs -------------------------
(***************************************************************************)
(* AppRegistry for any applications, groups, ports and number of tasks: no *)
(* instance is in two groups, list and map of an application agree unless  *)
(* a refresh has raised, and a member its application's list has lost is   *)
(* dead.  The last one is not inductive alone: a task launched later could *)
(* be one a group still names, were it not that every key in the           *)
(* bookkeeping is of a task launched before.  That a member in the map is  *)
(* in the list rests on it in turn: a refresh that raises maps only tasks  *)
(* that run.                                                               *)
(***************************************************************************)
EXTENDS AppRegistry, FiniteSetTheorems, TLAPS

\* Every key in a group or a list, and every running task, is of a task launched.
KeysAreOld ==
  /\ \A a \in Apps : running[a] \subseteq 1..launched
  /\ \A a \in DOMAIN all_task_ids : all_task_ids[a] \subseteq (1..launched) \X Ports
  /\ \A g \in DOMAIN app_group : app_group[g].tasks \subseteq (1..launched) \X Ports

IInv == /\ TypeOK /\ ListMatchesMap /\ GroupsDisjoint
        /\ LostMembersAreDead /\ MembersAreListed /\ KeysAreOld

\* What any step does to Marathon's side: a task that comes is a new one.
MarathonMoves ==
  /\ target' \in [Apps -> 0..MaxTasks]
  /\ running' \in [Apps -> SUBSET Tasks]
  /\ launched' \in launched..MaxTasks
  /\ \A a \in Apps : \A t \in running'[a] : t \in 1..launched' /\ (t \in running[a] \/ t > launched)

\* What a step that makes no group does to them.
GroupsShrink ==
  /\ DOMAIN app_group' \subseteq DOMAIN app_group
  /\ \A g \in DOMAIN app_group' : /\ app_group'[g].app = app_group[g].app
                                  /\ app_group'[g].tasks \subseteq app_group[g].tasks

Outcomes == {"ok", "failed", "stuck"}

-----------------------------------------------------------------------------
LEMMA InstanceCountIsNat ==
  ASSUME NEW S \in SUBSET Tasks
  PROVE  Cardinality(S) \in Nat
<1>1. IsFiniteSet(Tasks)  BY RegistryAssumption, FS_Interval DEF Tasks
<1>2. IsFiniteSet(S)  BY <1>1, FS_Subset
<1>3. QED  BY <1>2, FS_CardinalityType

LEMMA KeysOfProps ==
  ASSUME NEW T \in SUBSET Tasks
  PROVE  /\ KeysOf(T) \subseteq Keys
         /\ \A k \in Keys : k \in KeysOf(T) <=> TaskOf(k) \in T
BY DEF KeysOf, Keys, TaskOf

LEMMA ReachMoves ==
  ASSUME IInv, NEW a \in Apps, NEW n \in 0..MaxTasks, NEW T \in SUBSET Tasks, Reach(a, n, T)
  PROVE  MarathonMoves /\ running'[a] = T
<1> DEFINE new == IF n > Cardinality(running[a]) THEN n - Cardinality(running[a]) ELSE 0
           next == launched + new
<1>1. /\ running[a] \in SUBSET Tasks /\ launched \in Nat /\ MaxTasks \in Nat
      /\ \A b \in Apps : running[b] \subseteq 1..launched
  BY RegistryAssumption DEF IInv, TypeOK, KeysAreOld
<1>2. new \in Nat  BY <1>1, InstanceCountIsNat
<1>3. launched' = next /\ next <= MaxTasks /\ launched <= next  BY <1>1, <1>2 DEF Reach
<1>4. \A t \in T : t \in 1..next /\ (t \in running[a] \/ t > launched)
  <2>1. CASE new > 0
    <3>1. T = running[a] \cup (launched + 1)..next  BY <2>1 DEF Reach
    <3>2. QED  BY <1>1, <1>2, <1>3, <3>1
  <2>2. CASE ~(new > 0)
    <3>1. T \subseteq running[a]  BY <2>2 DEF Reach
    <3>2. QED  BY <1>1, <1>2, <1>3, <3>1
  <2>3. QED  BY <2>1, <2>2
<1>5. running' = [running EXCEPT ![a] = T] /\ target' = [target EXCEPT ![a] = n]
  BY DEF Reach
<1>6. 1..launched \subseteq 1..launched'  BY <1>1, <1>2, <1>3
<1>7. running' \in [Apps -> SUBSET Tasks] /\ target' \in [Apps -> 0..MaxTasks] /\ running'[a] = T
  BY <1>5 DEF IInv, TypeOK
<1>8. launched' \in launched..MaxTasks  BY <1>1, <1>2, <1>3
<1>9. ASSUME NEW b \in Apps, NEW t \in running'[b]
      PROVE  t \in 1..launched' /\ (t \in running[b] \/ t > launched)
  <2>1. CASE b = a  BY <1>3, <1>4, <1>7, <2>1
  <2>2. CASE b # a
    <3>1. running'[b] = running[b]  BY <1>5, <2>2 DEF IInv, TypeOK
    <3>2. QED  BY <1>1, <1>6, <3>1
  <2>3. QED  BY <2>1, <2>2
<1>10. QED  BY <1>7, <1>8, <1>9 DEF MarathonMoves

\* Marathon as it was, or with tasks gone and another target.
LEMMA LossMoves ==
  ASSUME IInv, launched' = launched, target' \in [Apps -> 0..MaxTasks],
         running' \in [Apps -> SUBSET Tasks], \A a \in Apps : running'[a] \subseteq running[a]
  PROVE  MarathonMoves
<1>1. launched \in Nat /\ MaxTasks \in Nat /\ launched <= MaxTasks
  BY RegistryAssumption DEF IInv, TypeOK
<1>2. \A a \in Apps : running[a] \subseteq 1..launched  BY DEF IInv, KeysAreOld
<1>3. QED  BY <1>1, <1>2 DEF MarathonMoves

LEMMA GivesUpMoves ==
  ASSUME IInv, NEW a \in Apps, NEW n \in 0..MaxTasks, GivesUp(a, n)
  PROVE  MarathonMoves /\ outcome' \in Outcomes
<1>1. /\ running' \in [Apps -> SUBSET Tasks] /\ target' \in [Apps -> 0..MaxTasks]
      /\ launched' = launched /\ running' = running /\ outcome' = "failed"
  BY DEF GivesUp, IInv, TypeOK
<1>2. QED  BY <1>1, LossMoves DEF Outcomes

\* A step of Marathon, or a call that leaves the lists and makes no group.
LEMMA ListsKept ==
  ASSUME IInv, MarathonMoves, GroupsShrink, UNCHANGED all_task_ids
  PROVE  GroupsDisjoint' /\ LostMembersAreDead' /\ KeysAreOld'
<1>1. launched \in Nat /\ launched' \in Nat /\ launched <= launched'
  BY RegistryAssumption DEF IInv, TypeOK, MarathonMoves
<1>2. 1..launched \subseteq 1..launched'  BY <1>1
<1>3. GroupsDisjoint'  BY DEF IInv, GroupsDisjoint, GroupsShrink
<1>4. LostMembersAreDead'
  <2> SUFFICES ASSUME NEW g \in DOMAIN app_group', NEW k \in app_group'[g].tasks,
                      k \notin At(all_task_ids, app_group'[g].app),
                      TaskOf(k) \in running'[app_group'[g].app]
               PROVE  FALSE
    BY DEF LostMembersAreDead
  <2>1. /\ g \in DOMAIN app_group /\ k \in app_group[g].tasks
        /\ app_group'[g].app = app_group[g].app /\ app_group[g].app \in Apps
    BY DEF GroupsShrink, IInv, TypeOK
  <2>2. TaskOf(k) \notin running[app_group[g].app]  BY <2>1 DEF IInv, LostMembersAreDead
  <2>3. TaskOf(k) > launched  BY <2>1, <2>2 DEF MarathonMoves
  <2>4. TaskOf(k) \in 1..launched  BY <2>1 DEF IInv, KeysAreOld, TaskOf
  <2>5. QED  BY <1>1, <2>3, <2>4
<1>5. KeysAreOld'
  <2>1. \A a \in Apps : running'[a] \subseteq 1..launched'  BY DEF MarathonMoves
  <2>2. \A a \in DOMAIN all_task_ids : all_task_ids[a] \subseteq (1..launched') \X Ports
    BY <1>2 DEF IInv, KeysAreOld
  <2>3. \A g \in DOMAIN app_group' : app_group'[g].tasks \subseteq (1..launched') \X Ports
    BY <1>2 DEF IInv, KeysAreOld, GroupsShrink
  <2>4. QED  BY <2>1, <2>2, <2>3 DEF KeysAreOld
<1>6. QED  BY <1>3, <1>4, <1>5

\* The apps and the lists as they were: every call that fails early, every step of
\* Marathon, and the deletion of groups.
LEMMA BookkeepingKept ==
  ASSUME IInv, MarathonMoves, GroupsShrink, outcome' \in Outcomes,
         UNCHANGED <<apps, ip_port_map, all_task_ids, torn>>
  PROVE  IInv'
<1>1. GroupsDisjoint' /\ LostMembersAreDead' /\ KeysAreOld'  BY ListsKept
<1>2. TypeOK'
  <2>1. launched' \in 0..MaxTasks  BY RegistryAssumption DEF IInv, TypeOK, MarathonMoves
  <2>2. DOMAIN app_group' \subseteq Groups
    BY DEF IInv, TypeOK, GroupsShrink
  <2>3. \A g \in DOMAIN app_group' : app_group'[g].app \in Apps /\ app_group'[g].tasks \subseteq Keys
    BY DEF IInv, TypeOK, GroupsShrink
  <2>4. QED  BY <2>1, <2>2, <2>3 DEF IInv, TypeOK, MarathonMoves, Outcomes
<1>3. ListMatchesMap'  BY DEF IInv, ListMatchesMap
<1>4. MembersAreListed'  BY DEF IInv, MembersAreListed, GroupsShrink
<1>5. QED  BY <1>1, <1>2, <1>3, <1>4 DEF IInv

LEMMA FailsKeeps ==
  ASSUME IInv, NEW how \in Outcomes, Fails(how)
  PROVE  IInv'
<1>1. /\ UNCHANGED <<target, running, launched, apps, ip_port_map, all_task_ids, app_group, torn>>
      /\ outcome' \in Outcomes
  BY DEF Fails, marathon, registry
<1>2. GroupsShrink  BY <1>1 DEF GroupsShrink
<1>3. MarathonMoves  BY <1>1, LossMoves DEF IInv, TypeOK
<1>4. QED  BY <1>1, <1>2, <1>3, BookkeepingKept

\* refresh_app_info, whether it goes through or raises, with what the call that ends
\* with it has done to Marathon and to the groups.
LEMMA RefreshKeeps ==
  ASSUME IInv, NEW a \in Apps, NEW T \in SUBSET Tasks, RefreshAppInfo(a, T),
         MarathonMoves, running'[a] = T, apps' = apps \cup {a}, GroupsShrink
  PROVE  IInv'
<1> USE DEF IInv
<1>1. launched \in Nat /\ launched' \in Nat /\ launched <= launched' /\ launched' <= MaxTasks
  BY RegistryAssumption DEF TypeOK, MarathonMoves
<1>2. ASSUME NEW S \in SUBSET T, ip_port_map' = Set(ip_port_map, a, KeysOf(S)),
             torn' \subseteq apps', outcome' \in Outcomes,
             DOMAIN all_task_ids' \subseteq Apps,
             \A b \in DOMAIN all_task_ids' : all_task_ids'[b] \subseteq Keys
      PROVE  TypeOK'
  <2>1. DOMAIN ip_port_map' = DOMAIN ip_port_map \cup {a}  BY <1>2 DEF Set
  <2>2. \A b \in DOMAIN ip_port_map' : ip_port_map'[b] = IF b = a THEN KeysOf(S) ELSE ip_port_map[b]
    BY <1>2 DEF Set
  <2>3. KeysOf(S) \subseteq Keys  BY KeysOfProps
  <2>4. \A b \in DOMAIN ip_port_map' : ip_port_map'[b] \subseteq Keys  BY <2>1, <2>2, <2>3 DEF TypeOK
  <2>5. apps' \subseteq Apps /\ DOMAIN ip_port_map' \subseteq apps'  BY <2>1 DEF TypeOK
  <2>6. /\ DOMAIN app_group' \subseteq Groups
        /\ \A g \in DOMAIN app_group' : app_group'[g].app \in Apps /\ app_group'[g].tasks \subseteq Keys
    BY DEF TypeOK, GroupsShrink
  <2>7. launched' \in 0..MaxTasks  BY <1>1
  <2>8. QED  BY <1>2, <2>4, <2>5, <2>6, <2>7 DEF TypeOK, MarathonMoves, Outcomes
<1>3. CASE Refresh(a, T)
  <2>1. /\ ip_port_map' = Set(ip_port_map, a, KeysOf(T))
        /\ all_task_ids' = Set(all_task_ids, a, KeysOf(T))
        /\ torn' = torn \ {a} /\ outcome' = "ok"
    BY <1>3 DEF Refresh
  <2>2. /\ DOMAIN all_task_ids' = DOMAIN all_task_ids \cup {a}
        /\ \A b \in DOMAIN all_task_ids' :
             all_task_ids'[b] = IF b = a THEN KeysOf(T) ELSE all_task_ids[b]
    BY <2>1 DEF Set
  <2>3. /\ DOMAIN ip_port_map' = DOMAIN ip_port_map \cup {a}
        /\ \A b \in DOMAIN ip_port_map' :
             ip_port_map'[b] = IF b = a THEN KeysOf(T) ELSE ip_port_map[b]
    BY <2>1 DEF Set
  <2>4. KeysOf(T) \subseteq Keys  BY KeysOfProps
  <2>5. /\ DOMAIN all_task_ids' \subseteq Apps
        /\ \A b \in DOMAIN all_task_ids' : all_task_ids'[b] \subseteq Keys
    BY <2>2, <2>4 DEF TypeOK
  <2>6. TypeOK'
    <3>1. torn' \subseteq apps' /\ outcome' \in Outcomes  BY <2>1 DEF TypeOK, Outcomes
    <3>2. QED  BY <1>2, <2>1, <2>5, <3>1
  <2>7. ListMatchesMap'
    <3> SUFFICES ASSUME NEW b \in apps' \ torn'
                 PROVE  /\ b \in DOMAIN ip_port_map' \cap DOMAIN all_task_ids'
                        /\ all_task_ids'[b] = ip_port_map'[b]
      BY DEF ListMatchesMap
    <3>1. CASE b = a  BY <2>2, <2>3, <3>1
    <3>2. CASE b # a
      <4>1. b \in apps \ torn  BY <2>1, <3>2
      <4>2. QED  BY <2>2, <2>3, <3>2, <4>1 DEF ListMatchesMap
    <3>3. QED  BY <3>1, <3>2
  <2>8. GroupsDisjoint'  BY DEF GroupsDisjoint, GroupsShrink
  <2>9. LostMembersAreDead'
    <3> SUFFICES ASSUME NEW g \in DOMAIN app_group', NEW k \in app_group'[g].tasks,
                        k \notin At(all_task_ids', app_group'[g].app),
                        TaskOf(k) \in running'[app_group'[g].app]
                 PROVE  FALSE
      BY DEF LostMembersAreDead, At
    <3>1. /\ g \in DOMAIN app_group /\ k \in app_group[g].tasks /\ k \in Keys
          /\ app_group'[g].app = app_group[g].app /\ app_group[g].app \in Apps
      BY DEF GroupsShrink, TypeOK
    <3>2. CASE app_group[g].app = a
      <4>1. k \notin KeysOf(T)  BY <2>2, <3>1, <3>2 DEF At
      <4>2. QED  BY <3>1, <3>2, <4>1, KeysOfProps
    <3>3. CASE app_group[g].app # a
      <4>1. k \notin At(all_task_ids, app_group[g].app)  BY <2>2, <3>1, <3>3 DEF At
      <4>2. TaskOf(k) \notin running[app_group[g].app]  BY <3>1, <4>1 DEF LostMembersAreDead
      <4>3. TaskOf(k) > launched  BY <3>1, <4>2 DEF MarathonMoves
      <4>4. TaskOf(k) \in 1..launched  BY <3>1 DEF KeysAreOld, TaskOf
      <4>5. QED  BY <1>1, <4>3, <4>4
    <3>4. QED  BY <3>2, <3>3
  <2>10. MembersAreListed'
    <3> SUFFICES ASSUME NEW g \in DOMAIN app_group', NEW k \in app_group'[g].tasks,
                        k \in At(ip_port_map', app_group'[g].app)
                 PROVE  k \in At(all_task_ids', app_group'[g].app)
      BY DEF MembersAreListed, At
    <3>1. /\ g \in DOMAIN app_group /\ k \in app_group[g].tasks
          /\ app_group'[g].app = app_group[g].app
      BY DEF GroupsShrink
    <3>2. CASE app_group[g].app = a  BY <2>2, <2>3, <3>1, <3>2 DEF At
    <3>3. CASE app_group[g].app # a
      <4>1. k \in At(ip_port_map, app_group[g].app)  BY <2>3, <3>1, <3>3 DEF At
      <4>2. k \in At(all_task_ids, app_group[g].app)  BY <3>1, <4>1 DEF MembersAreListed
      <4>3. QED  BY <2>2, <3>1, <3>3, <4>2 DEF At
    <3>4. QED  BY <3>2, <3>3
  <2>11. KeysAreOld'
    <3>1. \A b \in Apps : running'[b] \subseteq 1..launched'  BY DEF MarathonMoves
    <3>2. KeysOf(T) \subseteq (1..launched') \X Ports  BY <3>1 DEF KeysOf
    <3>3. 1..launched \subseteq 1..launched'  BY <1>1
    <3>4. \A b \in DOMAIN all_task_ids' : all_task_ids'[b] \subseteq (1..launched') \X Ports
      BY <2>2, <3>2, <3>3 DEF KeysAreOld
    <3>5. \A g \in DOMAIN app_group' : app_group'[g].tasks \subseteq (1..launched') \X Ports
      BY <3>3 DEF KeysAreOld, GroupsShrink
    <3>6. QED  BY <3>1, <3>4, <3>5 DEF KeysAreOld
  <2>12. QED  BY <2>6, <2>7, <2>8, <2>9, <2>10, <2>11
<1>4. CASE RefreshFails(a, T)
  <2>1. PICK S \in ((SUBSET T) \ {T}) \cup {{}} : ip_port_map' = Set(ip_port_map, a, KeysOf(S))
    BY <1>4 DEF RefreshFails
  <2>2. torn' = torn \cup {a} /\ outcome' = "failed" /\ all_task_ids' = all_task_ids
    BY <1>4 DEF RefreshFails
  <2>3. S \in SUBSET T  OBVIOUS
  <2>4. /\ DOMAIN ip_port_map' = DOMAIN ip_port_map \cup {a}
        /\ \A b \in DOMAIN ip_port_map' :
             ip_port_map'[b] = IF b = a THEN KeysOf(S) ELSE ip_port_map[b]
    BY <2>1 DEF Set
  <2>5. TypeOK'
    <3>1. torn' \subseteq apps' /\ outcome' \in Outcomes  BY <2>2 DEF TypeOK, Outcomes
    <3>2. /\ DOMAIN all_task_ids' \subseteq Apps
          /\ \A b \in DOMAIN all_task_ids' : all_task_ids'[b] \subseteq Keys
      BY <2>2 DEF TypeOK
    <3>3. QED  BY <1>2, <2>1, <2>3, <3>1, <3>2
  <2>6. ListMatchesMap'
    <3> SUFFICES ASSUME NEW b \in apps' \ torn'
                 PROVE  /\ b \in DOMAIN ip_port_map' \cap DOMAIN all_task_ids'
                        /\ all_task_ids'[b] = ip_port_map'[b]
      BY DEF ListMatchesMap
    <3>1. b \in apps \ torn /\ b # a  BY <2>2
    <3>2. QED  BY <2>2, <2>4, <3>1 DEF ListMatchesMap
  <2>7. GroupsDisjoint' /\ LostMembersAreDead' /\ KeysAreOld'  BY <2>2, ListsKept
  <2>8. MembersAreListed'
    <3> SUFFICES ASSUME NEW g \in DOMAIN app_group', NEW k \in app_group'[g].tasks,
                        k \in At(ip_port_map', app_group'[g].app)
                 PROVE  k \in At(all_task_ids', app_group'[g].app)
      BY DEF MembersAreListed, At
    <3>1. /\ g \in DOMAIN app_group /\ k \in app_group[g].tasks /\ k \in Keys
          /\ app_group'[g].app = app_group[g].app
      BY DEF GroupsShrink, TypeOK
    <3>2. CASE app_group[g].app = a
      <4>1. k \in KeysOf(S)  BY <2>4, <3>1, <3>2 DEF At
      <4>2. TaskOf(k) \in S  BY <2>3, <3>1, <4>1, KeysOfProps
      <4>3. TaskOf(k) \in running'[app_group'[g].app]  BY <2>3, <3>1, <3>2, <4>2
      <4>4. QED  BY <2>7, <4>3 DEF LostMembersAreDead, At
    <3>3. CASE app_group[g].app # a
      <4>1. k \in At(ip_port_map, app_group[g].app)  BY <2>4, <3>1, <3>3 DEF At
      <4>2. QED  BY <2>2, <3>1, <4>1 DEF MembersAreListed
    <3>4. QED  BY <3>2, <3>3
  <2>9. QED  BY <2>5, <2>6, <2>7, <2>8
<1>5. QED  BY <1>3, <1>4 DEF RefreshAppInfo

-----------------------------------------------------------------------------
LEMMA InitIInv == Init => IInv
<1> SUFFICES ASSUME Init PROVE IInv  OBVIOUS
<1>1. /\ target = [a \in Apps |-> 0] /\ running = [a \in Apps |-> {}] /\ launched = 0
      /\ ip_port_map = <<>> /\ all_task_ids = <<>> /\ app_group = <<>> /\ outcome = "ok"
      /\ apps = {} /\ torn = {}
  BY DEF Init
<1>2. DOMAIN ip_port_map = {} /\ DOMAIN all_task_ids = {} /\ DOMAIN app_group = {}
  BY <1>1
<1>3. TypeOK  BY <1>1, <1>2, RegistryAssumption DEF TypeOK
<1>4. ListMatchesMap /\ GroupsDisjoint /\ LostMembersAreDead /\ MembersAreListed /\ KeysAreOld
  BY <1>1, <1>2
  DEF ListMatchesMap, GroupsDisjoint, LostMembersAreDead, MembersAreListed, KeysAreOld
<1>5. QED  BY <1>3, <1>4 DEF IInv

LEMMA LoseKeeps == ASSUME IInv, NEW a \in Apps, NEW t \in Tasks, Lose(a, t) PROVE IInv'
<1>1. /\ running' = [running EXCEPT ![a] = @ \ {t}]
      /\ UNCHANGED <<target, launched, apps, ip_port_map, all_task_ids, app_group, torn, outcome>>
  BY DEF Lose, registry
<1>2. running' \in [Apps -> SUBSET Tasks] /\ \A b \in Apps : running'[b] \subseteq running[b]
  BY <1>1 DEF IInv, TypeOK
<1>3. MarathonMoves  BY <1>1, <1>2, LossMoves DEF IInv, TypeOK
<1>4. GroupsShrink /\ outcome' \in Outcomes  BY <1>1 DEF GroupsShrink, IInv, TypeOK, Outcomes
<1>5. QED  BY <1>1, <1>3, <1>4, BookkeepingKept

LEMMA ReplaceKeeps == ASSUME IInv, NEW a \in Apps, Replace(a) PROVE IInv'
<1>1. /\ launched' = launched + 1 /\ launched < MaxTasks
      /\ running' = [running EXCEPT ![a] = @ \cup {launched + 1}]
      /\ UNCHANGED <<target, apps, ip_port_map, all_task_ids, app_group, torn, outcome>>
  BY DEF Replace, registry
<1>2. launched \in Nat /\ MaxTasks \in Nat  BY RegistryAssumption DEF IInv, TypeOK
<1>3. launched + 1 \in Tasks /\ launched' \in launched..MaxTasks  BY <1>1, <1>2 DEF Tasks
<1>4. running' \in [Apps -> SUBSET Tasks]  BY <1>1, <1>3 DEF IInv, TypeOK
<1>5. ASSUME NEW b \in Apps, NEW t \in running'[b]
      PROVE  t \in 1..launched' /\ (t \in running[b] \/ t > launched)
  <2>1. t \in running[b] \/ t = launched + 1  BY <1>1 DEF IInv, TypeOK
  <2>2. running[b] \subseteq 1..launched  BY DEF IInv, KeysAreOld
  <2>3. QED  BY <1>1, <1>2, <2>1, <2>2
<1>6. MarathonMoves  BY <1>1, <1>3, <1>4, <1>5 DEF MarathonMoves, IInv, TypeOK
<1>7. GroupsShrink /\ outcome' \in Outcomes  BY <1>1 DEF GroupsShrink, IInv, TypeOK, Outcomes
<1>8. QED  BY <1>1, <1>6, <1>7, BookkeepingKept

LEMMA CreateAppKeeps == ASSUME IInv, NEW a \in Apps, CreateApp(a) PROVE IInv'
<1>1. 1 \in 0..MaxTasks  BY RegistryAssumption
<1>2. CASE Fails("failed")  BY <1>2, FailsKeeps DEF Outcomes
<1>3. CASE GivesUp(a, 1) /\ UNCHANGED registry
  <2>1. MarathonMoves /\ outcome' \in Outcomes  BY <1>1, <1>3, GivesUpMoves
  <2>2. UNCHANGED <<apps, ip_port_map, all_task_ids, app_group, torn>>  BY <1>3 DEF registry
  <2>3. GroupsShrink  BY <2>2 DEF GroupsShrink
  <2>4. QED  BY <2>1, <2>2, <2>3, BookkeepingKept
<1>4. CASE /\ GivesUp(a, 1)
           /\ apps' = apps \cup {a} /\ torn' = torn \cup {a}
           /\ UNCHANGED <<ip_port_map, all_task_ids, app_group>>
  <2>1. MarathonMoves /\ outcome' \in Outcomes  BY <1>1, <1>4, GivesUpMoves
  <2>2. GroupsShrink  BY <1>4 DEF GroupsShrink
  <2>3. GroupsDisjoint' /\ LostMembersAreDead' /\ KeysAreOld'  BY <1>4, <2>1, <2>2, ListsKept
  <2>4. TypeOK'
    <3>1. launched' \in 0..MaxTasks  BY <2>1, RegistryAssumption DEF IInv, TypeOK, MarathonMoves
    <3>2. QED  BY <1>4, <2>1, <3>1 DEF IInv, TypeOK, MarathonMoves, Outcomes
  <2>5. ListMatchesMap'  BY <1>4 DEF IInv, ListMatchesMap
  <2>6. MembersAreListed'  BY <1>4 DEF IInv, MembersAreListed
  <2>7. QED  BY <2>3, <2>4, <2>5, <2>6 DEF IInv
<1>5. CASE /\ apps' = apps \cup {a}
           /\ \E T \in SUBSET Tasks : Reach(a, 1, T) /\ RefreshAppInfo(a, T)
           /\ UNCHANGED app_group
  <2>1. PICK T \in SUBSET Tasks : Reach(a, 1, T) /\ RefreshAppInfo(a, T)  BY <1>5
  <2>2. MarathonMoves /\ running'[a] = T  BY <1>1, <2>1, ReachMoves
  <2>3. GroupsShrink  BY <1>5 DEF GroupsShrink
  <2>4. QED  BY <1>5, <2>1, <2>2, <2>3, RefreshKeeps
<1>6. QED  BY <1>2, <1>3, <1>4, <1>5 DEF CreateApp

LEMMA ScaleAppKeeps == ASSUME IInv, NEW a \in Apps, NEW n \in 1..MaxScale, ScaleApp(a, n) PROVE IInv'
<1>1. n \in 0..MaxTasks  BY RegistryAssumption
<1>2. CASE Fails("failed")  BY <1>2, FailsKeeps DEF Outcomes
<1>3. CASE GivesUp(a, n) /\ UNCHANGED registry
  <2>1. MarathonMoves /\ outcome' \in Outcomes  BY <1>1, <1>3, GivesUpMoves
  <2>2. UNCHANGED <<apps, ip_port_map, all_task_ids, app_group, torn>>  BY <1>3 DEF registry
  <2>3. GroupsShrink  BY <2>2 DEF GroupsShrink
  <2>4. QED  BY <2>1, <2>2, <2>3, BookkeepingKept
<1>4. CASE /\ a \in apps
           /\ \E T \in SUBSET Tasks : Reach(a, n, T) /\ RefreshAppInfo(a, T)
           /\ UNCHANGED <<apps, app_group>>
  <2>1. PICK T \in SUBSET Tasks : Reach(a, n, T) /\ RefreshAppInfo(a, T)  BY <1>4
  <2>2. MarathonMoves /\ running'[a] = T  BY <1>1, <2>1, ReachMoves
  <2>3. GroupsShrink /\ apps' = apps \cup {a}  BY <1>4 DEF GroupsShrink
  <2>4. QED  BY <2>1, <2>2, <2>3, RefreshKeeps
<1>5. QED  BY <1>2, <1>3, <1>4 DEF ScaleApp

LEMMA DeleteAppKeeps == ASSUME IInv, NEW a \in Apps, DeleteApp(a) PROVE IInv'
<1>1. /\ apps' = apps \ {a} /\ torn' = torn \ {a}
      /\ ip_port_map' = Drop(ip_port_map, {a})
      /\ UNCHANGED <<all_task_ids, app_group>>
  BY DEF DeleteApp
<1>2. MarathonMoves /\ outcome' \in Outcomes
  <2>1. ASSUME NEW n \in 0..target[a], GivesUp(a, n) PROVE MarathonMoves /\ outcome' \in Outcomes
    <3>1. target[a] \in 0..MaxTasks  BY DEF IInv, TypeOK
    <3>2. n \in 0..MaxTasks  BY <3>1, RegistryAssumption
    <3>3. QED  BY <2>1, <3>2, GivesUpMoves
  <2>2. CASE /\ target' = [target EXCEPT ![a] = 0]
             /\ running' = [running EXCEPT ![a] = {}]
             /\ outcome' = "ok"
             /\ UNCHANGED launched
    <3>1. target' \in [Apps -> 0..MaxTasks]  BY <2>2, RegistryAssumption DEF IInv, TypeOK
    <3>2. running' \in [Apps -> SUBSET Tasks] /\ \A b \in Apps : running'[b] \subseteq running[b]
      BY <2>2 DEF IInv, TypeOK
    <3>3. QED  BY <2>2, <3>1, <3>2, LossMoves DEF Outcomes
  <2>3. QED  BY <2>1, <2>2 DEF DeleteApp
<1>3. GroupsShrink  BY <1>1 DEF GroupsShrink
<1>4. GroupsDisjoint' /\ LostMembersAreDead' /\ KeysAreOld'  BY <1>1, <1>2, <1>3, ListsKept
<1>5. /\ DOMAIN ip_port_map' = DOMAIN ip_port_map \ {a}
      /\ \A b \in DOMAIN ip_port_map' : ip_port_map'[b] = ip_port_map[b]
  BY <1>1 DEF Drop
<1>6. TypeOK'
  <2>1. launched' \in 0..MaxTasks  BY <1>2, RegistryAssumption DEF IInv, TypeOK, MarathonMoves
  <2>2. QED  BY <1>1, <1>2, <1>5, <2>1 DEF IInv, TypeOK, MarathonMoves, Outcomes
<1>7. ListMatchesMap'  BY <1>1, <1>5 DEF IInv, ListMatchesMap
<1>8. MembersAreListed'  BY <1>1, <1>5 DEF IInv, MembersAreListed, At
<1>9. QED  BY <1>4, <1>6, <1>7, <1>8 DEF IInv

LEMMA CreateGroupKeeps ==
  ASSUME IInv, NEW a \in Apps, NEW g \in Groups, NEW n \in Nat, CreateGroup(g, a, n)
  PROVE  IInv'
<1>1. CASE Fails("failed")  BY <1>1, FailsKeeps DEF Outcomes
<1>2. CASE ~Fails("failed")
  <2>1. PICK S \in SUBSET At(all_task_ids, a) :
          /\ Enter(g, a, S) /\ S \cap Grouped = {}
          /\ outcome' \in Outcomes
    <3>1. CASE a \notin DOMAIN all_task_ids /\ Enter(g, a, {}) /\ outcome' = "failed"
      <4>1. {} \in SUBSET At(all_task_ids, a) /\ {} \cap Grouped = {}  OBVIOUS
      <4>2. QED  BY <3>1, <4>1 DEF Outcomes
    <3>2. CASE Enter(g, a, {}) /\ outcome' = "stuck"
      <4>1. {} \in SUBSET At(all_task_ids, a) /\ {} \cap Grouped = {}  OBVIOUS
      <4>2. QED  BY <3>2, <4>1 DEF Outcomes
    <3>3. CASE /\ a \in DOMAIN all_task_ids
               /\ \E S \in SUBSET Ungrouped(a) : Enter(g, a, S)
               /\ outcome' = "ok"
      <4>1. PICK S \in SUBSET Ungrouped(a) : Enter(g, a, S)  BY <3>3
      <4>2. S \in SUBSET At(all_task_ids, a) /\ S \cap Grouped = {}  BY <3>3 DEF Ungrouped, At
      <4>3. QED  BY <3>3, <4>1, <4>2 DEF Outcomes
    <3>4. QED  BY <1>2, <3>1, <3>2, <3>3 DEF CreateGroup
  <2>2. /\ a \in apps /\ g \notin DOMAIN app_group
        /\ UNCHANGED <<target, running, launched, apps, ip_port_map, all_task_ids, torn>>
    BY <1>2 DEF CreateGroup, marathon
  <2>3. /\ DOMAIN app_group' = DOMAIN app_group \cup {g}
        /\ \A h \in DOMAIN app_group : app_group'[h] = app_group[h]
        /\ app_group'[g].app = a /\ app_group'[g].tasks = S
    BY <2>1, <2>2 DEF Enter, Set
  <2>4. S \subseteq Keys /\ S \subseteq (1..launched) \X Ports
    BY DEF IInv, TypeOK, KeysAreOld, At
  <2>5. \A h \in DOMAIN app_group : app_group[h].tasks \cap S = {}  BY <2>1 DEF Grouped
  <2>6. TypeOK'
    <3>1. DOMAIN app_group' \subseteq Groups  BY <2>3 DEF IInv, TypeOK
    <3>2. \A h \in DOMAIN app_group' : app_group'[h].app \in Apps /\ app_group'[h].tasks \subseteq Keys
      BY <2>3, <2>4 DEF IInv, TypeOK
    <3>3. QED  BY <2>1, <2>2, <3>1, <3>2 DEF IInv, TypeOK, Outcomes
  <2>7. ListMatchesMap'  BY <2>2 DEF IInv, ListMatchesMap
  <2>8. GroupsDisjoint'
    <3> SUFFICES ASSUME NEW h \in DOMAIN app_group', NEW i \in DOMAIN app_group', h # i
                 PROVE  app_group'[h].tasks \cap app_group'[i].tasks = {}
      BY DEF GroupsDisjoint
    <3>1. CASE h = g  BY <2>3, <2>5, <3>1
    <3>2. CASE i = g  BY <2>3, <2>5, <3>2
    <3>3. CASE h # g /\ i # g  BY <2>3, <3>3 DEF IInv, GroupsDisjoint
    <3>4. QED  BY <3>1, <3>2, <3>3
  <2>9. LostMembersAreDead'  BY <2>2, <2>3 DEF IInv, LostMembersAreDead
  <2>10. MembersAreListed'
    <3>1. S \subseteq At(all_task_ids, a)  OBVIOUS
    <3>2. QED  BY <2>2, <2>3, <3>1 DEF IInv, MembersAreListed
  <2>11. KeysAreOld'  BY <2>2, <2>3, <2>4 DEF IInv, KeysAreOld
  <2>12. QED  BY <2>6, <2>7, <2>8, <2>9, <2>10, <2>11 DEF IInv
<1>3. QED  BY <1>1, <1>2

LEMMA RemoveUnresponsiveKeeps ==
  ASSUME IInv, NEW a \in Apps, NEW s \in Scopes, RemoveUnresponsive(a, s)
  PROVE  IInv'
<1>1. CASE Fails("failed")  BY <1>1, FailsKeeps DEF Outcomes
<1>2. CASE ~Fails("failed")
  <2>1. PICK bad : Strike(a, bad)  BY <1>2 DEF RemoveUnresponsive
  <2>2. /\ outcome' = "ok"
        /\ UNCHANGED <<target, running, launched, apps, torn>>
    BY <1>2 DEF RemoveUnresponsive, marathon
  <2>3. /\ DOMAIN ip_port_map' = DOMAIN ip_port_map
        /\ \A b \in DOMAIN ip_port_map :
             ip_port_map'[b] = IF b = a THEN ip_port_map[b] \ bad ELSE ip_port_map[b]
    BY <2>1 DEF Strike
  <2>4. /\ DOMAIN all_task_ids' = DOMAIN all_task_ids
        /\ \A b \in DOMAIN all_task_ids :
             all_task_ids'[b] = IF b = a THEN all_task_ids[b] \ bad ELSE all_task_ids[b]
    BY <2>1 DEF Strike
  <2>5. /\ DOMAIN app_group' = DOMAIN app_group
        /\ \A g \in DOMAIN app_group : /\ app_group'[g].tasks = app_group[g].tasks \ bad
                                       /\ app_group'[g].app = app_group[g].app
    BY <2>1 DEF Strike, Without
  <2>6. TypeOK'
    <3>1. \A b \in DOMAIN ip_port_map' : ip_port_map'[b] \subseteq Keys  BY <2>3 DEF IInv, TypeOK
    <3>2. \A b \in DOMAIN all_task_ids' : all_task_ids'[b] \subseteq Keys  BY <2>4 DEF IInv, TypeOK
    <3>3. QED  BY <2>2, <2>3, <2>4, <2>5, <3>1, <3>2 DEF IInv, TypeOK
  <2>7. ListMatchesMap'  BY <2>2, <2>3, <2>4 DEF IInv, ListMatchesMap
  <2>8. GroupsDisjoint'  BY <2>5 DEF IInv, GroupsDisjoint
  <2>9. LostMembersAreDead'
    <3> SUFFICES ASSUME NEW g \in DOMAIN app_group, NEW k \in app_group[g].tasks \ bad,
                        k \notin At(all_task_ids', app_group[g].app)
                 PROVE  TaskOf(k) \notin running[app_group[g].app]
      BY <2>2, <2>5 DEF LostMembersAreDead, At
    <3>1. k \notin At(all_task_ids, app_group[g].app)  BY <2>4 DEF At
    <3>2. QED  BY <3>1 DEF IInv, LostMembersAreDead
  <2>10. MembersAreListed'
    <3> SUFFICES ASSUME NEW g \in DOMAIN app_group, NEW k \in app_group[g].tasks \ bad,
                        k \in At(ip_port_map', app_group[g].app)
                 PROVE  k \in At(all_task_ids', app_group[g].app)
      BY <2>5 DEF MembersAreListed, At
    <3>1. k \in At(ip_port_map, app_group[g].app)  BY <2>3 DEF At
    <3>2. k \in At(all_task_ids, app_group[g].app)  BY <3>1 DEF IInv, MembersAreListed
    <3>3. QED  BY <2>4, <3>2 DEF At
  <2>11. KeysAreOld'  BY <2>2, <2>4, <2>5 DEF IInv, KeysAreOld
  <2>12. QED  BY <2>6, <2>7, <2>8, <2>9, <2>10, <2>11 DEF IInv
<1>3. QED  BY <1>1, <1>2

LEMMA DeleteGroupsKeeps == ASSUME IInv, NEW G \in SUBSET Groups, DeleteGroups(G) PROVE IInv'
<1>1. CASE Fails("failed")  BY <1>1, FailsKeeps DEF Outcomes
<1>2. CASE ~Fails("failed")
  <2>1. /\ app_group' = Drop(app_group, G) /\ outcome' = "ok"
        /\ UNCHANGED <<target, running, launched, apps, ip_port_map, all_task_ids, torn>>
    BY <1>2 DEF DeleteGroups, marathon
  <2>2. GroupsShrink  BY <2>1 DEF GroupsShrink, Drop
  <2>3. MarathonMoves  BY <2>1, LossMoves DEF IInv, TypeOK
  <2>4. QED  BY <2>1, <2>2, <2>3, BookkeepingKept DEF Outcomes
<1>3. QED  BY <1>1, <1>2

LEMMA DeleteTasksKeeps ==
  ASSUME IInv, NEW g \in Groups, NEW n \in Nat, DeleteTasks(g, n)
  PROVE  IInv'
<1> DEFINE a == app_group[g].app
<1>1. g \in DOMAIN app_group /\ a \in Apps /\ UNCHANGED <<target, launched, apps>>
  BY DEF DeleteTasks, IInv, TypeOK
<1>2. PICK P \in SUBSET app_group[g].tasks :
        LET killed == {TaskOf(k) : k \in P} IN
        /\ running' = [running EXCEPT ![a] = @ \ killed]
        /\ \/ /\ a \in apps
              /\ app_group' = Set(app_group, g, Without(g, P))
              /\ RefreshAppInfo(a, running[a] \ killed)
           \/ /\ app_group' = Set(app_group, g, Without(g, P))
              /\ outcome' = "failed"
              /\ UNCHANGED <<ip_port_map, all_task_ids, torn>>
           \/ /\ \E k \in app_group[g].tasks \ P : app_group' = Set(app_group, g, Without(g, P \cup {k}))
              /\ outcome' = "failed"
              /\ UNCHANGED <<ip_port_map, all_task_ids, torn>>
  BY DEF DeleteTasks
<1> DEFINE T == running[a] \ {TaskOf(k) : k \in P}
<1>3. /\ running' = [running EXCEPT ![a] = T]
      /\ running' \in [Apps -> SUBSET Tasks] /\ running'[a] = T /\ T \in SUBSET Tasks
      /\ \A b \in Apps : running'[b] \subseteq running[b]
  BY <1>1, <1>2 DEF IInv, TypeOK
<1>4. MarathonMoves  BY <1>1, <1>3, LossMoves DEF IInv, TypeOK
<1>5. GroupsShrink
  <2>1. ASSUME NEW gone, app_group' = Set(app_group, g, Without(g, gone)) PROVE GroupsShrink
    <3>1. DOMAIN app_group' = DOMAIN app_group  BY <1>1, <2>1 DEF Set
    <3>2. \A h \in DOMAIN app_group : app_group'[h] = IF h = g THEN Without(g, gone) ELSE app_group[h]
      BY <1>1, <2>1 DEF Set
    <3>3. QED  BY <3>1, <3>2 DEF GroupsShrink, Without
  <2>2. QED  BY <1>2, <2>1
<1>6. CASE a \in apps /\ RefreshAppInfo(a, T)
  <2>1. apps' = apps \cup {a}  BY <1>1, <1>6
  <2>2. QED  BY <1>1, <1>3, <1>4, <1>5, <1>6, <2>1, RefreshKeeps
<1>7. CASE outcome' = "failed" /\ UNCHANGED <<ip_port_map, all_task_ids, torn>>
  BY <1>1, <1>4, <1>5, <1>7, BookkeepingKept DEF Outcomes
<1>8. QED  BY <1>2, <1>6, <1>7

LEMMA NextIInv == IInv /\ [Next]_vars => IInv'
<1> SUFFICES ASSUME IInv, [Next]_vars PROVE IInv'  OBVIOUS
<1>1. CASE UNCHANGED vars
  <2>1. Fails(outcome) /\ outcome \in Outcomes
    BY <1>1 DEF vars, Fails, IInv, TypeOK, Outcomes
  <2>2. QED  BY <2>1, FailsKeeps
<1>2. CASE Marathon  BY <1>2, LoseKeeps, ReplaceKeeps DEF Marathon
<1>3. ASSUME NEW a \in Apps, NEW s \in Scopes, ForEach(a, s) PROVE IInv'
  <2>1. Fails("ok") \/ Fails("failed")  BY <1>3 DEF ForEach
  <2>2. QED  BY <2>1, FailsKeeps DEF Outcomes
<1>4. ASSUME NEW g \in Groups, Execute(g) PROVE IInv'
  <2>1. Fails("ok") \/ Fails("failed")  BY <1>4 DEF Execute
  <2>2. QED  BY <2>1, FailsKeeps DEF Outcomes
<1>5. CASE Script
  <2>1. 1..MaxGroup \subseteq Nat  BY RegistryAssumption
  <2>2. \A g \in Groups : {g} \in SUBSET Groups  OBVIOUS
  <2>3. DOMAIN app_group \in SUBSET Groups  BY DEF IInv, TypeOK
  <2>4. QED
    BY <1>3, <1>4, <1>5, <2>1, <2>2, <2>3, CreateAppKeeps, DeleteAppKeeps, ScaleAppKeeps,
       CreateGroupKeeps, RemoveUnresponsiveKeeps, DeleteGroupsKeeps, DeleteTasksKeeps
    DEF Script
<1>6. QED  BY <1>1, <1>2, <1>5 DEF Next

LEMMA Inductive == Spec => []IInv
<1>1. QED  BY InitIInv, NextIInv, PTL DEF Spec

\* For any apps, groups and ports, every variable keeps its type.
THEOREM TypeCorrect == Spec => []TypeOK
<1>1. IInv => TypeOK  BY DEF IInv
<1>2. QED  BY <1>1, Inductive, PTL

\* For any apps, groups and ports, no instance is ever in two groups.
THEOREM GroupsDisjointAlways == Spec => []GroupsDisjoint
<1>1. IInv => GroupsDisjoint  BY DEF IInv
<1>2. QED  BY <1>1, Inductive, PTL

\* For any apps, groups and ports, list and map of an application agree, unless its
\* last refresh raised.
THEOREM ListMatchesMapAlways == Spec => []ListMatchesMap
<1>1. IInv => ListMatchesMap  BY DEF IInv
<1>2. QED  BY <1>1, Inductive, PTL

\* For any apps, groups and ports, a member the list of its application has lost is
\* dead, also after a refresh that raised halfway.
THEOREM LostMembersAreDeadAlways == Spec => []LostMembersAreDead
<1>1. IInv => LostMembersAreDead  BY DEF IInv
<1>2. QED  BY <1>1, Inductive, PTL

\* For any apps, groups and ports, a member in the map of its application is in the
\* list, also after a refresh that raised halfway.
THEOREM MembersAreListedAlways == Spec => []MembersAreListed
<1>1. IInv => MembersAreListed  BY DEF IInv
<1>2. QED  BY <1>1, Inductive, PTL
=============================================================================
