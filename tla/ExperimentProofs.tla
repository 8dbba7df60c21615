-------------------------- MODULE ExperimentProofs --------------------------
(***************************************************************************)
(* Proof that an experiment leaves nothing behind and that its links are   *)
(* those of the configuration, for every number of nodes, every            *)
(* configuration and any number of failures; and that the evaluation of    *)
(* its logs (ExperimentStats, in the last section) tells what happened.    *)
(***************************************************************************)
EXTENDS Experiment, ExperimentStats, FiniteSetTheorems, WellFoundedInduction,
        TLAPS

IsTask(t) == t = [op |-> t.op, on |-> t.on, step |-> t.step, seen |-> t.seen]

(* Workers are given nodes and links, so no call of theirs cleans up for   *)
(* the main thread.                                                        *)
TasksOK ==
    \A t \in tasks :
        /\ IsTask(t)
        /\ t.op = "cleanup" \/ t.on \in Nodes \cup Edges

(* A network is made only when the containers of its ends are known.       *)
NetworksOK == networks # {} => known # {}

(* Until main cleans up nobody has combined the logs, and as long as no    *)
(* worker has given up every container is known.                           *)
BeforeCleanup ==
    stage \notin {"cleanup", "end"} =>
        /\ ~combined
        /\ \A t \in tasks : t.on # Main
        /\ broken \/ (containers = known /\ \A t \in tasks : t.op # "cleanup")

Clean == containers = {} /\ (networks = {} \/ (broken /\ ~combined))

(* Main cleans up alone unless it was interrupted.                         *)
Cleaning(t) ==
    /\ t.op = "cleanup" /\ t.on = Main
    /\ ~combined
    /\ \/ t.step \in {"rules", "containers"} /\ (broken \/ containers = known)
       \/ t.step = "networks" /\ containers = {} /\ attached = {}

DuringCleanup ==
    stage = "cleanup" /\ ~stopped =>
        \/ tasks = {} /\ Clean
        \/ \E t : tasks = {t} /\ Cleaning(t)

AtEnd == stage = "end" => tasks = {} /\ (stopped \/ Clean)

IInv ==
    /\ TasksOK /\ NetworksOK /\ BeforeCleanup /\ DuringCleanup /\ AtEnd
    /\ applied \in Nat

-----------------------------------------------------------------------------
(* Operators.                                                              *)

LEMMA Configuration ==
    /\ Planned \subseteq Edges
    /\ \A i \in DOMAIN Mods : Mods[i].add \subseteq Edges /\ Mods[i].erase \subseteq Edges
<1> DEFINE M == [add : SUBSET Edges, erase : SUBSET Edges]
<1>0. Mods \in Seq(M)
  BY ExperimentAssumption, Zenon
<1> HIDE DEF M
<1>1. \A i \in DOMAIN Mods : Mods[i] \in M
  BY <1>0
<1>2. \A i \in DOMAIN Mods : Mods[i].add \subseteq Edges /\ Mods[i].erase \subseteq Edges
  BY <1>1 DEF M
<1>3. ASSUME NEW e \in Planned PROVE e \in Edges
  <2>1. e \in InitEdges \cup Custom \/ \E i \in DOMAIN Mods : e \in Mods[i].add
    BY Zenon DEF Planned
  <2> QED
    BY <2>1, <1>2, ExperimentAssumption, Zenon
<1> QED
  BY <1>2, <1>3

LEMMA TaskFields ==
    ASSUME NEW op, NEW on, NEW step
    PROVE  /\ Task(op, on, step).op = op
           /\ Task(op, on, step).on = on
           /\ Task(op, on, step).step = step
           /\ IsTask(Task(op, on, step))
BY DEF Task, IsTask

LEMMA CallFields ==
    ASSUME NEW op, NEW S, NEW t \in Calls(op, S)
    PROVE  IsTask(t) /\ t.op = op /\ t.on \in S
BY TaskFields DEF Calls

LEMMA NextTask ==
    ASSUME NEW t, IsTask(t), NEW step, NEW seen
    PROVE  /\ IsTask(Onward(t, step, seen))
           /\ Onward(t, step, seen).op = t.op
           /\ Onward(t, step, seen).on = t.on
           /\ Onward(t, step, seen).step = step
BY DEF IsTask, Onward

LEMMA MainIsNoWorker == Main \notin Nodes \cup Edges
BY ExperimentAssumption

(* What follows a command of cleanup.                                      *)
LEMMA Commands ==
    ASSUME NEW t, CommandDone(t), t.step \in {"rules", "containers", "networks"}
    PROVE  /\ t.step = "rules" => GoesOn(t, "containers") /\ UNCHANGED combined
           /\ t.step = "containers" => GoesOn(t, "networks") /\ UNCHANGED combined
           /\ t.step = "networks" => Ended(t) /\ combined' = (combined \/ t.on = Main)
<1> DEFINE i == CHOOSE i \in 1 .. 3 : CleanupOrder[i] = t.step
<1>1. \E j \in 1 .. 3 : CleanupOrder[j] = t.step
  BY DEF CleanupOrder
<1>2. i \in 1 .. 3 /\ CleanupOrder[i] = t.step
  BY <1>1
<1>3. /\ t.step = "rules" => i = 1
      /\ t.step = "containers" => i = 2
      /\ t.step = "networks" => i = 3
  BY <1>2 DEF CleanupOrder
<1>4. IF i = 3 THEN Ended(t) /\ combined' = (combined \/ t.on = Main)
      ELSE GoesOn(t, CleanupOrder[i + 1]) /\ UNCHANGED combined
  BY DEF CommandDone
<1>5. CleanupOrder[2] = "containers" /\ CleanupOrder[3] = "networks"
  BY DEF CleanupOrder
<1> HIDE DEF i
<1>6. ASSUME i = 1 PROVE GoesOn(t, "containers") /\ UNCHANGED combined
  BY <1>4, <1>5, <1>6
<1>7. ASSUME i = 2 PROVE GoesOn(t, "networks") /\ UNCHANGED combined
  BY <1>4, <1>5, <1>7
<1>8. ASSUME i = 3 PROVE Ended(t) /\ combined' = (combined \/ t.on = Main)
  BY <1>4, <1>8
<1> QED
  BY <1>3, <1>6, <1>7, <1>8

-----------------------------------------------------------------------------
(* Workers.                                                                *)

(* What t may become: itself further on, or the cleanup of a worker that   *)
(* gives up.                                                               *)
Follows(t, u) ==
    /\ IsTask(u) /\ u.on = t.on
    /\ u.op = t.op \/ (u.op = "cleanup" /\ broken')

(* A step of a worker that is not cleaning up.                             *)
LEMMA WorkerStep ==
    ASSUME IInv, NEW t \in tasks, t.op # "cleanup",
           UNCHANGED <<stage, combined, stopped, applied>>,
           \A u \in tasks' : u \in tasks \/ Follows(t, u),
           broken => broken',
           broken' \/ (containers = known => containers' = known'),
           NetworksOK'
    PROVE  IInv'
<1>1. t.on \in Nodes \cup Edges
  BY DEF IInv, TasksOK
<1>2. TasksOK'
  <2> SUFFICES ASSUME NEW u \in tasks'
               PROVE  IsTask(u) /\ (u.op = "cleanup" \/ u.on \in Nodes \cup Edges)
    BY DEF TasksOK, IsTask
  <2>1. CASE u \in tasks
    BY <2>1 DEF IInv, TasksOK
  <2>2. CASE Follows(t, u)
    BY <2>2, <1>1 DEF Follows
  <2> QED
    BY <2>1, <2>2
<1>3. BeforeCleanup'
  <2> SUFFICES ASSUME stage \notin {"cleanup", "end"}
               PROVE  /\ ~combined
                      /\ \A u \in tasks' : u.on # Main
                      /\ broken' \/ (containers' = known' /\ \A u \in tasks' : u.op # "cleanup")
    BY DEF BeforeCleanup
  <2>1. /\ ~combined
        /\ \A u \in tasks : u.on # Main
        /\ broken \/ (containers = known /\ \A u \in tasks : u.op # "cleanup")
    BY DEF IInv, BeforeCleanup
  <2>2. \A u \in tasks' : u.on # Main
    BY <2>1, <1>1, MainIsNoWorker DEF Follows
  <2>3. broken' \/ (containers' = known' /\ \A u \in tasks' : u.op # "cleanup")
    BY <2>1 DEF Follows
  <2> QED
    BY <2>1, <2>2, <2>3
<1>4. stage # "end" /\ (stage = "cleanup" => stopped)
  BY DEF IInv, AtEnd, DuringCleanup, Cleaning
<1> QED
  BY <1>2, <1>3, <1>4 DEF IInv, DuringCleanup, AtEnd

LEMMA Gives ==
    ASSUME NEW t, GivesUp(t)
    PROVE  /\ \A u \in tasks' : u \in tasks \/ Follows(t, u)
           /\ broken'
BY TaskFields DEF GivesUp, Follows

LEMMA Ends_ ==
    ASSUME NEW t, Ended(t)
    PROVE  \A u \in tasks' : u \in tasks \/ Follows(t, u)
BY DEF Ended

LEMMA Goes ==
    ASSUME NEW t, IsTask(t), NEW step, NEW seen, Becomes(t, step, seen)
    PROVE  \A u \in tasks' : u \in tasks \/ Follows(t, u)
BY NextTask DEF Becomes, Follows

LEMMA Workers ==
    ASSUME IInv, NEW t \in tasks,
           \/ create_container(t)
           \/ CreateNetwork(t) \/ ConnectNetwork(t) \/ SetDown(t) \/ AddShaper(t)
           \/ FindInterfaces(t) \/ SetLink(t)
           \/ run_binary_in_device(t)
    PROVE  IInv'
<1>1. IsTask(t)
  BY DEF IInv, TasksOK
<1>2. ASSUME create_container(t) PROVE IInv'
  <2>1. \A u \in tasks' : u \in tasks \/ Follows(t, u)
    BY <1>2, Gives, Ends_ DEF create_container
  <2>2. NetworksOK'
    BY <1>2 DEF IInv, NetworksOK, create_container
  <2>3. broken => broken'
    BY <1>2, Gives DEF create_container
  <2>4. broken' \/ (containers = known => containers' = known')
    BY <1>2, Gives DEF create_container
  <2> QED
    BY <1>2, <2>1, <2>2, <2>3, <2>4, WorkerStep DEF create_container
<1>3. ASSUME CreateNetwork(t) PROVE IInv'
  <2>1. \A u \in tasks' : u \in tasks \/ Follows(t, u)
    BY <1>1, <1>3, Gives, Ends_, Goes DEF CreateNetwork, GoesOn
  <2>2. NetworksOK'
    BY <1>3 DEF IInv, NetworksOK, CreateNetwork, Ends
  <2>3. (broken => broken') /\ UNCHANGED <<containers, known>>
    BY <1>3, Gives DEF CreateNetwork
  <2> QED
    BY <1>3, <2>1, <2>2, <2>3, WorkerStep DEF CreateNetwork
<1>4. ASSUME ConnectNetwork(t) PROVE IInv'
  <2>1. \A u \in tasks' : u \in tasks \/ Follows(t, u)
    BY <1>1, <1>4, Gives, Goes DEF ConnectNetwork
  <2>2. NetworksOK' /\ UNCHANGED <<containers, known>>
    BY <1>4 DEF IInv, NetworksOK, ConnectNetwork, runner
  <2>3. broken => broken'
    BY <1>4, Gives DEF ConnectNetwork
  <2> QED
    BY <1>4, <2>1, <2>2, <2>3, WorkerStep DEF ConnectNetwork
<1>5. ASSUME SetDown(t) PROVE IInv'
  <2>1. \A u \in tasks' : u \in tasks \/ Follows(t, u)
    BY <1>1, <1>5, Gives, Goes DEF SetDown
  <2>2. NetworksOK' /\ UNCHANGED <<containers, known>>
    BY <1>5 DEF IInv, NetworksOK, SetDown
  <2>3. broken => broken'
    BY <1>5, Gives DEF SetDown
  <2> QED
    BY <1>5, <2>1, <2>2, <2>3, WorkerStep DEF SetDown
<1>6. ASSUME AddShaper(t) PROVE IInv'
  <2>1. \A u \in tasks' : u \in tasks \/ Follows(t, u)
    BY <1>6, Gives, Ends_ DEF AddShaper
  <2>2. NetworksOK' /\ UNCHANGED <<containers, known>>
    BY <1>6 DEF IInv, NetworksOK, AddShaper, docker
  <2>3. broken => broken'
    BY <1>6, Gives DEF AddShaper
  <2> QED
    BY <1>6, <2>1, <2>2, <2>3, WorkerStep DEF AddShaper
<1>7. ASSUME FindInterfaces(t) PROVE IInv'
  <2>1. \A u \in tasks' : u \in tasks \/ Follows(t, u)
    BY <1>1, <1>7, Ends_, Goes DEF FindInterfaces, GoesOn, Misses
  <2>2. NetworksOK' /\ UNCHANGED <<containers, known, broken>>
    BY <1>7 DEF IInv, NetworksOK, FindInterfaces, docker
  <2> QED
    BY <1>7, <2>1, <2>2, WorkerStep DEF FindInterfaces
<1>8. ASSUME SetLink(t) PROVE IInv'
  <2>1. \A u \in tasks' : u \in tasks \/ Follows(t, u)
    BY <1>1, <1>8, Ends_, Goes DEF SetLink, GoesOn, Misses
  <2>2. NetworksOK' /\ UNCHANGED <<containers, known, broken>>
    BY <1>8 DEF IInv, NetworksOK, SetLink
  <2> QED
    BY <1>8, <2>1, <2>2, WorkerStep DEF SetLink
<1>9. ASSUME run_binary_in_device(t) PROVE IInv'
  <2>1. \A u \in tasks' : u \in tasks \/ Follows(t, u)
    BY <1>9, Ends_ DEF run_binary_in_device
  <2>2. NetworksOK' /\ UNCHANGED <<containers, known, broken, stopped>>
    BY <1>9 DEF IInv, NetworksOK, run_binary_in_device, runner, history
  <2> QED
    BY <1>9, <2>1, <2>2, WorkerStep DEF run_binary_in_device
<1> QED
  BY <1>2, <1>3, <1>4, <1>5, <1>6, <1>7, <1>8, <1>9

-----------------------------------------------------------------------------
(* Cleanup.                                                                *)

(* A worker that gave up cleans up while others go on, or everybody does   *)
(* after an interrupt: nothing is promised yet.                            *)
LEMMA WorkerCleans ==
    ASSUME IInv, NEW t \in tasks, t.op = "cleanup",
           t.step \in {"rules", "containers", "networks"},
           stage # "cleanup" \/ stopped,
           CommandDone(t) \/ CommandFails(t),
           UNCHANGED <<stage, known, broken, stopped, applied>>,
           networks' \subseteq networks
    PROVE  IInv'
<1>1. stage # "end"
  BY DEF IInv, AtEnd
<1>2. IsTask(t)
  BY DEF IInv, TasksOK
<1>3. \A u \in tasks' : u \in tasks \/ (IsTask(u) /\ u.op = "cleanup" /\ u.on = t.on)
  BY <1>2, Commands, NextTask DEF CommandFails, Ended, GoesOn, Becomes
<1>4. TasksOK'
  BY <1>3 DEF IInv, TasksOK, IsTask
<1>5. BeforeCleanup'
  <2> SUFFICES ASSUME stage \notin {"cleanup", "end"}
               PROVE  /\ ~combined'
                      /\ \A u \in tasks' : u.on # Main
                      /\ broken
    BY DEF BeforeCleanup
  <2>1. ~combined /\ broken /\ \A u \in tasks : u.on # Main
    BY DEF IInv, BeforeCleanup
  <2>2. ~combined'
    BY <2>1, Commands, Zenon DEF CommandFails
  <2> QED
    BY <2>1, <2>2, <1>3
<1> QED
  BY <1>1, <1>4, <1>5 DEF IInv, NetworksOK, DuringCleanup, AtEnd

LEMMA Cleans ==
    ASSUME IInv, NEW t \in tasks, ClearRules(t) \/ RemoveContainers(t) \/ RemoveNetworks(t)
    PROVE  IInv'
<1>1. /\ t.op = "cleanup"
      /\ t.step \in {"rules", "containers", "networks"}
      /\ CommandDone(t) \/ CommandFails(t)
      /\ UNCHANGED <<stage, known, broken, stopped, applied>>
      /\ networks' \subseteq networks
  BY DEF ClearRules, RemoveContainers, RemoveNetworks, docker, runner, history
<1>2. CASE stage # "cleanup" \/ stopped
  BY <1>1, <1>2, WorkerCleans
<1>3. CASE stage = "cleanup" /\ ~stopped
  <2>1. tasks = {t} /\ Cleaning(t)
    BY <1>3 DEF IInv, DuringCleanup
  <2>2. IsTask(t)
    BY DEF IInv, TasksOK
  <2> DEFINE u(step) == Onward(t, step, t.seen)
  <2>3. \A step : GoesOn(t, step) =>
          /\ tasks' = {u(step)} /\ IsTask(u(step))
          /\ u(step).op = "cleanup" /\ u(step).on = Main /\ u(step).step = step
    BY <2>1, <2>2, NextTask DEF GoesOn, Becomes, Cleaning
  <2>4. Ended(t) => tasks' = {}
    BY <2>1 DEF Ended
  <2> HIDE DEF u
  <2>5. SUFFICES TasksOK' /\ NetworksOK' /\ DuringCleanup'
    BY <1>1, <1>3 DEF IInv, BeforeCleanup, AtEnd
  <2>6. NetworksOK'
    BY <1>1 DEF IInv, NetworksOK
  <2>7. CASE ClearRules(t)
    <3>1. t.step = "rules" /\ UNCHANGED <<containers, known, broken, attached, shapers>>
      BY <2>7 DEF ClearRules, docker, runner, history
    <3>2. CommandDone(t)
      <4>1. \A x \in tasks : x.op \notin {"add", "down"}
        BY <2>1 DEF Cleaning
      <4> QED
        BY <2>7, <4>1 DEF ClearRules
    <3>3. GoesOn(t, "containers") /\ UNCHANGED combined
      BY <3>1, <3>2, Commands
    <3>4. tasks' = {u("containers")} /\ Cleaning(u("containers"))'
      BY <3>1, <3>3, <2>1, <2>3 DEF Cleaning
    <3>5. TasksOK'
      BY <3>3, <2>3 DEF TasksOK, IsTask
    <3> QED
      BY <3>4, <3>5, <2>6 DEF DuringCleanup
  <2>8. CASE RemoveContainers(t)
    <3>1. /\ t.step = "containers"
          /\ IF containers = {} THEN CommandFails(t) ELSE CommandDone(t)
          /\ containers' = {} /\ attached' = {} /\ UNCHANGED <<networks, known, broken>>
      BY <2>8 DEF RemoveContainers, runner, history
    <3>2. ~combined /\ (broken \/ containers = known)
      BY <2>1, <3>1 DEF Cleaning
    <3>3. CASE containers = {}
      <4>1. tasks' = {} /\ UNCHANGED combined
        BY <3>1, <3>3, <2>4 DEF CommandFails
      <4>2. networks = {} \/ broken
        BY <3>2, <3>3 DEF IInv, NetworksOK
      <4>3. Clean'
        BY <4>1, <4>2, <3>1, <3>2 DEF Clean
      <4> QED
        BY <4>1, <4>3, <2>6 DEF DuringCleanup, TasksOK
    <3>4. CASE containers # {}
      <4>1. GoesOn(t, "networks") /\ UNCHANGED combined
        BY <3>1, <3>4, Commands
      <4>2. tasks' = {u("networks")} /\ Cleaning(u("networks"))'
        BY <4>1, <3>1, <3>2, <2>3 DEF Cleaning
      <4>3. TasksOK'
        BY <4>1, <2>3 DEF TasksOK, IsTask
      <4> QED
        BY <4>2, <4>3, <2>6 DEF DuringCleanup
    <3> QED
      BY <3>3, <3>4
  <2>9. CASE RemoveNetworks(t)
    <3>1. /\ t.step = "networks" /\ UNCHANGED containers
          /\ networks' = {e \in networks : \E n \in Nodes : <<e, n>> \in attached}
          /\ IF networks' = {} THEN CommandDone(t) ELSE CommandFails(t)
      BY <2>9 DEF RemoveNetworks
    <3>2. containers = {} /\ attached = {}
      BY <2>1, <3>1 DEF Cleaning
    <3>3. networks' = {}
      BY <3>1, <3>2
    <3>4. Ended(t)
      BY <3>1, <3>3, Commands
    <3> QED
      BY <3>1, <3>2, <3>3, <3>4, <2>4, <2>6 DEF DuringCleanup, Clean, TasksOK
  <2> QED
    BY <2>7, <2>8, <2>9
<1> QED
  BY <1>2, <1>3

-----------------------------------------------------------------------------
(* The main thread.                                                        *)

(* Calls are handed to workers; nothing else changes.                      *)
LEMMA StageStep ==
    ASSUME IInv, NEW next, Steps(next, tasks'),
           stage \notin {"cleanup", "end"}, next \notin {"cleanup", "end"},
           \A t \in tasks' : IsTask(t) /\ t.op # "cleanup" /\ t.on \in Nodes \cup Edges,
           applied' \in Nat, UNCHANGED broken
    PROVE  IInv'
<1>1. TasksOK'
  BY DEF TasksOK, IsTask
<1>2. stage' = next /\ UNCHANGED <<containers, known, networks, combined>>
  BY DEF Steps, docker, runner
<1>3. BeforeCleanup'
  BY <1>2, MainIsNoWorker DEF IInv, BeforeCleanup
<1> QED
  BY <1>1, <1>2, <1>3 DEF IInv, NetworksOK, DuringCleanup, AtEnd

LEMMA MainSteps == ASSUME IInv, MainStep PROVE IInv'
<1>1. ASSUME BuildImage PROVE IInv'
  <2>1. stage = "image" /\ UNCHANGED applied
    BY <1>1 DEF BuildImage
  <2>2. ASSUME Steps("create", Calls("create", Nodes)), UNCHANGED broken PROVE IInv'
    <3>1. tasks' = Calls("create", Nodes)
      BY <2>2 DEF Steps
    <3>2. \A t \in tasks' : IsTask(t) /\ t.op # "cleanup" /\ t.on \in Nodes \cup Edges
      BY <3>1, CallFields
    <3> QED
      BY <2>1, <2>2, <3>1, <3>2, StageStep DEF IInv
  <2>3. ASSUME Steps("cleanup", {MainCleanup}), broken' = TRUE PROVE IInv'
    <3>1. /\ stage' = "cleanup" /\ tasks' = {MainCleanup}
          /\ UNCHANGED <<containers, known, networks, combined, attached, stopped>>
      BY <2>3 DEF Steps, docker, runner
    <3>2. Cleaning(MainCleanup)'
      BY <2>1, <2>3, <3>1, TaskFields DEF IInv, BeforeCleanup, Cleaning, MainCleanup
    <3>3. TasksOK'
      BY <3>1, TaskFields DEF TasksOK, MainCleanup
    <3> QED
      BY <2>1, <3>1, <3>2, <3>3
      DEF IInv, NetworksOK, BeforeCleanup, DuringCleanup, AtEnd
  <2> QED
    BY <1>1, <2>2, <2>3 DEF BuildImage
<1>2. ASSUME SetUp PROVE IInv'
  <2>1. PICK next \in {"bridges", "up", "binaries", "mods"} :
          /\ stage \in {"create", "bridges", "up", "binaries"}
          /\ Steps(next, tasks')
          /\ \/ tasks' = Calls("add", Planned) \/ tasks' = Calls("up", InitEdges)
             \/ tasks' = Calls("run", Nodes) \/ tasks' = {}
    BY <1>2 DEF SetUp, AddBridges, RaiseLinks, StartBinaries, StartMods, Steps
  <2>2. \A t \in tasks' : IsTask(t) /\ t.op # "cleanup" /\ t.on \in Nodes \cup Edges
    BY <2>1, CallFields, Configuration, ExperimentAssumption
  <2>3. UNCHANGED <<applied, broken>>
    BY <1>2 DEF SetUp
  <2> QED
    BY <2>1, <2>2, <2>3, StageStep DEF IInv
<1>3. ASSUME make_modification PROVE IInv'
  <2>1. /\ stage = "mods" /\ applied < Len(Mods) /\ applied' = applied + 1 /\ UNCHANGED broken
        /\ Steps("mods", tasks')
        /\ tasks' = Calls("up", Mods[applied + 1].add) \cup Calls("down", Mods[applied + 1].erase)
    BY <1>3 DEF make_modification, Steps
  <2>2. applied + 1 \in DOMAIN Mods /\ applied' \in Nat
    BY <2>1, ExperimentAssumption DEF IInv
  <2>3. Mods[applied + 1].add \subseteq Edges /\ Mods[applied + 1].erase \subseteq Edges
    BY <2>2, Configuration
  <2>4. \A t \in tasks' : IsTask(t) /\ t.op # "cleanup" /\ t.on \in Nodes \cup Edges
    BY <2>1, <2>3, CallFields
  <2> QED
    BY <2>1, <2>2, <2>4, StageStep
<1>4. ASSUME DurationOver PROVE IInv'
  <2>1. /\ stage = "mods" /\ stage' = "cleanup" /\ tasks' = {MainCleanup}
        /\ UNCHANGED <<containers, known, networks, combined, attached, stopped, applied, broken>>
    BY <1>4 DEF DurationOver, Steps, docker, runner
  <2>2. Cleaning(MainCleanup)'
    BY <2>1, TaskFields DEF IInv, BeforeCleanup, Cleaning, MainCleanup
  <2>3. TasksOK'
    BY <2>1, TaskFields DEF TasksOK, MainCleanup
  <2> QED
    BY <2>1, <2>2, <2>3 DEF IInv, NetworksOK, BeforeCleanup, DuringCleanup, AtEnd
<1>5. ASSUME Exit PROVE IInv'
  <2>1. /\ stage = "cleanup" /\ tasks = {} /\ stage' = "end" /\ tasks' = {}
        /\ UNCHANGED <<containers, known, networks, combined, stopped, applied, broken>>
    BY <1>5 DEF Exit, Joined, Steps, docker, runner
  <2>2. stopped \/ Clean
    BY <2>1 DEF IInv, DuringCleanup
  <2>3. (stopped \/ Clean)'
    BY <2>1, <2>2 DEF Clean
  <2> QED
    BY <2>1, <2>3 DEF IInv, TasksOK, NetworksOK, BeforeCleanup, DuringCleanup, AtEnd
<1> QED
  BY <1>1, <1>2, <1>3, <1>4, <1>5 DEF MainStep

LEMMA Interrupts == ASSUME IInv, Interrupt PROVE IInv'
<1>1. /\ stage' = "cleanup" /\ stopped' /\ tasks' = tasks \cup {MainCleanup}
      /\ UNCHANGED <<known, networks, applied>>
  BY DEF Interrupt, docker, runner
<1>2. TasksOK'
  BY <1>1, TaskFields DEF IInv, TasksOK, IsTask, MainCleanup
<1> QED
  BY <1>1, <1>2 DEF IInv, NetworksOK, BeforeCleanup, DuringCleanup, AtEnd

-----------------------------------------------------------------------------

LEMMA InitInv == Init => IInv
BY DEF Init, IInv, TasksOK, NetworksOK, BeforeCleanup, DuringCleanup, AtEnd

LEMMA StepInv == IInv /\ [Next]_vars => IInv'
<1> SUFFICES ASSUME IInv, [Next]_vars PROVE IInv'
  OBVIOUS
<1>1. ASSUME Work PROVE IInv'
  BY <1>1, Workers, Cleans DEF Work
<1>2. ASSUME UNCHANGED vars PROVE IInv'
  BY <1>2 DEF IInv, TasksOK, IsTask, NetworksOK, BeforeCleanup, DuringCleanup, AtEnd, Clean,
              Cleaning, vars, docker, runner, history
<1> QED
  BY <1>1, <1>2, MainSteps, Interrupts DEF Next

(* cleanup, for every number of nodes, every configuration and any number  *)
(* of failing calls of docker: an experiment that nobody interrupts leaves *)
(* no container behind, and no network unless a worker gave up.            *)
THEOREM NothingEverLeftBehind == FairSpec => []NothingLeftBehind
<1>1. IInv => NothingLeftBehind
  BY DEF IInv, AtEnd, Clean, NothingLeftBehind
<1> QED
  BY <1>1, InitInv, StepInv, PTL DEF FairSpec

-----------------------------------------------------------------------------
(* The links that the configuration asks for.                              *)

(* Induction over a set of numbers, from the least one that is missing.    *)
LEMMA SetInduction ==
    ASSUME NEW A, 0 \in A, \A n \in Nat : n \in A => n + 1 \in A
    PROVE  \A n \in Nat : n \in A
<1> DEFINE R == OpToRel(<, Nat)
           T == Nat \ A
<1>1. R = {ss \in Nat \X Nat : ss[1] < ss[2]}
  BY DEF OpToRel
<1>2. IsWellFoundedOn(R, Nat)
  BY NatLessThanWellFounded
<1>3. SUFFICES ASSUME T # {} PROVE FALSE
  OBVIOUS
<1>4. T \subseteq Nat
  OBVIOUS
<1> HIDE DEF R
<1>5. PICK m \in T : \A y \in T : ~(<<y, m>> \in R)
  BY <1>2, <1>3, <1>4, WFMin
<1>6. m \in Nat /\ m # 0 /\ m - 1 \in Nat /\ (m - 1) + 1 = m
  OBVIOUS
<1>7. <<m - 1, m>> \in R
  BY <1>1, <1>6
<1> QED BY <1>5, <1>6, <1>7

LinksUpTo(m, f) ==
    f = [k \in 0 .. m |-> IF k = 0 THEN InitEdges ELSE (f[k - 1] \cup Mods[k].add) \ Mods[k].erase]

(* The sets of links exist, however many modifications there are.          *)
LEMMA LinksExist == \A m \in Nat : \E f : LinksUpTo(m, f)
<1> DEFINE A == {m \in Nat : \E f : LinksUpTo(m, f)}
           L(l, k) == (l \cup Mods[k].add) \ Mods[k].erase
<1> HIDE DEF L
<1>0. \A m, f : LinksUpTo(m, f) <=>
        f = [k \in 0 .. m |-> IF k = 0 THEN InitEdges ELSE L(f[k - 1], k)]
  BY DEF LinksUpTo, L
<1>1. 0 \in A
  <2> DEFINE f == [k \in 0 .. 0 |-> InitEdges]
  <2>1. LinksUpTo(0, f)
    BY DEF LinksUpTo
  <2> QED BY <2>1
<1>2. ASSUME NEW m \in Nat, m \in A PROVE m + 1 \in A
  <2>1. PICK f : LinksUpTo(m, f)
    BY <1>2
  <2> DEFINE h == [k \in 0 .. m + 1 |-> IF k = m + 1 THEN L(f[m], k) ELSE f[k]]
  <2>2. ASSUME NEW k \in 0 .. m + 1
        PROVE  h[k] = IF k = 0 THEN InitEdges ELSE L(h[k - 1], k)
    <3>1. CASE k = m + 1
      <4>1. k # 0 /\ k - 1 = m /\ m \in 0 .. m + 1 /\ m # m + 1
        BY <3>1
      <4>2. h[k] = L(f[m], k) /\ h[k - 1] = f[m]
        BY <3>1, <4>1
      <4> QED BY <4>1, <4>2
    <3>2. CASE k # m + 1
      <4>1. k \in 0 .. m /\ h[k] = f[k]
        BY <3>2
      <4>2. f[k] = IF k = 0 THEN InitEdges ELSE L(f[k - 1], k)
        BY <1>0, <2>1, <4>1
      <4>3. k # 0 => k - 1 \in 0 .. m + 1 /\ k - 1 # m + 1
        BY <4>1
      <4>4. k # 0 => h[k - 1] = f[k - 1]
        BY <4>3
      <4> QED BY <4>1, <4>2, <4>4
    <3> QED BY <3>1, <3>2
  <2>3. h = [k \in 0 .. m + 1 |-> h[k]]
    OBVIOUS
  <2> HIDE DEF h
  <2>4. LinksUpTo(m + 1, h)
    BY <1>0, <2>2, <2>3
  <2> QED BY <2>4
<1> HIDE DEF A
<1>3. \A m \in Nat : m \in A
  BY <1>1, <1>2, SetInduction
<1> QED BY <1>3 DEF A

LEMMA LinksFacts ==
    /\ Links[0] = InitEdges
    /\ \A k \in Nat : k < Len(Mods) =>
         Links[k + 1] = (Links[k] \cup Mods[k + 1].add) \ Mods[k + 1].erase
<1> DEFINE N == Len(Mods)
           D(f) == LinksUpTo(N, f)
<1>1. N \in Nat
  BY ExperimentAssumption
<1>2. \E f : D(f)
  BY <1>1, LinksExist
<1>3. Links = CHOOSE f : D(f)
  BY DEF Links, LinksUpTo
<1> HIDE DEF D
<1>4. D(Links)
  BY <1>2, <1>3
<1>5. Links = [k \in 0 .. N |-> IF k = 0 THEN InitEdges
                                ELSE (Links[k - 1] \cup Mods[k].add) \ Mods[k].erase]
  BY <1>4 DEF D, LinksUpTo
<1>6. 0 \in 0 .. N
  BY <1>1
<1>7. Links[0] = InitEdges
  BY <1>5, <1>6
<1>8. ASSUME NEW k \in Nat, k < N
      PROVE  Links[k + 1] = (Links[k] \cup Mods[k + 1].add) \ Mods[k + 1].erase
  <2>1. k + 1 \in 0 .. N /\ k + 1 # 0 /\ (k + 1) - 1 = k
    BY <1>1, <1>8
  <2> HIDE DEF N
  <2> QED BY <1>5, <2>1
<1> QED BY <1>7, <1>8

-----------------------------------------------------------------------------
(* The links follow the configuration while nothing gives up.              *)

Changes(t) == t.op \in {"up", "down"}
Untouched(e) == e \in missed \/ \A n \in Ends(e) : <<e, n>> \notin up
AsConfigured(e) == \A n \in Ends(e) : <<e, n>> \in up <=> e \in Links[applied]

(* Where a worker of add_bridge is, and what it has left at both ends.     *)
AddingOK(t) ==
    /\ t.op = "add" /\ t.on \in Planned
    /\ t.step # "begin" => t.on \in bridges
    /\ t.on \in missed \/ t.step = "first down" \/ <<t.on, t.on[1]>> \notin up
    /\ t.on \in missed \/ t.step = "second down" \/ <<t.on, t.on[2]>> \notin up

(* A worker of bridge_up or bridge_down does what the configuration asks.  *)
ChangingOK(t) ==
    /\ Changes(t)
    /\ t.op = "up" <=> t.on \in Links[applied]
    /\ t.step = "second" /\ t.on \notin missed => (<<t.on, t.on[1]>> \in up <=> t.op = "up")

OnePerLink == \A t, u \in tasks : t.on = u.on => t = u

Creating ==
    stage = "create" =>
        /\ \A t \in tasks : t.op = "create"
        /\ \A n \in Nodes : n \in known \/ \E t \in tasks : t.on = n

BeforeLinks ==
    /\ stage \in {"image", "create"} => up = {}
    /\ stage = "image" => tasks = {}
    /\ stage \in {"image", "create", "bridges", "up"} => running = {}
    /\ stage \notin {"mods", "cleanup", "end"} => applied = 0

Adding ==
    stage = "bridges" =>
        /\ Nodes \subseteq known
        /\ OnePerLink
        /\ \A t \in tasks : AddingOK(t)
        /\ \A e \in Planned : (\E t \in tasks : t.on = e) \/ (e \in bridges /\ Untouched(e))

Changing ==
    stage \in {"up", "mods"} =>
        /\ Planned \subseteq bridges
        /\ OnePerLink
        /\ \A t \in tasks : ChangingOK(t)
        /\ \A e \in Planned \ missed : (\E t \in tasks : t.on = e) \/ AsConfigured(e)

Starting ==
    stage = "binaries" =>
        /\ Planned \subseteq bridges
        /\ \A t \in tasks : t.op = "run"
        /\ \A e \in Planned \ missed : AsConfigured(e)

AtLast ==
    stage \in {"cleanup", "end"} /\ running # {} =>
        \A e \in Planned \ missed : AsConfigured(e)

Orderly == Creating /\ BeforeLinks /\ Adding /\ Changing /\ Starting /\ AtLast

LInv ==
    /\ stage \in Stages /\ applied \in 0 .. Len(Mods)
    /\ ~broken /\ ~stopped => Orderly

(* Which workers there are tells how far the main thread is.               *)
LEMMA StageOf ==
    ASSUME IInv, LInv, ~broken, ~stopped, NEW t \in tasks
    PROVE  /\ t.op = "create" => stage = "create"
           /\ t.op = "add" => stage = "bridges" /\ AddingOK(t)
           /\ Changes(t) => stage \in {"up", "mods"} /\ ChangingOK(t)
           /\ t.op = "run" => stage = "binaries"
           /\ t.op = "cleanup" => stage = "cleanup"
<1>1. stage # "end" /\ (stage = "cleanup" => t.op = "cleanup")
  BY DEF IInv, AtEnd, DuringCleanup, Cleaning
<1>2. stage # "cleanup" => t.op # "cleanup"
  BY <1>1 DEF IInv, BeforeCleanup
<1>3. stage = "create" => t.op = "create"
  BY DEF LInv, Orderly, Creating
<1>4. stage # "image"
  BY DEF LInv, Orderly, BeforeLinks
<1>5. stage = "bridges" => AddingOK(t)
  BY DEF LInv, Orderly, Adding
<1>6. stage \in {"up", "mods"} => ChangingOK(t)
  BY DEF LInv, Orderly, Changing
<1>7. stage = "binaries" => t.op = "run"
  BY DEF LInv, Orderly, Starting
<1>8. AddingOK(t) => t.op = "add"
  BY DEF AddingOK
<1>9. ChangingOK(t) => t.op \in {"up", "down"}
  BY DEF ChangingOK, Changes
<1>10. stage \in {"image", "create", "bridges", "up", "binaries", "mods", "cleanup", "end"}
  BY DEF LInv, Stages
<1> QED
  BY <1>1, <1>2, <1>3, <1>4, <1>5, <1>6, <1>7, <1>8, <1>9, <1>10 DEF Changes

LEMMA LinkEnds ==
    ASSUME NEW e \in Edges PROVE e[1] # e[2] /\ e[1] \in Nodes /\ e[2] \in Nodes
<1>1. Nodes \subseteq Nat
  BY ExperimentAssumption, Zenon
<1>2. e \in Nodes \X Nodes /\ e[1] < e[2]
  BY Zenon DEF Edges
<1>3. PICK a \in Nodes, b \in Nodes : e = <<a, b>>
  BY <1>2
<1>4. a \in Nat /\ b \in Nat
  BY <1>1
<1>5. e[1] = a /\ e[2] = b
  BY <1>3
<1>6. a < b
  BY <1>2, <1>5
<1>7. a # b
  BY <1>4, <1>6
<1> QED
  BY <1>5, <1>7

(* A step of add_bridge: the worker goes on, or is done with its link.     *)
LEMMA AddStep ==
    ASSUME Orderly, stage = "bridges", NEW t \in tasks, t.on \in Planned,
           UNCHANGED <<stage, running, known, applied>>,
           bridges \subseteq bridges',
           \A e \in Planned : e # t.on => (Untouched(e) => Untouched(e)'),
           \A u \in tasks : u.on # t.on => (AddingOK(u) => AddingOK(u)'),
           \/ tasks' = tasks \ {t} /\ t.on \in bridges' /\ Untouched(t.on)'
           \/ \E u : tasks' = (tasks \ {t}) \cup {u} /\ u.on = t.on /\ AddingOK(u)'
    PROVE  Orderly'
<1>1. /\ Nodes \subseteq known /\ OnePerLink
      /\ \A u \in tasks : AddingOK(u)
      /\ \A e \in Planned : (\E u \in tasks : u.on = e) \/ (e \in bridges /\ Untouched(e))
  BY DEF Orderly, Adding
<1>2. \A u \in tasks \ {t} : u.on # t.on
  BY <1>1 DEF OnePerLink
<1>3. \A u \in tasks \ {t} : AddingOK(u)'
  BY <1>1, <1>2
<1>4. \A e \in Planned : e # t.on =>
        (\E u \in tasks \ {t} : u.on = e) \/ (e \in bridges' /\ Untouched(e)')
  BY <1>1
<1>5. CASE tasks' = tasks \ {t} /\ t.on \in bridges' /\ Untouched(t.on)'
  <2>1. OnePerLink' /\ \A u \in tasks' : AddingOK(u)'
    BY <1>1, <1>3, <1>5 DEF OnePerLink
  <2>2. \A e \in Planned : (\E u \in tasks' : u.on = e) \/ (e \in bridges' /\ Untouched(e)')
    BY <1>4, <1>5
  <2>3. Adding'
    BY <1>1, <2>1, <2>2 DEF Adding
  <2> QED
    BY <2>3 DEF Orderly, Creating, BeforeLinks, Changing, Starting, AtLast
<1>6. ASSUME NEW u, tasks' = (tasks \ {t}) \cup {u}, u.on = t.on, AddingOK(u)'
      PROVE  Orderly'
  <2>1. OnePerLink'
    BY <1>1, <1>2, <1>6 DEF OnePerLink
  <2>2. \A v \in tasks' : AddingOK(v)'
    BY <1>3, <1>6
  <2>3. \A e \in Planned : (\E v \in tasks' : v.on = e) \/ (e \in bridges' /\ Untouched(e)')
    BY <1>4, <1>6
  <2>4. Adding'
    BY <1>1, <2>1, <2>2, <2>3 DEF Adding
  <2> QED
    BY <2>4 DEF Orderly, Creating, BeforeLinks, Changing, Starting, AtLast
<1> QED
  BY <1>5, <1>6

(* A step of bridge_up or bridge_down: the worker goes on, or ends because *)
(* it is done, has missed its link or has none.                            *)
LEMMA ChangeStep ==
    ASSUME Orderly, stage \in {"up", "mods"}, NEW t \in tasks,
           UNCHANGED <<stage, running, known, applied>>,
           bridges \subseteq bridges', missed \subseteq missed',
           \A e \in Planned : e # t.on => (AsConfigured(e) => AsConfigured(e)'),
           \A u \in tasks : u.on # t.on => (ChangingOK(u) => ChangingOK(u)'),
           \/ tasks' = tasks \ {t} /\ (t.on \in Planned \ missed' => AsConfigured(t.on)')
           \/ \E u : tasks' = (tasks \ {t}) \cup {u} /\ u.on = t.on /\ ChangingOK(u)'
    PROVE  Orderly'
<1>1. /\ Planned \subseteq bridges /\ OnePerLink
      /\ \A u \in tasks : ChangingOK(u)
      /\ \A e \in Planned \ missed : (\E u \in tasks : u.on = e) \/ AsConfigured(e)
  BY DEF Orderly, Changing
<1>2. \A u \in tasks \ {t} : u.on # t.on
  BY <1>1 DEF OnePerLink
<1>3. \A u \in tasks \ {t} : ChangingOK(u)'
  BY <1>1, <1>2
<1>4. \A e \in Planned \ missed' : e # t.on =>
        (\E u \in tasks \ {t} : u.on = e) \/ AsConfigured(e)'
  BY <1>1
<1>5. CASE tasks' = tasks \ {t} /\ (t.on \in Planned \ missed' => AsConfigured(t.on)')
  <2>1. OnePerLink' /\ \A u \in tasks' : ChangingOK(u)'
    BY <1>1, <1>3, <1>5 DEF OnePerLink
  <2>2. \A e \in Planned \ missed' : (\E u \in tasks' : u.on = e) \/ AsConfigured(e)'
    BY <1>4, <1>5
  <2>3. Changing'
    BY <1>1, <2>1, <2>2 DEF Changing
  <2> QED
    BY <2>3 DEF Orderly, Creating, BeforeLinks, Adding, Starting, AtLast
<1>6. ASSUME NEW u, tasks' = (tasks \ {t}) \cup {u}, u.on = t.on, ChangingOK(u)'
      PROVE  Orderly'
  <2>1. OnePerLink'
    BY <1>1, <1>2, <1>6 DEF OnePerLink
  <2>2. \A v \in tasks' : ChangingOK(v)'
    BY <1>3, <1>6
  <2>3. \A e \in Planned \ missed' : (\E v \in tasks' : v.on = e) \/ AsConfigured(e)'
    BY <1>4, <1>6
  <2>4. Changing'
    BY <1>1, <2>1, <2>2, <2>3 DEF Changing
  <2> QED
    BY <2>4 DEF Orderly, Creating, BeforeLinks, Adding, Starting, AtLast
<1> QED
  BY <1>5, <1>6

LEMMA AddsKeep ==
    ASSUME IInv, LInv, ~broken', ~stopped, NEW t \in tasks,
           CreateNetwork(t) \/ ConnectNetwork(t) \/ SetDown(t) \/ AddShaper(t)
    PROVE  LInv'
<1>1. t.op = "add" /\ UNCHANGED <<stage, running, known, applied, stopped>>
  BY DEF CreateNetwork, ConnectNetwork, SetDown, AddShaper, docker, runner
<1>2. ~broken
  BY Gives DEF CreateNetwork, ConnectNetwork, SetDown, AddShaper
<1>3. stage = "bridges" /\ AddingOK(t) /\ Orderly
  BY <1>1, <1>2, StageOf DEF LInv
<1>4. t.on \in Planned /\ t.on \in Edges
  BY <1>3, Configuration DEF AddingOK
<1>5. PICK a \in Nodes, b \in Nodes : t.on[1] = a /\ t.on[2] = b /\ a # b
  BY <1>4, LinkEnds
<1>6. Ends(t.on) = {a, b}
  BY <1>5 DEF Ends
<1>7. IsTask(t)
  BY DEF IInv, TasksOK
<1>8. SUFFICES Orderly'
  BY <1>1 DEF LInv
<1>9. ASSUME NEW step, NEW seen, Becomes(t, step, seen)
      PROVE  \E u : /\ tasks' = (tasks \ {t}) \cup {u}
                    /\ u.op = "add" /\ u.on = t.on /\ u.step = step
  BY <1>1, <1>7, <1>9, NextTask DEF Becomes
<1>10. ~GivesUp(t)
  BY Gives
<1>11. ASSUME UNCHANGED <<up, missed>>, bridges \subseteq bridges'
       PROVE  /\ \A e \in Planned : Untouched(e) => Untouched(e)'
              /\ \A u \in tasks : AddingOK(u) => AddingOK(u)'
  BY <1>11 DEF Untouched, AddingOK
<1>12. ASSUME \A e, m : e # t.on => (<<e, m>> \in up' <=> <<e, m>> \in up),
              missed \subseteq missed', UNCHANGED bridges
       PROVE  /\ \A e \in Planned : e # t.on => (Untouched(e) => Untouched(e)')
              /\ \A u \in tasks : u.on # t.on => (AddingOK(u) => AddingOK(u)')
  BY <1>12 DEF Untouched, AddingOK
<1>13. CASE CreateNetwork(t)
  <2>1. Ends(t.on) \subseteq known
    BY <1>3, <1>6 DEF Orderly, Adding
  <2>2. /\ t.step = "begin" /\ bridges' = bridges \cup {t.on} /\ GoesOn(t, "first")
        /\ UNCHANGED <<up, missed>>
    BY <1>10, <1>13, <2>1 DEF CreateNetwork
  <2>3. PICK u : /\ tasks' = (tasks \ {t}) \cup {u}
                 /\ u.op = "add" /\ u.on = t.on /\ u.step = "first"
    BY <1>9, <2>2 DEF GoesOn
  <2>4. AddingOK(u)'
    BY <1>3, <1>4, <2>2, <2>3 DEF AddingOK
  <2> QED
    BY <1>1, <1>3, <1>4, <1>11, <2>2, <2>3, <2>4, AddStep
<1>14. CASE ConnectNetwork(t)
  <2>1. /\ t.step \in {"first", "second"} /\ UNCHANGED <<bridges, missed>>
        /\ up' = up \cup {<<t.on, Side(t)>>}
        /\ Becomes(t, IF t.step = "first" THEN "first down" ELSE "second down",
                      Networks(Side(t)) \cup {t.on})
    BY <1>10, <1>14 DEF ConnectNetwork, runner
  <2>2. PICK u : /\ tasks' = (tasks \ {t}) \cup {u}
                 /\ u.op = "add" /\ u.on = t.on
                 /\ u.step = IF t.step = "first" THEN "first down" ELSE "second down"
    BY <1>9, <2>1
  <2>3. /\ t.on \in bridges
        /\ t.on \in missed \/ (<<t.on, a>> \notin up /\ <<t.on, b>> \notin up)
    BY <1>3, <1>5, <2>1 DEF AddingOK
  <2>4. AddingOK(u)'
    <3>1. CASE t.step = "first"
      <4>1. Side(t) = a
        BY <1>5, <3>1 DEF Side
      <4>2. /\ t.on \in missed' \/ <<t.on, b>> \notin up'
            /\ u.step = "first down" /\ t.on \in bridges'
        BY <1>5, <2>1, <2>2, <2>3, <3>1, <4>1
      <4> QED BY <1>4, <1>5, <2>2, <4>2 DEF AddingOK
    <3>2. CASE t.step = "second"
      <4>1. Side(t) = b
        BY <1>5, <3>2 DEF Side
      <4>2. /\ t.on \in missed' \/ <<t.on, a>> \notin up'
            /\ u.step = "second down" /\ t.on \in bridges'
        BY <1>5, <2>1, <2>2, <2>3, <3>2, <4>1
      <4> QED BY <1>4, <1>5, <2>2, <4>2 DEF AddingOK
    <3> QED BY <2>1, <3>1, <3>2
  <2>5. /\ \A e \in Planned : e # t.on => (Untouched(e) => Untouched(e)')
        /\ \A v \in tasks : v.on # t.on => (AddingOK(v) => AddingOK(v)')
    <3>1. \A e, m : e # t.on => (<<e, m>> \in up' <=> <<e, m>> \in up)
      BY <2>1
    <3> QED BY <1>12, <2>1, <3>1
  <2> QED
    BY <1>1, <1>3, <1>4, <2>1, <2>2, <2>4, <2>5, AddStep
<1>15. CASE SetDown(t)
  <2>1. /\ t.step \in {"first down", "second down"} /\ UNCHANGED bridges
        /\ \/ up' = up \ {<<t.on, Side(t)>>} /\ UNCHANGED missed
           \/ UNCHANGED up /\ missed' = missed \cup {t.on}
        /\ Becomes(t, IF t.step = "first down" THEN "second" ELSE "shape", {})
    BY <1>10, <1>15 DEF SetDown, CommandRun
  <2>2. PICK u : /\ tasks' = (tasks \ {t}) \cup {u}
                 /\ u.op = "add" /\ u.on = t.on
                 /\ u.step = IF t.step = "first down" THEN "second" ELSE "shape"
    BY <1>9, <2>1
  <2>3. t.on \in missed' \/ (<<t.on, a>> \notin up' /\ <<t.on, b>> \notin up')
    <3>1. CASE t.step = "first down"
      <4>1. Side(t) = a /\ (t.on \in missed \/ <<t.on, b>> \notin up)
        BY <1>3, <1>5, <3>1 DEF Side, AddingOK
      <4> QED BY <2>1, <4>1
    <3>2. CASE t.step = "second down"
      <4>1. Side(t) = b /\ (t.on \in missed \/ <<t.on, a>> \notin up)
        BY <1>3, <1>5, <3>2 DEF Side, AddingOK
      <4> QED BY <2>1, <4>1
    <3> QED BY <2>1, <3>1, <3>2
  <2>4. t.on \in bridges'
    BY <1>3, <2>1 DEF AddingOK
  <2>5. AddingOK(u)'
    BY <1>4, <1>5, <2>2, <2>3, <2>4 DEF AddingOK
  <2>6. /\ \A e \in Planned : e # t.on => (Untouched(e) => Untouched(e)')
        /\ \A v \in tasks : v.on # t.on => (AddingOK(v) => AddingOK(v)')
    <3>1. \A e, m : e # t.on => (<<e, m>> \in up' <=> <<e, m>> \in up)
      BY <2>1
    <3> QED BY <1>12, <2>1, <3>1
  <2> QED
    BY <1>1, <1>3, <1>4, <2>1, <2>2, <2>5, <2>6, AddStep
<1>16. CASE AddShaper(t)
  <2>1. t.step = "shape" /\ tasks' = tasks \ {t} /\ UNCHANGED <<up, bridges, missed>>
    BY <1>10, <1>16 DEF AddShaper, Ended, docker
  <2>2. /\ t.on \in bridges'
        /\ t.on \in missed \/ (<<t.on, a>> \notin up /\ <<t.on, b>> \notin up)
    BY <1>3, <1>5, <2>1 DEF AddingOK
  <2>3. Untouched(t.on)'
    BY <1>6, <2>1, <2>2 DEF Untouched
  <2> QED
    BY <1>1, <1>3, <1>4, <1>11, <2>1, <2>2, <2>3, AddStep
<1> QED
  BY <1>13, <1>14, <1>15, <1>16

LEMMA ChangesKeep ==
    ASSUME IInv, LInv, ~broken, ~stopped, NEW t \in tasks,
           FindInterfaces(t) \/ SetLink(t)
    PROVE  LInv'
<1>1. Changes(t) /\ UNCHANGED <<stage, running, known, bridges, applied, broken, stopped>>
  BY DEF FindInterfaces, SetLink, Changes, docker
<1>2. stage \in {"up", "mods"} /\ ChangingOK(t) /\ Orderly
  BY <1>1, StageOf DEF LInv
<1>3. IsTask(t)
  BY DEF IInv, TasksOK
<1>4. SUFFICES Orderly'
  BY <1>1 DEF LInv
<1>5. ASSUME NEW step, GoesOn(t, step)
      PROVE  \E u : /\ tasks' = (tasks \ {t}) \cup {u}
                    /\ u.op = t.op /\ u.on = t.on /\ u.step = step
  BY <1>3, <1>5, NextTask DEF GoesOn, Becomes
<1>6. Planned \subseteq bridges
  BY <1>2 DEF Orderly, Changing
<1>7. missed \subseteq missed'
  BY DEF FindInterfaces, SetLink, Misses, CommandRun
<1>8. ASSUME \A e, m : e # t.on => (<<e, m>> \in up' <=> <<e, m>> \in up)
      PROVE  /\ \A e \in Planned : e # t.on => (AsConfigured(e) => AsConfigured(e)')
             /\ \A u \in tasks : u.on # t.on => (ChangingOK(u) => ChangingOK(u)')
  BY <1>1, <1>7, <1>8 DEF AsConfigured, ChangingOK
<1>9. CASE tasks' = tasks \ {t} /\ t.on \notin Planned \ missed' /\ UNCHANGED up
  BY <1>1, <1>2, <1>7, <1>8, <1>9, ChangeStep
<1>10. CASE FindInterfaces(t)
  <2>1. UNCHANGED up
    BY <1>10 DEF FindInterfaces, docker
  <2>2. CASE t.on \notin bridges /\ Ended(t)
    BY <1>6, <1>9, <2>1, <2>2 DEF Ended
  <2>3. CASE Misses(t)
    BY <1>9, <2>1, <2>3 DEF Misses, Ended
  <2>4. CASE GoesOn(t, "first")
    <3>1. PICK u : /\ tasks' = (tasks \ {t}) \cup {u}
                   /\ u.op = t.op /\ u.on = t.on /\ u.step = "first"
      BY <1>5, <2>4
    <3>2. ChangingOK(u)'
      BY <1>1, <1>2, <3>1 DEF ChangingOK, Changes
    <3> QED
      BY <1>1, <1>2, <1>7, <1>8, <2>1, <3>1, <3>2, ChangeStep
  <2> QED
    BY <1>10, <2>2, <2>3, <2>4 DEF FindInterfaces
<1>11. CASE SetLink(t)
  <2>1. CASE Misses(t) /\ UNCHANGED up
    BY <1>9, <2>1 DEF Misses, Ended
  <2>2. CASE /\ CommandRun(t, IF t.op = "up" THEN up \cup {<<t.on, Side(t)>>}
                                           ELSE up \ {<<t.on, Side(t)>>})
             /\ \/ t.step = "first" /\ GoesOn(t, "second")
                \/ t.step = "second" /\ Ended(t)
    <3>1. \A e, m : e # t.on => (<<e, m>> \in up' <=> <<e, m>> \in up)
      BY <2>2 DEF CommandRun
    <3>2. t.on \in missed' \/ (<<t.on, Side(t)>> \in up' <=> t.op = "up")
      BY <2>2 DEF CommandRun
    <3>3. CASE t.step = "first" /\ GoesOn(t, "second")
      <4>1. PICK u : /\ tasks' = (tasks \ {t}) \cup {u}
                     /\ u.op = t.op /\ u.on = t.on /\ u.step = "second"
        BY <1>5, <3>3
      <4>2. Side(t) = t.on[1]
        BY <3>3 DEF Side
      <4>3. ChangingOK(u)'
        BY <1>1, <1>2, <3>2, <4>1, <4>2 DEF ChangingOK, Changes
      <4> QED
        BY <1>1, <1>2, <1>7, <1>8, <3>1, <4>1, <4>3, ChangeStep
    <3>4. CASE t.step = "second" /\ Ended(t)
      <4>1. ASSUME t.on \in Planned \ missed' PROVE AsConfigured(t.on)'
        <5>1. PICK a \in Nodes, b \in Nodes : t.on[1] = a /\ t.on[2] = b /\ a # b
          BY <4>1, Configuration, LinkEnds
        <5>2. Side(t) = b
          BY <3>4, <5>1 DEF Side
        <5>3. <<t.on, a>> \in up' <=> t.op = "up"
          <6>1. <<t.on, a>> \in up <=> t.op = "up"
            BY <1>2, <1>7, <3>4, <4>1, <5>1 DEF ChangingOK
          <6> QED BY <2>2, <4>1, <5>1, <5>2, <6>1 DEF CommandRun
        <5>4. <<t.on, b>> \in up' <=> t.op = "up"
          BY <3>2, <4>1, <5>2
        <5>5. t.op = "up" <=> t.on \in Links[applied']
          BY <1>1, <1>2 DEF ChangingOK
        <5>6. \A n \in Ends(t.on) : n = a \/ n = b
          BY <5>1 DEF Ends
        <5> QED BY <5>3, <5>4, <5>5, <5>6 DEF AsConfigured
      <4> QED
        BY <1>1, <1>2, <1>7, <1>8, <3>1, <3>4, <4>1, ChangeStep DEF Ended
    <3> QED BY <2>2, <3>3, <3>4
  <2> QED
    BY <1>11, <2>1, <2>2 DEF SetLink
<1> QED
  BY <1>10, <1>11

LEMMA OthersKeep ==
    ASSUME IInv, LInv, ~broken', ~stopped, NEW t \in tasks,
           \/ create_container(t) \/ run_binary_in_device(t)
           \/ ClearRules(t) \/ RemoveContainers(t) \/ RemoveNetworks(t)
    PROVE  LInv'
<1>1. ~broken /\ UNCHANGED <<stage, applied, stopped, missed>>
  BY Gives DEF create_container, run_binary_in_device, ClearRules, RemoveContainers,
               RemoveNetworks, history
<1>2. Orderly
  BY <1>1 DEF LInv
<1>3. SUFFICES Orderly'
  BY <1>1 DEF LInv
<1>4. CASE create_container(t)
  <2>1. t.op = "create" /\ UNCHANGED <<up, running>>
    BY <1>4 DEF create_container
  <2>2. ~GivesUp(t)
    BY Gives
  <2>3. known' = known \cup {t.on} /\ tasks' = tasks \ {t}
    BY <1>4, <2>2 DEF create_container, Ended
  <2>4. stage = "create"
    BY <1>1, <2>1, StageOf
  <2>5. Creating'
    BY <1>1, <1>2, <2>3, <2>4 DEF Orderly, Creating
  <2>6. BeforeLinks'
    BY <1>1, <1>2, <2>1, <2>4 DEF Orderly, BeforeLinks
  <2> QED
    BY <1>1, <2>4, <2>5, <2>6 DEF Orderly, Adding, Changing, Starting, AtLast
<1>5. CASE run_binary_in_device(t)
  <2>1. t.op = "run" /\ tasks' = tasks \ {t} /\ UNCHANGED <<up, bridges, known>>
    BY <1>5 DEF run_binary_in_device, Ended, runner
  <2>2. stage = "binaries"
    BY <1>1, <2>1, StageOf
  <2>3. Starting'
    BY <1>1, <1>2, <2>1, <2>2 DEF Orderly, Starting, AsConfigured
  <2>4. BeforeLinks'
    BY <1>1, <1>2, <2>2 DEF Orderly, BeforeLinks
  <2> QED
    BY <1>1, <2>2, <2>3, <2>4 DEF Orderly, Creating, Adding, Changing, AtLast
<1>6. CASE ClearRules(t) \/ RemoveContainers(t) \/ RemoveNetworks(t)
  <2>1. t.op = "cleanup" /\ (running' = {} \/ UNCHANGED <<up, running>>)
    BY <1>6 DEF ClearRules, RemoveContainers, RemoveNetworks, docker
  <2>2. stage = "cleanup"
    BY <1>1, <2>1, StageOf
  <2>3. AtLast'
    BY <1>1, <1>2, <2>1, <2>2 DEF Orderly, AtLast, AsConfigured
  <2> QED
    BY <1>1, <2>2, <2>3 DEF Orderly, Creating, BeforeLinks, Adding, Changing, Starting
<1> QED
  BY <1>4, <1>5, <1>6

(* Calls of one operation, one for each link or node.                      *)
LEMMA OnePerCall ==
    ASSUME NEW op, NEW S
    PROVE  /\ \A t \in Calls(op, S) : /\ t.op = op /\ t.on \in S /\ t.step = "begin"
                                      /\ t = Task(op, t.on, "begin")
           /\ \A x \in S : \E t \in Calls(op, S) : t.op = op /\ t.on = x
<1>1. ASSUME NEW t \in Calls(op, S)
      PROVE  /\ t.op = op /\ t.on \in S /\ t.step = "begin"
             /\ t = Task(op, t.on, "begin")
  <2>1. PICK x \in S : t = Task(op, x, "begin")
    BY DEF Calls
  <2>2. t.op = op /\ t.on = x /\ t.step = "begin"
    BY <2>1, TaskFields
  <2> QED
    BY <2>1, <2>2
<1>2. ASSUME NEW x \in S PROVE \E t \in Calls(op, S) : t.op = op /\ t.on = x
  <2>1. Task(op, x, "begin") \in Calls(op, S)
    BY DEF Calls
  <2>2. Task(op, x, "begin").op = op /\ Task(op, x, "begin").on = x
    BY TaskFields
  <2> QED
    BY <2>1, <2>2
<1> QED
  BY <1>1, <1>2

LEMMA MainKeeps ==
    ASSUME Unambiguous, IInv, LInv, ~broken', ~stopped', MainStep
    PROVE  LInv'
<1>1. UNCHANGED <<known, bridges, up, running, stopped, missed>> /\ ~stopped
  BY DEF MainStep, BuildImage, SetUp, AddBridges, RaiseLinks, StartBinaries, StartMods,
         make_modification, DurationOver, Exit, Steps, docker, runner
<1>2. CASE BuildImage
  <2>1. /\ stage = "image" /\ stage' = "create" /\ tasks' = Calls("create", Nodes)
        /\ UNCHANGED <<applied, broken>>
    BY <1>2 DEF BuildImage, Steps
  <2>2. Orderly
    BY <2>1, <1>1 DEF LInv
  <2>3. up = {} /\ running = {} /\ applied = 0
    BY <2>1, <2>2 DEF Orderly, BeforeLinks
  <2>4. Creating' /\ BeforeLinks'
    BY <1>1, <2>1, <2>3, OnePerCall DEF Creating, BeforeLinks
  <2> QED
    BY <2>1, <2>4 DEF LInv, Stages, Orderly, Adding, Changing, Starting, AtLast
<1>3. CASE SetUp
  <2>1. tasks = {} /\ UNCHANGED <<applied, broken>> /\ ~broken
    BY <1>3 DEF SetUp, AddBridges, RaiseLinks, StartBinaries, StartMods, Joined
  <2>2. Orderly
    BY <1>1, <2>1 DEF LInv
  <2>3. CASE AddBridges
    <3>1. stage = "create" /\ stage' = "bridges" /\ tasks' = Calls("add", Planned)
      BY <2>3 DEF AddBridges, Steps
    <3>2. up = {} /\ running = {} /\ applied = 0 /\ Nodes \subseteq known
      BY <2>1, <2>2, <3>1 DEF Orderly, BeforeLinks, Creating
    <3>3. OnePerLink' /\ \A t \in tasks' : AddingOK(t)'
      BY <1>1, <3>1, <3>2, OnePerCall DEF OnePerLink, AddingOK
    <3>4. Adding' /\ BeforeLinks'
      BY <1>1, <2>1, <3>1, <3>2, <3>3, OnePerCall DEF Adding, BeforeLinks
    <3> QED
      BY <2>1, <3>1, <3>4 DEF LInv, Stages, Orderly, Creating, Changing, Starting, AtLast
  <2>4. CASE RaiseLinks
    <3>1. stage = "bridges" /\ stage' = "up" /\ tasks' = Calls("up", InitEdges)
      BY <2>4 DEF RaiseLinks, Steps
    <3>2. running = {} /\ applied = 0 /\ \A e \in Planned : e \in bridges /\ Untouched(e)
      BY <2>1, <2>2, <3>1 DEF Orderly, BeforeLinks, Adding
    <3>3. Links[applied'] = InitEdges
      BY <2>1, <3>2, LinksFacts
    <3>4. OnePerLink' /\ \A t \in tasks' : ChangingOK(t)'
      BY <3>1, <3>3, OnePerCall DEF OnePerLink, ChangingOK, Changes
    <3>5. ASSUME NEW e \in Planned \ missed
          PROVE  (\E t \in tasks' : t.on = e) \/ AsConfigured(e)'
      <4>1. CASE e \in InitEdges
        BY <3>1, <4>1, OnePerCall
      <4>2. CASE e \notin InitEdges
        BY <1>1, <3>2, <3>3, <4>2 DEF AsConfigured, Untouched
      <4> QED BY <4>1, <4>2
    <3>6. Changing' /\ BeforeLinks'
      BY <1>1, <2>1, <3>1, <3>2, <3>4, <3>5 DEF Changing, BeforeLinks
    <3> QED
      BY <2>1, <3>1, <3>6 DEF LInv, Stages, Orderly, Creating, Adding, Starting, AtLast
  <2>5. CASE StartBinaries
    <3>1. stage = "up" /\ stage' = "binaries" /\ tasks' = Calls("run", Nodes)
      BY <2>5 DEF StartBinaries, Steps
    <3>2. applied = 0 /\ Planned \subseteq bridges /\ \A e \in Planned \ missed : AsConfigured(e)
      BY <2>1, <2>2, <3>1 DEF Orderly, BeforeLinks, Changing
    <3>3. Starting' /\ BeforeLinks'
      BY <1>1, <2>1, <3>1, <3>2, OnePerCall DEF Starting, BeforeLinks, AsConfigured
    <3> QED
      BY <2>1, <3>1, <3>3 DEF LInv, Stages, Orderly, Creating, Adding, Changing, AtLast
  <2>6. CASE StartMods
    <3>1. stage = "binaries" /\ stage' = "mods" /\ tasks' = {}
      BY <2>6 DEF StartMods, Steps
    <3>2. Planned \subseteq bridges /\ \A e \in Planned \ missed : AsConfigured(e)
      BY <2>2, <3>1 DEF Orderly, Starting
    <3>3. Changing' /\ BeforeLinks'
      BY <1>1, <2>1, <3>1, <3>2 DEF Changing, OnePerLink, BeforeLinks, AsConfigured
    <3> QED
      BY <2>1, <3>1, <3>3 DEF LInv, Stages, Orderly, Creating, Adding, Starting, AtLast
  <2> QED
    BY <1>3, <2>3, <2>4, <2>5, <2>6 DEF SetUp
<1>4. CASE make_modification
  <2> DEFINE k == applied + 1
  <2>1. /\ stage = "mods" /\ stage' = "mods" /\ tasks = {} /\ applied < Len(Mods) /\ applied' = k
        /\ tasks' = Calls("up", Mods[k].add) \cup Calls("down", Mods[k].erase)
        /\ UNCHANGED broken
    BY <1>4 DEF make_modification, Steps, Joined
  <2>2. Orderly
    BY <1>1, <2>1 DEF LInv
  <2>3. Planned \subseteq bridges /\ \A e \in Planned \ missed : AsConfigured(e)
    BY <2>1, <2>2 DEF Orderly, Changing
  <2>4. applied \in Nat /\ k \in 0 .. Len(Mods) /\ k \in DOMAIN Mods
    BY <2>1, ExperimentAssumption DEF LInv
  <2>5. Links[k] = (Links[applied] \cup Mods[k].add) \ Mods[k].erase
    BY <2>1, <2>4, LinksFacts
  <2>6. Mods[k].add \cap Mods[k].erase = {}
    BY <2>4 DEF Unambiguous
  <2> HIDE DEF k
  <2>7. \A t \in tasks' :
          /\ t.step = "begin"
          /\ \/ t.op = "up" /\ t.on \in Mods[k].add /\ t = Task("up", t.on, "begin")
             \/ t.op = "down" /\ t.on \in Mods[k].erase /\ t = Task("down", t.on, "begin")
    BY <2>1, OnePerCall
  <2>8. OnePerLink'
    BY <2>6, <2>7 DEF OnePerLink
  <2>9. \A t \in tasks' : ChangingOK(t)'
    BY <2>1, <2>5, <2>6, <2>7 DEF ChangingOK, Changes
  <2>10. ASSUME NEW e \in Planned \ missed PROVE (\E t \in tasks' : t.on = e) \/ AsConfigured(e)'
    <3>1. CASE e \in Mods[k].add \cup Mods[k].erase
      BY <2>1, <3>1, OnePerCall
    <3>2. CASE e \notin Mods[k].add \cup Mods[k].erase
      <4>1. e \in Links[k] <=> e \in Links[applied]
        BY <2>5, <3>2
      <4> QED BY <1>1, <2>1, <2>3, <4>1 DEF AsConfigured
    <3> QED BY <3>1, <3>2
  <2>11. Changing' /\ BeforeLinks'
    BY <1>1, <2>1, <2>3, <2>8, <2>9, <2>10 DEF Changing, BeforeLinks
  <2> QED
    BY <2>1, <2>4, <2>11 DEF LInv, Stages, Orderly, Creating, Adding, Starting, AtLast
<1>5. CASE DurationOver
  <2>1. stage = "mods" /\ tasks = {} /\ stage' = "cleanup" /\ UNCHANGED <<applied, broken>>
    BY <1>5 DEF DurationOver, Steps, Joined
  <2>2. \A e \in Planned \ missed : AsConfigured(e)
    BY <1>1, <2>1 DEF LInv, Orderly, Changing
  <2>3. AtLast'
    BY <1>1, <2>1, <2>2 DEF AtLast, AsConfigured
  <2> QED
    BY <2>1, <2>3 DEF LInv, Stages, Orderly, Creating, BeforeLinks, Adding, Changing, Starting
<1>6. CASE Exit
  <2>1. stage = "cleanup" /\ stage' = "end" /\ UNCHANGED <<applied, broken>>
    BY <1>6 DEF Exit, Steps
  <2>2. AtLast
    BY <1>1, <2>1 DEF LInv, Orderly
  <2>3. AtLast'
    BY <1>1, <2>1, <2>2 DEF AtLast, AsConfigured
  <2> QED
    BY <2>1, <2>3 DEF LInv, Stages, Orderly, Creating, BeforeLinks, Adding, Changing, Starting
<1> QED
  BY <1>2, <1>3, <1>4, <1>5, <1>6 DEF MainStep

(* Once something has given up, only the stage is kept track of.           *)
LEMMA Disturbed ==
    ASSUME IInv, LInv, [Next]_vars, broken' \/ stopped'
    PROVE  LInv'
<1>1. stage' \in Stages /\ applied' \in 0 .. Len(Mods)
  <2>1. CASE UNCHANGED vars
    BY <2>1 DEF vars, LInv
  <2>2. CASE Work
    BY <2>2 DEF Work, LInv, create_container, CreateNetwork, ConnectNetwork, SetDown, AddShaper,
                FindInterfaces, SetLink, run_binary_in_device, ClearRules, RemoveContainers,
                RemoveNetworks
  <2>3. CASE Interrupt
    BY <2>3 DEF Interrupt, LInv, Stages
  <2>4. CASE MainStep
    <3>1. stage' \in Stages
      BY <2>4 DEF MainStep, BuildImage, SetUp, AddBridges, RaiseLinks, StartBinaries, StartMods,
                  make_modification, DurationOver, Exit, Steps, Stages
    <3>2. applied' = applied \/ (applied < Len(Mods) /\ applied' = applied + 1)
      BY <2>4 DEF MainStep, BuildImage, SetUp, make_modification, DurationOver, Exit
    <3>3. Len(Mods) \in Nat
      BY ExperimentAssumption
    <3> QED BY <3>1, <3>2, <3>3 DEF LInv
  <2> QED BY <2>1, <2>2, <2>3, <2>4 DEF Next
<1> QED
  BY <1>1 DEF LInv

LEMMA LinksInvariance == Unambiguous => (FairSpec => []LInv)
<1> SUFFICES ASSUME Unambiguous PROVE FairSpec => []LInv
  OBVIOUS
<1>1. Init => LInv
  <2>1. Len(Mods) \in Nat
    BY ExperimentAssumption
  <2> QED
    BY <2>1 DEF Init, LInv, Stages, Orderly, Creating, BeforeLinks, Adding, Changing, Starting, AtLast
<1>2. ASSUME IInv, LInv, [Next]_vars PROVE LInv'
  <2>1. CASE broken' \/ stopped'
    BY <1>2, <2>1, Disturbed
  <2>2. CASE ~broken' /\ ~stopped'
    <3>1. CASE Work
      <4>1. PICK t \in tasks :
              \/ create_container(t)
              \/ CreateNetwork(t) \/ ConnectNetwork(t) \/ SetDown(t) \/ AddShaper(t)
              \/ FindInterfaces(t) \/ SetLink(t)
              \/ run_binary_in_device(t)
              \/ ClearRules(t) \/ RemoveContainers(t) \/ RemoveNetworks(t)
        BY <3>1 DEF Work
      <4>2. ~stopped
        BY <2>2, <4>1 DEF create_container, CreateNetwork, ConnectNetwork, SetDown, AddShaper,
           FindInterfaces, SetLink, run_binary_in_device, ClearRules, RemoveContainers,
           RemoveNetworks, history
      <4>3. FindInterfaces(t) \/ SetLink(t) => ~broken
        BY <2>2 DEF FindInterfaces, SetLink
      <4> QED
        BY <1>2, <2>2, <4>1, <4>2, <4>3, AddsKeep, ChangesKeep, OthersKeep
    <3>2. CASE MainStep
      BY <1>2, <2>2, <3>2, MainKeeps
    <3>3. CASE Interrupt
      BY <2>2, <3>3 DEF Interrupt
    <3>4. CASE UNCHANGED vars
      BY <1>2, <3>4 DEF vars, docker, runner, history, LInv, Orderly, Creating, BeforeLinks,
         Adding, AddingOK, OnePerLink, Untouched, Changing, ChangingOK, AsConfigured,
         Starting, AtLast
    <3> QED BY <1>2, <3>1, <3>2, <3>3, <3>4 DEF Next
  <2> QED BY <2>1, <2>2
<1> QED
  BY <1>1, <1>2, InitInv, StepInv, PTL DEF FairSpec

(* bridge_up, bridge_down and make_modification, for every number of       *)
(* nodes, every configuration whose modifications are unambiguous and any  *)
(* number of failing calls of docker: as long as nothing gives up, every   *)
(* link that no worker is changing or has missed is at both ends as the    *)
(* configuration asks.                                                     *)
THEOREM LinksAlwaysFollow == Unambiguous => (FairSpec => []LinksFollowScenario)
<1>1. IInv /\ LInv => LinksFollowScenario
  <2> SUFFICES ASSUME IInv, LInv, running # {}, ~broken, ~stopped, NEW e \in Planned \ missed
               PROVE  (\E t \in tasks : Changes(t) /\ t.on = e) \/ AsConfigured(e)
    BY DEF LinksFollowScenario, Changes, AsConfigured
  <2>1. Orderly /\ stage \in Stages
    BY DEF LInv
  <2>2. stage \notin {"image", "create", "bridges", "up"}
    BY <2>1 DEF Orderly, BeforeLinks
  <2>3. CASE stage = "mods"
    BY <2>1, <2>3 DEF Orderly, Changing, ChangingOK
  <2>4. CASE stage = "binaries"
    BY <2>1, <2>4 DEF Orderly, Starting
  <2>5. CASE stage \in {"cleanup", "end"}
    BY <2>1, <2>5 DEF Orderly, AtLast
  <2> QED BY <2>1, <2>2, <2>3, <2>4, <2>5 DEF Stages
<1> QED
  BY <1>1, LinksInvariance, InitInv, StepInv, PTL DEF FairSpec

-----------------------------------------------------------------------------
(***************************************************************************)
(* The evaluation.  For every number of nodes and every length of the log: *)
(* the graph of get_experiment_stats counts sessions, no removal fails,    *)
(* its times are those of the present topology, and the page draws what    *)
(* both ends report.                                                       *)
(***************************************************************************)

Rev(p) == <<p[2], p[1]>>
Seen(p) == {p, Rev(p)} \subseteq visible

(* The parts of the invariant that one event can disturb together.         *)
SetsOK == incoming \subseteq Pairs /\ outgoing \subseteq Pairs /\ visible \subseteq Pairs
GraphOK == graph \in [Pairs -> Nat] /\ GraphCountsSessions
LinksOK == links = {p \in Pairs : Matched(p[1], p[2])}
MeetsOK ==
    /\ meets \in [{{p[1], p[2]} : p \in Pairs} -> Nat]
    /\ \A p \in Pairs : meets[{p[1], p[2]}] = IF Seen(p) THEN 1 ELSE 0
StatsInv == SetsOK /\ GraphOK /\ LinksOK /\ MeetsOK

(* A pair and its reverse are pairs, and they are different.               *)
LEMMA PairFacts ==
    ASSUME NEW p \in Pairs
    PROVE  /\ p = <<p[1], p[2]>> /\ Rev(p) \in Pairs
           /\ p[1] \in Vertices /\ p[2] \in Vertices /\ p[1] # p[2]
           /\ Rev(Rev(p)) = p /\ Rev(p) # p
BY DEF Pairs, Rev

LEMMA PairsHaveEnds ==
    ASSUME NEW a, NEW b, <<a, b>> \in Pairs
    PROVE  a \in Vertices /\ b \in Vertices /\ a # b /\ <<b, a>> \in Pairs
BY DEF Pairs

(* add_edge and erase_edge change the entries of one pair, both ways.      *)
LEMMA EdgeFacts ==
    ASSUME NEW a, NEW b, <<a, b>> \in Pairs, graph \in [Pairs -> Nat]
    PROVE  /\ add_edge(a, b) \in [Pairs -> Nat]
           /\ HasEdge(a, b) => erase_edge(a, b) \in [Pairs -> Nat]
           /\ \A p \in Pairs :
                /\ p \in {<<a, b>>, <<b, a>>} =>
                     /\ add_edge(a, b)[p] = graph[p] + 1
                     /\ erase_edge(a, b)[p] = graph[p] - 1
                /\ p \notin {<<a, b>>, <<b, a>>} =>
                     add_edge(a, b)[p] = graph[p] /\ erase_edge(a, b)[p] = graph[p]
<1>1. <<a, b>> \in Pairs /\ <<b, a>> \in Pairs /\ <<a, b>> # <<b, a>>
  BY PairsHaveEnds
<1> QED
  BY <1>1 DEF add_edge, erase_edge, HasEdge

(* A new session that both ends report: one more for its pair.             *)
LEMMA SessionOpens ==
    ASSUME StatsInv, NEW a, NEW b, <<a, b>> \in Pairs, ~Matched(a, b),
           graph' \in [Pairs -> Nat], failed' = failed,
           \A p \in Pairs : p \in {<<a, b>>, <<b, a>>} => graph'[p] = graph[p] + 1,
           \A p \in Pairs : p \notin {<<a, b>>, <<b, a>>} => graph'[p] = graph[p],
           \A p \in Pairs : Matched(p[1], p[2])' <=> Matched(p[1], p[2]) \/ p = <<a, b>>,
           DrawLink(a, b)
    PROVE  GraphOK' /\ LinksOK'
<1>1. LinksOK'
  BY DEF StatsInv, LinksOK, DrawLink
<1>2. ASSUME NEW p \in Pairs
      PROVE  graph'[p] = Count(p[1], p[2])' + Count(p[2], p[1])'
  <2>1. /\ p = <<p[1], p[2]>> /\ Rev(p) \in Pairs /\ Rev(p) = <<p[2], p[1]>>
        /\ Rev(p)[1] = p[2] /\ Rev(p)[2] = p[1] /\ Rev(p) # p /\ Rev(Rev(p)) = p
    BY PairFacts DEF Rev
  <2>2. graph[p] = Count(p[1], p[2]) + Count(p[2], p[1])
    BY DEF StatsInv, GraphOK, GraphCountsSessions
  <2>3. CASE p = <<a, b>>
    <3>1. Matched(p[1], p[2])' /\ ~Matched(p[1], p[2])
      BY <2>3
    <3>2. Matched(p[2], p[1])' <=> Matched(p[2], p[1])
      BY <2>1, <2>3
    <3>3. graph'[p] = graph[p] + 1
      BY <2>3
    <3> QED
      BY <2>2, <3>1, <3>2, <3>3 DEF Count
  <2>4. CASE p = <<b, a>>
    <3>1. Matched(p[2], p[1])' /\ ~Matched(p[2], p[1])
      BY <2>1, <2>4
    <3>2. Matched(p[1], p[2])' <=> Matched(p[1], p[2])
      BY <2>1, <2>4
    <3>3. graph'[p] = graph[p] + 1
      BY <2>4
    <3> QED
      BY <2>2, <3>1, <3>2, <3>3 DEF Count
  <2>5. CASE p \notin {<<a, b>>, <<b, a>>}
    <3>1. Rev(p) \notin {<<a, b>>, <<b, a>>}
      BY <2>5 DEF Rev, Pairs
    <3>2. Matched(p[1], p[2])' <=> Matched(p[1], p[2])
      BY <2>5
    <3>3. Matched(p[2], p[1])' <=> Matched(p[2], p[1])
      BY <2>1, <3>1
    <3> QED
      BY <2>2, <2>5, <3>2, <3>3 DEF Count
  <2> QED
    BY <2>3, <2>4, <2>5
<1> QED
  BY <1>1, <1>2 DEF StatsInv, GraphOK, GraphCountsSessions

(* A session that both ends reported is gone: one less, and the entry is   *)
(* there to be removed.                                                    *)
LEMMA SessionCloses ==
    ASSUME StatsInv, NEW a, NEW b, <<a, b>> \in Pairs, Matched(a, b),
           graph' = erase_edge(a, b) \/ graph' = erase_edge(b, a),
           failed' = failed,
           \A p \in Pairs : Matched(p[1], p[2])' <=> Matched(p[1], p[2]) /\ p # <<a, b>>,
           EraseLink(a, b)
    PROVE  GraphOK' /\ LinksOK'
<1>0. <<b, a>> \in Pairs /\ <<a, b>> # <<b, a>> /\ graph \in [Pairs -> Nat]
  BY PairsHaveEnds DEF StatsInv, GraphOK
<1>1. graph[<<a, b>>] > 0 /\ graph[<<b, a>>] > 0
  BY <1>0 DEF StatsInv, GraphOK, GraphCountsSessions, Count
<1>3. /\ graph' \in [Pairs -> Nat]
      /\ \A p \in Pairs : p \in {<<a, b>>, <<b, a>>} => graph'[p] = graph[p] - 1
      /\ \A p \in Pairs : p \notin {<<a, b>>, <<b, a>>} => graph'[p] = graph[p]
  <2>1. HasEdge(a, b)
    BY <1>1 DEF HasEdge
  <2>2. erase_edge(b, a) = erase_edge(a, b)
    BY <1>0 DEF erase_edge
  <2>3. graph' = erase_edge(a, b)
    BY <2>2
  <2>4. /\ graph' \in [Pairs -> Nat]
        /\ \A p \in Pairs :
             /\ p \in {<<a, b>>, <<b, a>>} => graph'[p] = graph[p] - 1
             /\ p \notin {<<a, b>>, <<b, a>>} => graph'[p] = graph[p]
    BY <1>0, <2>1, <2>3, EdgeFacts
  <2> QED
    BY <2>4
<1>4. LinksOK'
  BY DEF StatsInv, LinksOK, EraseLink
<1>5. ASSUME NEW p \in Pairs
      PROVE  graph'[p] = Count(p[1], p[2])' + Count(p[2], p[1])'
  <2>1. /\ p = <<p[1], p[2]>> /\ Rev(p) \in Pairs /\ Rev(p) = <<p[2], p[1]>>
        /\ Rev(p)[1] = p[2] /\ Rev(p)[2] = p[1] /\ Rev(p) # p /\ Rev(Rev(p)) = p
    BY PairFacts DEF Rev
  <2>2. graph[p] = Count(p[1], p[2]) + Count(p[2], p[1])
    BY DEF StatsInv, GraphOK, GraphCountsSessions
  <2>3. CASE p = <<a, b>>
    <3>1. ~Matched(p[1], p[2])' /\ Matched(p[1], p[2])
      BY <2>3
    <3>2. Matched(p[2], p[1])' <=> Matched(p[2], p[1])
      BY <2>1, <2>3
    <3>3. graph'[p] = graph[p] - 1
      BY <1>3, <2>3
    <3> QED
      BY <2>2, <3>1, <3>2, <3>3 DEF Count
  <2>4. CASE p = <<b, a>>
    <3>1. ~Matched(p[2], p[1])' /\ Matched(p[2], p[1])
      BY <2>1, <2>4
    <3>2. Matched(p[1], p[2])' <=> Matched(p[1], p[2])
      BY <2>1, <2>4
    <3>3. graph'[p] = graph[p] - 1
      BY <1>3, <2>4
    <3> QED
      BY <2>2, <3>1, <3>2, <3>3 DEF Count
  <2>5. CASE p \notin {<<a, b>>, <<b, a>>}
    <3>1. Rev(p) \notin {<<a, b>>, <<b, a>>}
      BY <2>5 DEF Rev, Pairs
    <3>2. Matched(p[1], p[2])' <=> Matched(p[1], p[2])
      BY <2>5
    <3>3. Matched(p[2], p[1])' <=> Matched(p[2], p[1])
      BY <2>1, <3>1
    <3>4. graph'[p] = graph[p]
      BY <1>3, <2>5
    <3> QED
      BY <2>2, <3>2, <3>3, <3>4 DEF Count
  <2> QED
    BY <2>3, <2>4, <2>5
<1> QED
  BY <1>3, <1>4, <1>5 DEF StatsInv, GraphOK, GraphCountsSessions

-----------------------------------------------------------------------------

(* An event that concerns neither sessions nor the graph.                  *)
LEMMA SessionsUnchanged ==
    ASSUME StatsInv, UNCHANGED <<graph, incoming, outgoing, links, failed>>
    PROVE  GraphOK' /\ LinksOK'
BY DEF StatsInv, GraphOK, GraphCountsSessions, Count, Matched, LinksOK

(* The page keeps one entry for two nodes while both see the other.        *)
LEMMA MeetingChanges ==
    ASSUME StatsInv, NEW a, NEW b, <<a, b>> \in Pairs
    PROVE  /\ Saw(a, b) => MeetsOK'
           /\ Lost(a, b) /\ <<a, b>> \in visible => MeetsOK'
<1> DEFINE pair == <<a, b>>
<1>0. /\ <<b, a>> \in Pairs /\ a # b
      /\ {a, b} \in {{p[1], p[2]} : p \in Pairs}
  BY PairsHaveEnds DEF Pairs
<1>1. \A p \in Pairs : {p[1], p[2]} = {a, b} <=> p \in {<<a, b>>, <<b, a>>}
  BY <1>0 DEF Pairs
<1>2. \A p \in Pairs : p \in {<<a, b>>, <<b, a>>} =>
        (Seen(p) <=> <<a, b>> \in visible /\ <<b, a>> \in visible)
  BY DEF Seen, Rev
<1>3. \A p \in Pairs : p \notin {<<a, b>>, <<b, a>>} => Rev(p) \notin {<<a, b>>, <<b, a>>}
  BY DEF Rev, Pairs
<1>4. meets[{a, b}] = IF <<a, b>> \in visible /\ <<b, a>> \in visible THEN 1 ELSE 0
  <2>1. <<a, b>>[1] = a /\ <<a, b>>[2] = b
    OBVIOUS
  <2> QED
    BY <1>2, <2>1 DEF StatsInv, MeetsOK
<1>5. ASSUME Saw(a, b) PROVE MeetsOK'
  <2>1. visible' = visible \cup {<<a, b>>} /\ <<a, b>> \notin visible
    BY <1>5 DEF Saw
  <2>2. meets' = [meets EXCEPT ![{a, b}] = IF <<b, a>> \in visible THEN @ + 1 ELSE @]
    BY <1>5 DEF Saw, DrawMeeting, StatsInv, MeetsOK
  <2>3. \A p \in Pairs : p \notin {<<a, b>>, <<b, a>>} => (Seen(p)' <=> Seen(p))
    BY <1>3, <2>1 DEF Seen
  <2>4. \A p \in Pairs : p \in {<<a, b>>, <<b, a>>} => (Seen(p)' <=> <<b, a>> \in visible)
    BY <1>0, <2>1 DEF Seen, Rev
  <2>5. ASSUME NEW p \in Pairs, p \in {<<a, b>>, <<b, a>>}
        PROVE  meets'[{p[1], p[2]}] = IF Seen(p)' THEN 1 ELSE 0
    <3>1. {p[1], p[2]} = {a, b} /\ {a, b} \in DOMAIN meets
      BY <1>0, <1>1, <2>5 DEF StatsInv, MeetsOK
    <3>2. meets'[{a, b}] = IF <<b, a>> \in visible THEN 1 ELSE 0
      BY <1>4, <2>1, <2>2, <3>1
    <3> QED BY <2>4, <2>5, <3>1, <3>2
  <2>6. ASSUME NEW p \in Pairs, p \notin {<<a, b>>, <<b, a>>}
        PROVE  meets'[{p[1], p[2]}] = IF Seen(p)' THEN 1 ELSE 0
    <3>1. {p[1], p[2]} # {a, b} /\ {p[1], p[2]} \in DOMAIN meets
      BY <1>1, <2>6 DEF StatsInv, MeetsOK
    <3> QED BY <2>2, <2>3, <2>6, <3>1 DEF StatsInv, MeetsOK
  <2>7. meets' \in [{{p[1], p[2]} : p \in Pairs} -> Nat]
    BY <1>0, <2>2 DEF StatsInv, MeetsOK
  <2> QED
    BY <2>5, <2>6, <2>7 DEF MeetsOK
<1>6. ASSUME Lost(a, b), <<a, b>> \in visible PROVE MeetsOK'
  <2>1. visible' = visible \ {<<a, b>>} /\ <<a, b>> \in visible
    BY <1>6 DEF Lost
  <2>2. meets' = [meets EXCEPT ![{a, b}] =
                    IF <<b, a>> \in visible THEN (IF @ > 0 THEN @ - 1 ELSE 0) ELSE @]
    BY <1>6 DEF Lost, EraseMeeting, StatsInv, MeetsOK
  <2>3. \A p \in Pairs : p \notin {<<a, b>>, <<b, a>>} => (Seen(p)' <=> Seen(p))
    BY <1>3, <2>1 DEF Seen
  <2>4. \A p \in Pairs : p \in {<<a, b>>, <<b, a>>} => ~Seen(p)'
    BY <2>1 DEF Seen, Rev
  <2>5. ASSUME NEW p \in Pairs, p \in {<<a, b>>, <<b, a>>}
        PROVE  meets'[{p[1], p[2]}] = IF Seen(p)' THEN 1 ELSE 0
    <3>1. {p[1], p[2]} = {a, b} /\ {a, b} \in DOMAIN meets
      BY <1>0, <1>1, <2>5 DEF StatsInv, MeetsOK
    <3>2. meets'[{a, b}] = 0
      BY <1>4, <2>1, <2>2, <3>1
    <3> QED BY <2>4, <2>5, <3>1, <3>2
  <2>6. ASSUME NEW p \in Pairs, p \notin {<<a, b>>, <<b, a>>}
        PROVE  meets'[{p[1], p[2]}] = IF Seen(p)' THEN 1 ELSE 0
    <3>1. {p[1], p[2]} # {a, b} /\ {p[1], p[2]} \in DOMAIN meets
      BY <1>1, <2>6 DEF StatsInv, MeetsOK
    <3> QED BY <2>2, <2>3, <2>6, <3>1 DEF StatsInv, MeetsOK
  <2>7. meets' \in [{{p[1], p[2]} : p \in Pairs} -> Nat]
    BY <1>0, <2>2 DEF StatsInv, MeetsOK
  <2> QED
    BY <2>5, <2>6, <2>7 DEF MeetsOK
<1> QED
  BY <1>5, <1>6

(* What erase_edge is to take out for a session of both reports is there,  *)
(* so that the end of one raises only where it has no beginning.           *)
LEMMA EdgeIsThere ==
    ASSUME StatsInv, NEW a, NEW b, <<a, b>> \in Pairs
    PROVE  /\ EndError(<<a, b>> \in incoming, <<b, a>> \in outgoing, a, b)
                = IF <<a, b>> \in incoming THEN "no" ELSE "session"
           /\ EndError(<<a, b>> \in outgoing, <<b, a>> \in incoming, a, b)
                = IF <<a, b>> \in outgoing THEN "no" ELSE "session"
<1>1. <<b, a>> \in Pairs
  BY PairsHaveEnds
<1>2. /\ graph[<<a, b>>] = Count(a, b) + Count(b, a)
      /\ graph[<<b, a>>] = Count(b, a) + Count(a, b)
  BY <1>1 DEF StatsInv, GraphOK, GraphCountsSessions
<1>3. Matched(a, b) \/ Matched(b, a) => HasEdge(a, b)
  BY <1>2 DEF Count, HasEdge
<1> QED
  BY <1>3 DEF EndError, Matched

(* The line the evaluation fails at changes nothing, and it is never one   *)
(* that erase_edge fails at.                                               *)
LEMMA RaiseStep ==
    ASSUME StatsInv, NEW what \in {"visible", "session"}, Raise(what)
    PROVE  StatsInv'
BY DEF Raise, sets, printed, StatsInv, SetsOK, GraphOK, GraphCountsSessions, Count, Matched,
       LinksOK, MeetsOK, Seen

(* The reports of one end and when they complete or end a session.         *)
LEMMA IncomingReports ==
    ASSUME StatsInv, NEW a, NEW b, <<a, b>> \in Pairs
    PROVE  /\ OpenIncoming(a, b) => GraphOK' /\ LinksOK'
           /\ CloseIncoming(a, b) /\ <<a, b>> \in incoming => GraphOK' /\ LinksOK'
<1>0. <<b, a>> \in Pairs /\ a # b /\ graph \in [Pairs -> Nat]
  BY PairsHaveEnds DEF StatsInv, GraphOK
<1>1. ASSUME OpenIncoming(a, b) PROVE GraphOK' /\ LinksOK'
  <2>1. incoming' = incoming \cup {<<a, b>>} /\ <<a, b>> \notin incoming /\ outgoing' = outgoing
    BY <1>1 DEF OpenIncoming
  <2>2. ~Matched(b, a)
    BY <2>1 DEF Matched
  <2>3. failed' = failed
    BY <1>1 DEF OpenIncoming, NextEvent
  <2>4. CASE <<b, a>> \in outgoing
    <3>1. graph' = add_edge(a, b) /\ DrawLink(b, a)
      BY <1>1, <2>4 DEF OpenIncoming
    <3>2. \A p \in Pairs : Matched(p[1], p[2])' <=> Matched(p[1], p[2]) \/ p = <<b, a>>
      BY <2>1, <2>4 DEF Matched, Pairs
    <3>3. /\ graph' \in [Pairs -> Nat]
          /\ \A p \in Pairs : p \in {<<b, a>>, <<a, b>>} => graph'[p] = graph[p] + 1
          /\ \A p \in Pairs : p \notin {<<b, a>>, <<a, b>>} => graph'[p] = graph[p]
      BY <1>0, <3>1, EdgeFacts
    <3> QED
      BY <1>0, <2>2, <2>3, <3>1, <3>2, <3>3, SessionOpens
  <2>5. CASE <<b, a>> \notin outgoing
    <3>1. UNCHANGED <<graph, links>>
      BY <1>1, <2>5 DEF OpenIncoming
    <3>2. \A p \in Pairs : Matched(p[1], p[2])' <=> Matched(p[1], p[2])
      BY <2>1, <2>5 DEF Matched, Pairs
    <3>3. \A p \in Pairs : Matched(p[2], p[1])' <=> Matched(p[2], p[1])
      BY <2>1, <2>5 DEF Matched, Pairs
    <3> QED
      BY <2>3, <3>1, <3>2, <3>3 DEF StatsInv, GraphOK, GraphCountsSessions, Count, LinksOK
  <2> QED
    BY <2>4, <2>5
<1>2. ASSUME CloseIncoming(a, b), <<a, b>> \in incoming
      PROVE  GraphOK' /\ LinksOK'
  <2>0. EndError(<<a, b>> \in incoming, <<b, a>> \in outgoing, a, b) = "no"
    BY <1>2, EdgeIsThere
  <2>1. incoming' = incoming \ {<<a, b>>} /\ <<a, b>> \in incoming /\ outgoing' = outgoing
    BY <1>2, <2>0 DEF CloseIncoming
  <2>4. failed' = failed
    BY <1>2, <2>0 DEF CloseIncoming, NextEvent
  <2>2. CASE <<b, a>> \in outgoing
    <3>1. graph' = erase_edge(a, b) /\ EraseLink(b, a)
      BY <1>2, <2>0, <2>2 DEF CloseIncoming
    <3>2. \A p \in Pairs : Matched(p[1], p[2])' <=> Matched(p[1], p[2]) /\ p # <<b, a>>
      BY <2>1 DEF Matched, Pairs
    <3>3. Matched(b, a)
      BY <2>1, <2>2 DEF Matched
    <3> QED
      BY <1>0, <2>4, <3>1, <3>2, <3>3, SessionCloses
  <2>3. CASE <<b, a>> \notin outgoing
    <3>1. UNCHANGED <<graph, links>>
      BY <1>2, <2>0, <2>3 DEF CloseIncoming
    <3>2. \A p \in Pairs : Matched(p[1], p[2])' <=> Matched(p[1], p[2])
      BY <2>1, <2>3 DEF Matched, Pairs
    <3>3. \A p \in Pairs : Matched(p[2], p[1])' <=> Matched(p[2], p[1])
      BY <2>1, <2>3 DEF Matched, Pairs
    <3> QED
      BY <2>4, <3>1, <3>2, <3>3 DEF StatsInv, GraphOK, GraphCountsSessions, Count, LinksOK
  <2> QED
    BY <2>2, <2>3
<1> QED
  BY <1>1, <1>2

LEMMA OutgoingReports ==
    ASSUME StatsInv, NEW a, NEW b, <<a, b>> \in Pairs
    PROVE  /\ OpenOutgoing(a, b) => GraphOK' /\ LinksOK'
           /\ CloseOutgoing(a, b) /\ <<a, b>> \in outgoing => GraphOK' /\ LinksOK'
<1>0. <<b, a>> \in Pairs /\ a # b /\ graph \in [Pairs -> Nat]
  BY PairsHaveEnds DEF StatsInv, GraphOK
<1>1. ASSUME OpenOutgoing(a, b) PROVE GraphOK' /\ LinksOK'
  <2>1. outgoing' = outgoing \cup {<<a, b>>} /\ <<a, b>> \notin outgoing /\ incoming' = incoming
    BY <1>1 DEF OpenOutgoing
  <2>2. ~Matched(a, b)
    BY <2>1 DEF Matched
  <2>3. failed' = failed
    BY <1>1 DEF OpenOutgoing, NextEvent
  <2>4. CASE <<b, a>> \in incoming
    <3>1. graph' = add_edge(a, b) /\ DrawLink(a, b)
      BY <1>1, <2>4 DEF OpenOutgoing
    <3>2. \A p \in Pairs : Matched(p[1], p[2])' <=> Matched(p[1], p[2]) \/ p = <<a, b>>
      BY <2>1, <2>4 DEF Matched, Pairs
    <3>3. /\ graph' \in [Pairs -> Nat]
          /\ \A p \in Pairs : p \in {<<a, b>>, <<b, a>>} => graph'[p] = graph[p] + 1
          /\ \A p \in Pairs : p \notin {<<a, b>>, <<b, a>>} => graph'[p] = graph[p]
      BY <1>0, <3>1, EdgeFacts
    <3> QED
      BY <1>0, <2>2, <2>3, <3>1, <3>2, <3>3, SessionOpens
  <2>5. CASE <<b, a>> \notin incoming
    <3>1. UNCHANGED <<graph, links>>
      BY <1>1, <2>5 DEF OpenOutgoing
    <3>2. \A p \in Pairs : Matched(p[1], p[2])' <=> Matched(p[1], p[2])
      BY <2>1, <2>5 DEF Matched, Pairs
    <3>3. \A p \in Pairs : Matched(p[2], p[1])' <=> Matched(p[2], p[1])
      BY <2>1, <2>5 DEF Matched, Pairs
    <3> QED
      BY <2>3, <3>1, <3>2, <3>3 DEF StatsInv, GraphOK, GraphCountsSessions, Count, LinksOK
  <2> QED
    BY <2>4, <2>5
<1>2. ASSUME CloseOutgoing(a, b), <<a, b>> \in outgoing
      PROVE  GraphOK' /\ LinksOK'
  <2>0. EndError(<<a, b>> \in outgoing, <<b, a>> \in incoming, a, b) = "no"
    BY <1>2, EdgeIsThere
  <2>1. outgoing' = outgoing \ {<<a, b>>} /\ <<a, b>> \in outgoing /\ incoming' = incoming
    BY <1>2, <2>0 DEF CloseOutgoing
  <2>4. failed' = failed
    BY <1>2, <2>0 DEF CloseOutgoing, NextEvent
  <2>2. CASE <<b, a>> \in incoming
    <3>1. graph' = erase_edge(a, b) /\ EraseLink(a, b)
      BY <1>2, <2>0, <2>2 DEF CloseOutgoing
    <3>2. \A p \in Pairs : Matched(p[1], p[2])' <=> Matched(p[1], p[2]) /\ p # <<a, b>>
      BY <2>1 DEF Matched, Pairs
    <3>3. Matched(a, b)
      BY <2>1, <2>2 DEF Matched
    <3> QED
      BY <1>0, <2>4, <3>1, <3>2, <3>3, SessionCloses
  <2>3. CASE <<b, a>> \notin incoming
    <3>1. UNCHANGED <<graph, links>>
      BY <1>2, <2>0, <2>3 DEF CloseOutgoing
    <3>2. \A p \in Pairs : Matched(p[1], p[2])' <=> Matched(p[1], p[2])
      BY <2>1, <2>3 DEF Matched, Pairs
    <3>3. \A p \in Pairs : Matched(p[2], p[1])' <=> Matched(p[2], p[1])
      BY <2>1, <2>3 DEF Matched, Pairs
    <3> QED
      BY <2>4, <3>1, <3>2, <3>3 DEF StatsInv, GraphOK, GraphCountsSessions, Count, LinksOK
  <2> QED
    BY <2>2, <2>3
<1> QED
  BY <1>1, <1>2

-----------------------------------------------------------------------------

(* StatsInit: the empty log.                                                    *)
LEMMA StatsInitInv == StatsInit => StatsInv
BY DEF StatsInit, StatsInv, SetsOK, GraphOK, GraphCountsSessions, Count, Matched, LinksOK, MeetsOK,
       Seen, Pairs

LEMMA StatsStepInv == StatsInv /\ [StatsNext]_statsVars => StatsInv'
<1> SUFFICES ASSUME StatsInv, [StatsNext]_statsVars PROVE StatsInv'
  OBVIOUS
<1>1. CASE UNCHANGED statsVars
  BY <1>1 DEF statsVars, sets, printed, StatsInv, SetsOK, GraphOK, GraphCountsSessions, Count, Matched,
              LinksOK, MeetsOK, Seen
<1>2. ASSUME NEW p \in Pairs, Saw(p[1], p[2]) \/ (Lost(p[1], p[2]) /\ p \in visible)
      PROVE  StatsInv'
  <2>1. <<p[1], p[2]>> \in Pairs /\ p = <<p[1], p[2]>>
    BY PairFacts
  <2>2. UNCHANGED <<graph, incoming, outgoing, links, failed>>
    BY <1>2, <2>1 DEF Saw, Lost, NextEvent
  <2>3. SetsOK'
    BY <1>2, <2>1, <2>2 DEF Saw, Lost, StatsInv, SetsOK
  <2> QED
    BY <1>2, <2>1, <2>2, <2>3, SessionsUnchanged, MeetingChanges DEF StatsInv
<1>3. ASSUME NEW p \in Pairs,
             \/ OpenIncoming(p[1], p[2]) \/ OpenOutgoing(p[1], p[2])
             \/ CloseIncoming(p[1], p[2]) /\ p \in incoming
             \/ CloseOutgoing(p[1], p[2]) /\ p \in outgoing
      PROVE  StatsInv'
  <2>1. <<p[1], p[2]>> \in Pairs /\ p = <<p[1], p[2]>>
    BY PairFacts
  <2>2. UNCHANGED <<visible, meets>>
    BY <1>3, <2>1 DEF OpenIncoming, OpenOutgoing, CloseIncoming, CloseOutgoing, Raise, sets, printed
  <2>3. MeetsOK'
    BY <2>2 DEF StatsInv, MeetsOK, Seen
  <2>4. SetsOK'
    BY <1>3, <2>1, <2>2 DEF OpenIncoming, OpenOutgoing, CloseIncoming, CloseOutgoing,
                           Raise, sets, StatsInv, SetsOK
  <2>5. GraphOK' /\ LinksOK'
    BY <1>3, <2>1, IncomingReports, OutgoingReports
  <2> QED
    BY <2>3, <2>4, <2>5 DEF StatsInv
<1>4. ASSUME NEW p \in Pairs,
             \/ Lost(p[1], p[2]) /\ p \notin visible
             \/ CloseIncoming(p[1], p[2]) /\ p \notin incoming
             \/ CloseOutgoing(p[1], p[2]) /\ p \notin outgoing
      PROVE  StatsInv'
  <2>1. <<p[1], p[2]>> \in Pairs /\ p = <<p[1], p[2]>>
    BY PairFacts
  <2>2. Raise("visible") \/ Raise("session")
    BY <1>4, <2>1, EdgeIsThere DEF Lost, CloseIncoming, CloseOutgoing
  <2> QED
    BY <2>2, RaiseStep
<1> QED
  BY <1>1, <1>2, <1>3, <1>4 DEF StatsNext

LEMMA InvHolds == StatsSpec => []StatsInv
BY StatsInitInv, StatsStepInv, PTL DEF StatsSpec

Times == 1 .. MaxEvents \cup {None}

(* The variables of Record and NextEvent.                                  *)
TimesOK ==
    /\ connTime \in Times /\ syncTime \in Times /\ since \in Times
    /\ lastState \in BOOLEAN /\ failed \in {"no", "visible", "session", "edge"}
    /\ time \in 0 .. MaxEvents

(* A line is digested or fails the evaluation.                             *)
LEMMA EveryStep ==
    StatsNext => NextEvent \/ \E what \in {"visible", "session", "edge"} : Raise(what)
<1>1. ASSUME NEW p \in Pairs,
             \/ Saw(p[1], p[2]) \/ OpenIncoming(p[1], p[2]) \/ OpenOutgoing(p[1], p[2])
      PROVE  NextEvent
  BY <1>1, Zenon DEF Saw, OpenIncoming, OpenOutgoing
<1>2. ASSUME NEW p \in Pairs,
             \/ Lost(p[1], p[2]) \/ CloseIncoming(p[1], p[2]) \/ CloseOutgoing(p[1], p[2])
      PROVE  NextEvent \/ Raise("visible") \/ Raise("session") \/ Raise("edge")
  <2>1. CASE Lost(p[1], p[2])
    BY <2>1, Zenon DEF Lost
  <2>2. CASE CloseIncoming(p[1], p[2])
    <3>1. PICK e : e = EndError(<<p[1], p[2]>> \in incoming, <<p[2], p[1]>> \in outgoing, p[1], p[2])
      OBVIOUS
    <3>2. e \in {"no", "session", "edge"}
      BY <3>1 DEF EndError
    <3>3. NextEvent \/ (e # "no" /\ Raise(e))
      BY <2>2, <3>1, Zenon DEF CloseIncoming
    <3> QED
      BY <3>2, <3>3
  <2>3. CASE CloseOutgoing(p[1], p[2])
    <3>1. PICK e : e = EndError(<<p[1], p[2]>> \in outgoing, <<p[2], p[1]>> \in incoming, p[1], p[2])
      OBVIOUS
    <3>2. e \in {"no", "session", "edge"}
      BY <3>1 DEF EndError
    <3>3. NextEvent \/ (e # "no" /\ Raise(e))
      BY <2>3, <3>1, Zenon DEF CloseOutgoing
    <3> QED
      BY <3>2, <3>3
  <2> QED
    BY <1>2, <2>1, <2>2, <2>3
<1> QED
  BY <1>1, <1>2, Zenon DEF StatsNext

LEMMA TimesStep == TimesOK /\ [StatsNext]_statsVars => TimesOK'
<1> USE StatsAssumption
<1>1. ASSUME TimesOK, NextEvent
      PROVE  /\ connTime' \in Times /\ syncTime' \in Times /\ since' \in Times
             /\ lastState' \in BOOLEAN /\ time' \in 0 .. MaxEvents
  <2>1. time' \in 1 .. MaxEvents
    BY <1>1 DEF NextEvent, TimesOK
  <2>2. IsConnected(graph') \in BOOLEAN
    BY DEF IsConnected
  <2>3. Record
    BY <1>1 DEF NextEvent
  <2>4. lastState' \in BOOLEAN
    BY <2>2, <2>3 DEF Record
  <2>5. connTime' \in {None, time', connTime} /\ syncTime' \in {None, time'}
    BY <2>3 DEF Record
  <2>6. since' \in {None, time', since}
    BY <1>1 DEF NextEvent
  <2> QED
    BY <1>1, <2>1, <2>4, <2>5, <2>6 DEF TimesOK, Times
<1>2. ASSUME TimesOK, UNCHANGED statsVars PROVE TimesOK'
  BY <1>2 DEF statsVars, TimesOK
<1>3. ASSUME TimesOK, NextEvent PROVE TimesOK'
  BY <1>1, <1>3 DEF NextEvent, TimesOK
<1>4. ASSUME TimesOK, NEW what \in {"visible", "session", "edge"}, Raise(what) PROVE TimesOK'
  BY <1>4 DEF Raise, TimesOK
<1> QED
  BY <1>2, <1>3, <1>4, EveryStep

LEMMA TimesInit == StatsInit => TimesOK
<1> SUFFICES ASSUME StatsInit PROVE TimesOK
  OBVIOUS
<1>1. IsConnected(graph) \in BOOLEAN
  BY DEF IsConnected
<1>2. lastState = IsConnected(graph)
  BY Zenon DEF StatsInit
<1>3. lastState \in BOOLEAN
  BY <1>1, <1>2, Zenon
<1>4. connTime = None /\ syncTime = None /\ since = None /\ failed = "no" /\ time = 0
  BY Zenon DEF StatsInit
<1>5. failed \in {"no", "visible", "session", "edge"}
  BY <1>4, Zenon
<1>6. time \in 0 .. MaxEvents /\ connTime \in Times /\ syncTime \in Times /\ since \in Times
  BY <1>4, StatsAssumption DEF Times
<1> QED
  BY <1>3, <1>5, <1>6, Zenon DEF TimesOK

-----------------------------------------------------------------------------
(* Graph.is_connected.                                                     *)

Rounds(g, m, f) ==
    f = [k \in 0 .. m |-> IF k = 0 THEN {start_vertex} ELSE WithNeighbours(g, f[k - 1])]

(* The rounds of the search exist, however many there are.                 *)
LEMMA RoundsExist ==
    ASSUME NEW g
    PROVE  \A m \in Nat : \E f : Rounds(g, m, f)
<1> DEFINE A == {m \in Nat : \E f : Rounds(g, m, f)}
<1>1. 0 \in A
  <2> DEFINE f == [k \in 0 .. 0 |-> {start_vertex}]
  <2>1. Rounds(g, 0, f)
    BY DEF Rounds
  <2> QED BY <2>1
<1>2. ASSUME NEW m \in Nat, m \in A PROVE m + 1 \in A
  <2>1. PICK f : Rounds(g, m, f)
    BY <1>2
  <2> DEFINE h == [k \in 0 .. m + 1 |-> IF k = m + 1 THEN WithNeighbours(g, f[m]) ELSE f[k]]
  <2>2. ASSUME NEW k \in 0 .. m + 1
        PROVE  h[k] = IF k = 0 THEN {start_vertex} ELSE WithNeighbours(g, h[k - 1])
    <3>1. CASE k = m + 1
      <4>1. k # 0 /\ k - 1 = m /\ m \in 0 .. m + 1 /\ m # m + 1
        BY <3>1
      <4>2. h[k] = WithNeighbours(g, f[m]) /\ h[k - 1] = f[m]
        BY <3>1, <4>1
      <4> QED BY <4>1, <4>2
    <3>2. CASE k # m + 1
      <4>1. k \in 0 .. m /\ h[k] = f[k]
        BY <3>2
      <4>2. f[k] = IF k = 0 THEN {start_vertex} ELSE WithNeighbours(g, f[k - 1])
        BY <2>1, <4>1 DEF Rounds
      <4>3. k # 0 => k - 1 \in 0 .. m + 1 /\ k - 1 # m + 1
        BY <4>1
      <4>4. k # 0 => h[k - 1] = f[k - 1]
        BY <4>3
      <4> QED BY <4>1, <4>2, <4>4
    <3> QED BY <3>1, <3>2
  <2>3. h = [k \in 0 .. m + 1 |-> h[k]]
    OBVIOUS
  <2> HIDE DEF h
  <2>4. Rounds(g, m + 1, h)
    BY <2>2, <2>3 DEF Rounds
  <2> QED BY <2>4
<1> HIDE DEF A
<1>3. \A m \in Nat : m \in A
  BY <1>1, <1>2, SetInduction
<1> QED BY <1>3 DEF A

LEMMA VisitedRounds ==
    ASSUME NEW g
    PROVE  /\ Cardinality(Vertices) \in Nat
           /\ Visited(g)[0] = {start_vertex}
           /\ \A k \in 1 .. Cardinality(Vertices) :
                Visited(g)[k] = WithNeighbours(g, Visited(g)[k - 1])
<1> DEFINE N == Cardinality(Vertices)
           D(f) == Rounds(g, N, f)
<1>1. N \in Nat
  BY StatsAssumption, FS_CardinalityType
<1>2. \E f : D(f)
  BY <1>1, RoundsExist
<1>3. Visited(g) = CHOOSE f : D(f)
  BY DEF Visited, Rounds
<1> HIDE DEF D
<1>4. D(Visited(g))
  BY <1>2, <1>3
<1>5. Visited(g) = [k \in 0 .. N |-> IF k = 0 THEN {start_vertex}
                                     ELSE WithNeighbours(g, Visited(g)[k - 1])]
  BY <1>4 DEF D, Rounds
<1>6. 0 \in 0 .. N /\ \A k \in 1 .. N : k \in 0 .. N /\ k # 0
  BY <1>1
<1>7. Visited(g)[0] = {start_vertex}
  BY <1>5, <1>6
<1>8. ASSUME NEW k \in 1 .. N
      PROVE  Visited(g)[k] = WithNeighbours(g, Visited(g)[k - 1])
  BY <1>5, <1>6
<1> QED BY <1>1, <1>7, <1>8

(* The search finds a graph connected exactly if its edges cross every     *)
(* cut: each round of a search that has not reached all adds a node, and   *)
(* no round leaves one side of a cut that no edge crosses.                 *)
LEMMA SearchIsRight ==
    ASSUME NEW g, \A p \in Pairs : g[p] > 0 <=> g[Rev(p)] > 0
    PROVE  IsConnected(g) <=>
             \A S \in (SUBSET Vertices) \ {{}, Vertices} :
               \E a \in S, b \in Vertices \ S : g[<<a, b>>] > 0
<1> DEFINE N == Cardinality(Vertices)
           V == Visited(g)
<1>1. /\ N \in Nat /\ N > 1 /\ V[0] = {start_vertex} /\ start_vertex \in Vertices
      /\ \A k \in 1 .. N : V[k] = WithNeighbours(g, V[k - 1])
  <2>1. Vertices # {}
    BY StatsAssumption, FS_EmptySet
  <2> QED BY <2>1, StatsAssumption, VisitedRounds DEF start_vertex
<1>2. \A k \in Nat : k < N => k + 1 \in 1 .. N /\ V[k + 1] = WithNeighbours(g, V[k])
  <2>1. \A k \in Nat : k < N => k + 1 \in 1 .. N /\ (k + 1) - 1 = k
    BY <1>1
  <2> QED BY <1>1, <2>1
<1> HIDE DEF V
<1>3. \A k \in Nat : k <= N => V[k] \subseteq Vertices /\ start_vertex \in V[k]
  <2> DEFINE A == {k \in Nat : k <= N => V[k] \subseteq Vertices /\ start_vertex \in V[k]}
  <2>1. 0 \in A
    BY <1>1
  <2>2. ASSUME NEW k \in Nat, k \in A PROVE k + 1 \in A
    BY <1>1, <1>2, <2>2 DEF WithNeighbours
  <2> HIDE DEF A
  <2>3. \A k \in Nat : k \in A
    BY <2>1, <2>2, SetInduction
  <2> QED BY <2>3 DEF A
<1>4. ASSUME \A S \in (SUBSET Vertices) \ {{}, Vertices} :
               \E a \in S, b \in Vertices \ S : g[<<a, b>>] > 0
      PROVE  IsConnected(g)
  <2> DEFINE A == {k \in Nat : k <= N => V[k] = Vertices \/ Cardinality(V[k]) >= k + 1}
  <2>1. 0 \in A
    <3>1. Cardinality({start_vertex}) = 1
      BY FS_Singleton
    <3> QED BY <1>1, <3>1
  <2>2. ASSUME NEW k \in Nat, k \in A PROVE k + 1 \in A
    <3> SUFFICES ASSUME k < N, V[k + 1] # Vertices
                 PROVE  Cardinality(V[k + 1]) >= k + 2
      BY <1>1
    <3>1. V[k] \subseteq Vertices /\ start_vertex \in V[k] /\ V[k + 1] \subseteq Vertices
      BY <1>1, <1>3
    <3>2. V[k + 1] = WithNeighbours(g, V[k])
      BY <1>2
    <3>3. V[k] # Vertices
      BY <3>1, <3>2 DEF WithNeighbours
    <3>10. V[k] \in (SUBSET Vertices) \ {{}, Vertices}
      <4>1. V[k] # {} /\ V[k] \in SUBSET Vertices
        BY <3>1
      <4> QED BY <3>3, <4>1, Zenon
    <3>4. PICK a \in V[k], b \in Vertices \ V[k] : g[<<a, b>>] > 0
      BY <1>4, <3>10
    <3>5. V[k] \cup {b} \subseteq V[k + 1]
      BY <3>2, <3>4 DEF WithNeighbours
    <3>6. IsFiniteSet(V[k]) /\ IsFiniteSet(V[k + 1])
      BY <3>1, StatsAssumption, FS_Subset
    <3>7. /\ Cardinality(V[k] \cup {b}) = Cardinality(V[k]) + 1
          /\ Cardinality(V[k] \cup {b}) <= Cardinality(V[k + 1])
      BY <3>4, <3>5, <3>6, FS_AddElement, FS_Subset
    <3>8. Cardinality(V[k]) >= k + 1
      BY <1>1, <2>2, <3>3
    <3>9. Cardinality(V[k]) \in Nat /\ Cardinality(V[k + 1]) \in Nat
      BY <3>6, FS_CardinalityType
    <3> QED BY <3>7, <3>8, <3>9
  <2> HIDE DEF A
  <2>3. \A k \in Nat : k \in A
    BY <2>1, <2>2, SetInduction
  <2>4. V[N] = Vertices \/ Cardinality(V[N]) >= N + 1
    BY <1>1, <2>3 DEF A
  <2>5. Cardinality(V[N]) <= N /\ Cardinality(V[N]) \in Nat
    <3>1. V[N] \in SUBSET Vertices
      BY <1>1, <1>3
    <3> QED BY <3>1, StatsAssumption, FS_Subset, FS_CardinalityType
  <2> QED BY <1>1, <2>4, <2>5 DEF IsConnected, V
<1>5. ASSUME IsConnected(g), NEW S \in (SUBSET Vertices) \ {{}, Vertices}
      PROVE  \E a \in S, b \in Vertices \ S : g[<<a, b>>] > 0
  <2> SUFFICES ASSUME \A a \in S, b \in Vertices \ S : ~(g[<<a, b>>] > 0)
               PROVE  FALSE
    OBVIOUS
  <2> DEFINE Half == IF start_vertex \in S THEN S ELSE Vertices \ S
             A == {k \in Nat : k <= N => V[k] \subseteq Half}
  <2>1. \A u \in Half, v \in Vertices \ Half : ~(u # v /\ g[<<u, v>>] > 0)
    <3> SUFFICES ASSUME NEW u \in Half, NEW v \in Vertices \ Half, u # v
                 PROVE  ~(g[<<u, v>>] > 0)
      OBVIOUS
    <3>1. <<u, v>> \in Pairs /\ Rev(<<u, v>>) = <<v, u>>
      BY DEF Pairs, Rev
    <3>2. (u \in S /\ v \in Vertices \ S) \/ (v \in S /\ u \in Vertices \ S)
      OBVIOUS
    <3> QED BY <3>1, <3>2
  <2>2. 0 \in A
    BY <1>1
  <2>3. ASSUME NEW k \in Nat, k \in A PROVE k + 1 \in A
    <3> SUFFICES ASSUME k < N PROVE V[k + 1] \subseteq Half
      BY <1>1
    <3>1. V[k] \subseteq Half /\ V[k + 1] = WithNeighbours(g, V[k])
      BY <1>1, <1>2, <2>3
    <3> HIDE DEF Half
    <3> QED BY <2>1, <3>1 DEF WithNeighbours
  <2>4. Half # Vertices
    <3>1. S \in SUBSET Vertices /\ S # {} /\ S # Vertices
      OBVIOUS
    <3>2. PICK s \in S : s \in Vertices
      BY <3>1
    <3>3. s \notin Vertices \ S
      BY <3>2
    <3> QED BY <3>1, <3>2, <3>3
  <2>5. Half \subseteq Vertices
    OBVIOUS
  <2> HIDE DEF A, Half
  <2>6. \A k \in Nat : k \in A
    BY <2>2, <2>3, SetInduction
  <2>7. V[N] \subseteq Half
    BY <1>1, <2>6 DEF A
  <2> QED BY <1>5, <2>4, <2>5, <2>7 DEF IsConnected, V
<1> QED BY <1>4, <1>5

(* The graph of the log is connected exactly if the sessions that both     *)
(* ends report link all nodes.                                             *)
LEMMA GraphIsLinked == GraphOK => (IsConnected(graph) <=> Linked)
<1> SUFFICES ASSUME GraphOK PROVE IsConnected(graph) <=> Linked
  OBVIOUS
<1>1. \A p \in Pairs : graph[p] > 0 <=> Matched(p[1], p[2]) \/ Matched(p[2], p[1])
  <2> TAKE p \in Pairs
  <2>1. graph[p] = Count(p[1], p[2]) + Count(p[2], p[1])
    BY DEF GraphOK, GraphCountsSessions
  <2> QED BY <2>1 DEF Count
<1>2. \A p \in Pairs : graph[p] > 0 <=> graph[Rev(p)] > 0
  <2> TAKE p \in Pairs
  <2>1. Rev(p) \in Pairs /\ Rev(p)[1] = p[2] /\ Rev(p)[2] = p[1]
    BY PairFacts DEF Rev
  <2> QED BY <1>1, <2>1
<1>3. ASSUME NEW S \in (SUBSET Vertices) \ {{}, Vertices}, NEW a \in S, NEW b \in Vertices \ S
      PROVE  graph[<<a, b>>] > 0 <=> Matched(a, b) \/ Matched(b, a)
  <2>1. <<a, b>> \in Pairs /\ <<a, b>>[1] = a /\ <<a, b>>[2] = b
    BY DEF Pairs
  <2> QED BY <1>1, <2>1
<1>4. IsConnected(graph) <=>
        \A S \in (SUBSET Vertices) \ {{}, Vertices} :
          \E a \in S, b \in Vertices \ S : graph[<<a, b>>] > 0
  BY <1>2, SearchIsRight
<1> QED BY <1>3, <1>4, Zenon DEF Linked

(* What get_experiment_stats keeps between two events: the history         *)
(* variable has a value exactly while the nodes are linked.                *)
TimesInv == TimesAreRight /\ (Linked <=> since # None) /\ time \in Nat

LEMMA TimesInvInit == StatsInit => TimesInv
<1> SUFFICES ASSUME StatsInit PROVE TimesInv
  OBVIOUS
<1>1. GraphOK
  BY StatsInitInv DEF StatsInv
<1>2. ~Linked
  <2>1. PICK n \in Vertices : {n} # Vertices
    <3>1. Vertices # {}
      BY StatsAssumption, FS_EmptySet
    <3>2. PICK n \in Vertices : TRUE
      BY <3>1
    <3>3. Cardinality({n}) = 1
      BY FS_Singleton
    <3>4. {n} # Vertices
      BY <3>3, StatsAssumption
    <3> QED BY <3>4
  <2>2. {n} \in (SUBSET Vertices) \ {{}, Vertices}
    BY <2>1
  <2>3. \A a, b : ~Matched(a, b)
    BY DEF StatsInit, Matched
  <2> QED BY <2>2, <2>3 DEF Linked
<1>3. lastState = IsConnected(graph)
  BY DEF StatsInit
<1>4. lastState <=> Linked
  BY <1>1, <1>3, GraphIsLinked, Zenon
<1> QED
  BY <1>2, <1>4 DEF StatsInit, TimesInv, TimesAreRight

LEMMA TimesInvStep == StatsInv' /\ TimesInv /\ [StatsNext]_statsVars => TimesInv'
<1>1. ASSUME StatsInv', TimesInv, NextEvent PROVE TimesInv'
  <2>1. (GraphOK => (IsConnected(graph) <=> Linked))'
    BY GraphIsLinked, PTL
  <2>2. IsConnected(graph') <=> Linked'
    BY <1>1, <2>1 DEF StatsInv
  <2>3. lastState' = IsConnected(graph')
    BY <1>1 DEF NextEvent, Record
  <2>4. lastState' <=> Linked'
    BY <2>2, <2>3, Zenon
  <2>5. time' = time + 1 /\ time' \in Nat /\ time' # None
    BY <1>1, StatsAssumption DEF NextEvent, TimesInv
  <2>6. syncTime' = IF Linked' THEN time' ELSE None
    BY <1>1, <2>2 DEF NextEvent, Record
  <2>7. since' = IF ~Linked' THEN None ELSE IF since = None THEN time' ELSE since
    BY <1>1 DEF NextEvent
  <2>8. connTime' = IF ~Linked' THEN None ELSE IF ~lastState THEN time' ELSE connTime
    BY <1>1, <2>2 DEF NextEvent, Record
  <2>9. (lastState <=> Linked) /\ connTime = since /\ (Linked <=> since # None)
    BY <1>1 DEF TimesInv, TimesAreRight
  <2>10. (~lastState <=> since = None)
    BY <2>9, Zenon
  <2>11. connTime' = since' /\ (Linked' <=> since' # None)
    BY <2>5, <2>7, <2>8, <2>9, <2>10
  <2> QED
    BY <2>4, <2>5, <2>6, <2>11, Zenon DEF TimesInv, TimesAreRight
<1>2. ASSUME TimesInv, UNCHANGED statsVars PROVE TimesInv'
  <2>1. Linked' <=> Linked
    BY <1>2 DEF statsVars, sets, Linked, Matched
  <2> QED
    BY <1>2, <2>1, Zenon DEF statsVars, printed, sets, TimesInv, TimesAreRight
<1>3. ASSUME TimesInv, NEW what, Raise(what) PROVE TimesInv'
  <2>1. Linked' <=> Linked
    BY <1>3 DEF Raise, sets, Linked, Matched
  <2> QED
    BY <1>3, <2>1, Zenon DEF Raise, printed, sets, TimesInv, TimesAreRight
<1> QED
  BY <1>1, <1>2, <1>3, EveryStep

(* The variables keep their types, whatever the log.                       *)
THEOREM TypeCorrect == StatsSpec => []StatsTypeOK
<1>1. StatsInv /\ TimesOK => StatsTypeOK
  BY DEF StatsInv, SetsOK, GraphOK, LinksOK, MeetsOK, TimesOK, Times, StatsTypeOK
<1> QED
  BY <1>1, InvHolds, TimesInit, TimesStep, PTL DEF StatsSpec

(* get_experiment_stats, for every number of nodes and every merged log    *)
(* with one session per pair and direction: the adjacency lists count the  *)
(* sessions that both ends report, and erase_edge never raises, whatever   *)
(* loss or end is reported without its beginning.                          *)
THEOREM GraphAlwaysCounts == StatsSpec => []GraphCountsSessions
<1>1. StatsInv => GraphCountsSessions
  BY DEF StatsInv, GraphOK
<1> QED
  BY <1>1, InvHolds, PTL

(* updateTopology: if the evaluation gets through the log, then whatever   *)
(* moment the page is set to, it draws the sessions that both ends report, *)
(* and once each the pairs that see each other.                            *)
THEOREM PrintedAlwaysReal == StatsSpec => []PrintedIsReal
<1>1. StatsInv => PrintedIsReal
  BY DEF StatsInv, LinksOK, MeetsOK, Seen, Rev, PrintedIsReal
<1> QED
  BY <1>1, InvHolds, PTL

(* get_experiment_stats, for every number of nodes and every merged log    *)
(* with one session per pair and direction: the search of is_connected     *)
(* finds exactly the topologies that no cut separates, so both times are   *)
(* printed exactly while the nodes are linked, the first that of the event *)
(* that completed the present topology and the second that of the last.    *)
THEOREM TimesAlwaysRight == StatsSpec => []TimesAreRight
<1>1. TimesInv => TimesAreRight
  BY DEF TimesInv
<1> QED
  BY <1>1, InvHolds, TimesInvInit, TimesInvStep, PTL DEF StatsSpec
=============================================================================
