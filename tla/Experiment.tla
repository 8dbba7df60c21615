----------------------------- MODULE Experiment -----------------------------
(***************************************************************************)
(* One experiment of the emulator (run_experiment.py): containers and      *)
(* bridges are set up by the worker threads of one executor after another, *)
(* links are changed while the binaries run, and everything is removed     *)
(* again, also when a worker fails or the user interrupts.                 *)
(*                                                                         *)
(* A task is one call in a worker thread.  executor.map is called for its  *)
(* effects only, so an exception in a worker, sys.exit included, ends that *)
(* worker and nothing else.  Subnets, traffic rules and the parsing of the *)
(* configuration are left out; a configuration is given by its links.      *)
(***************************************************************************)
EXTENDS Integers, Sequences, FiniteSets

CONSTANTS
    Nodes,      \* 1 .. config.init.nodes_amount
    InitEdges,  \* config.init.edges
    Custom,     \* the edges of config.init.custom
    Mods,       \* config.mods, by time: what each adds and erases
    MaxFaults,  \* bound: calls of docker that fail of themselves
    Main        \* the main thread, as the owner of a cleanup

Edges == {e \in Nodes \X Nodes : e[1] < e[2]}

ASSUME ExperimentAssumption ==
    /\ Nodes \subseteq Nat /\ Main \notin Nodes /\ Main \notin Edges
    /\ InitEdges \subseteq Edges /\ Custom \subseteq Edges
    /\ Mods \in Seq([add : SUBSET Edges, erase : SUBSET Edges])
    /\ MaxFaults \in Nat

VARIABLES
    stage,       \* where the main thread is
    tasks,       \* the calls under way in workers, and main's cleanup
    containers,  \* docker's containers
    known,       \* self.containers
    networks,    \* docker's networks
    bridges,     \* self.bridges
    shapers,     \* self.shapers
    attached,    \* <<edge, node>>: the container is in the network
    up,          \* <<edge, node>>: its interface there is up
    attrs,       \* container.attrs: the networks known of each container
    running,     \* containers that run the binary
    applied,     \* modifications started so far
    faults,
    combined,    \* has combine_logs run
    broken,      \* history: has a worker or main given up
    stopped,     \* history: has the user interrupted
    missed       \* history: edges that bridge_up or bridge_down gave up,
                 \* and those where ip link set failed and nobody noticed

docker == <<containers, networks, attached, up, running>>
runner == <<known, bridges, shapers, attrs>>
history == <<broken, stopped, missed>>
vars == <<stage, tasks, docker, runner, applied, faults, combined, history>>

Ends(e) == {e[1], e[2]}

(* What bridges is made of: the links at the start, those that are added   *)
(* later, and those with a custom shape, whether they are ever up or not.  *)
Planned == InitEdges \cup Custom \cup UNION {Mods[i].add : i \in DOMAIN Mods}

Stages == {"image", "create", "bridges", "up", "binaries", "mods", "cleanup", "end"}

Task(op, on, step) == [op |-> op, on |-> on, step |-> step, seen |-> {}]
Calls(op, on) == {Task(op, x, "begin") : x \in on}

TypeOK ==
    /\ stage \in Stages
    /\ \A t \in tasks :
         \/ t.op \in {"create", "run"} /\ t.on \in Nodes
         \/ t.op \in {"add", "up", "down"} /\ t.on \in Edges
         \/ t.op = "cleanup" /\ t.step \in {"rules", "containers", "networks"}
    /\ containers \subseteq Nodes /\ known \subseteq Nodes
    /\ running \subseteq containers
    /\ networks \subseteq bridges /\ bridges \subseteq Planned /\ shapers \subseteq bridges
    /\ up \subseteq attached
    /\ attached \subseteq networks \X containers
    /\ attrs \in [Nodes -> SUBSET Planned]
    /\ applied \in 0 .. Len(Mods)
    /\ faults \in 0 .. MaxFaults
    /\ {combined, broken, stopped} \subseteq BOOLEAN
    /\ missed \subseteq Planned

Init ==
    /\ stage = "image"
    /\ tasks = {}
    /\ containers = {} /\ known = {}
    /\ networks = {} /\ bridges = {} /\ shapers = {}
    /\ attached = {} /\ up = {}
    /\ attrs = [n \in Nodes |-> {}]
    /\ running = {}
    /\ applied = 0
    /\ faults = 0
    /\ combined = FALSE
    /\ broken = FALSE /\ stopped = FALSE
    /\ missed = {}

-----------------------------------------------------------------------------
(* Tasks.                                                                  *)

Ended(t) == tasks' = tasks \ {t}
Onward(t, step, seen) == [op |-> t.op, on |-> t.on, step |-> step, seen |-> seen]
Becomes(t, step, seen) == tasks' = (tasks \ {t}) \cup {Onward(t, step, seen)}
GoesOn(t, step) == Becomes(t, step, t.seen)

(* except Exception: self.cleanup(), then sys.exit(1).                     *)
GivesUp(t) ==
    /\ tasks' = (tasks \ {t}) \cup {Task("cleanup", t.on, "rules")}
    /\ broken' = TRUE

(* A call of docker fails of itself.  (The commands of cleanup do not.)     *)
Fault == faults < MaxFaults /\ faults' = faults + 1

InDocker(e, n) == e \in networks /\ n \in containers

(* The networks that docker reports of a container: reload().              *)
Networks(n) == {e \in networks : <<e, n>> \in attached}

create_container(t) ==
    /\ t.op = "create"
    /\ \/ /\ containers' = containers \cup {t.on}
          /\ known' = known \cup {t.on}
          /\ Ended(t)
          /\ UNCHANGED <<faults, broken>>
       \/ /\ Fault /\ GivesUp(t)
          /\ containers' \in {containers, containers \cup {t.on}}
          /\ UNCHANGED known
    /\ UNCHANGED <<stage, networks, attached, up, running, bridges, shapers, attrs,
                   applied, combined, stopped, missed>>

(* add_bridge: the network is created ...                                  *)
CreateNetwork(t) ==
    /\ t.op = "add" /\ t.step = "begin"
    /\ \/ ~(Ends(t.on) \subseteq known) /\ Ended(t)
          /\ UNCHANGED <<networks, bridges, faults, broken>>
       \/ /\ Ends(t.on) \subseteq known
          /\ networks' = networks \cup {t.on}
          /\ bridges' = bridges \cup {t.on}
          /\ GoesOn(t, "first")
          /\ UNCHANGED <<faults, broken>>
       \/ /\ Ends(t.on) \subseteq known
          /\ Fault /\ GivesUp(t)
          /\ UNCHANGED <<networks, bridges>>
    /\ UNCHANGED <<stage, containers, attached, up, running, known, shapers, attrs,
                   applied, combined, stopped, missed>>

Side(t) == IF t.step \in {"first", "first down"} THEN t.on[1] ELSE t.on[2]

(* ... each container is connected, which sets its interface up, and       *)
(* reload() asks docker for the attributes of the container ...            *)
ConnectNetwork(t) ==
    /\ t.op = "add" /\ t.step \in {"first", "second"}
    /\ \/ /\ InDocker(t.on, Side(t))
          /\ attached' = attached \cup {<<t.on, Side(t)>>}
          /\ up' = up \cup {<<t.on, Side(t)>>}
          /\ Becomes(t, IF t.step = "first" THEN "first down" ELSE "second down",
                        Networks(Side(t)) \cup {t.on})
          /\ UNCHANGED <<faults, broken>>
       \/ ~InDocker(t.on, Side(t)) /\ GivesUp(t) /\ UNCHANGED <<attached, up, faults>>
       \/ InDocker(t.on, Side(t)) /\ Fault /\ GivesUp(t) /\ UNCHANGED <<attached, up>>
    /\ UNCHANGED <<stage, containers, networks, running, runner, applied, combined,
                   stopped, missed>>

(* exec_run: docker runs ip link set in the container, and nobody looks at *)
(* its exit code.                                                          *)
CommandRun(t, links) ==
    \/ up' = links /\ UNCHANGED <<faults, missed>>
    \/ Fault /\ missed' = missed \cup {t.on} /\ UNCHANGED up

(* ... which the worker stores, whatever another worker has stored in the  *)
(* meantime, and the interface is set down again.                          *)
SetDown(t) ==
    /\ t.op = "add" /\ t.step \in {"first down", "second down"}
    /\ attrs' = [attrs EXCEPT ![Side(t)] = t.seen]
    /\ \/ /\ InDocker(t.on, Side(t))
          /\ CommandRun(t, up \ {<<t.on, Side(t)>>})
          /\ Becomes(t, IF t.step = "first down" THEN "second" ELSE "shape", {})
          /\ UNCHANGED broken
       \/ ~InDocker(t.on, Side(t)) /\ GivesUp(t) /\ UNCHANGED <<up, faults, missed>>
       \/ InDocker(t.on, Side(t)) /\ Fault /\ GivesUp(t) /\ UNCHANGED <<up, missed>>
    /\ UNCHANGED <<stage, containers, networks, attached, running, known, bridges, shapers,
                   applied, combined, stopped>>

(* networks.get fails if the network is gone.                              *)
AddShaper(t) ==
    /\ t.op = "add" /\ t.step = "shape"
    /\ \/ /\ t.on \in networks
          /\ shapers' = shapers \cup {t.on}
          /\ Ended(t)
          /\ UNCHANGED <<faults, broken>>
       \/ t.on \notin networks /\ GivesUp(t) /\ UNCHANGED <<shapers, faults>>
       \/ t.on \in networks /\ Fault /\ GivesUp(t) /\ UNCHANGED shapers
    /\ UNCHANGED <<stage, docker, known, bridges, attrs, applied, combined, stopped, missed>>

(* bridge_up and bridge_down: whatever is raised ends the worker; "except  *)
(* e" does not handle it.                                                  *)
Misses(t) ==
    /\ missed' = missed \cup {t.on}
    /\ Ended(t)

(* Both look the link up in the attributes that are stored, before they    *)
(* ask docker again for the names of the interfaces.                       *)
FindInterfaces(t) ==
    /\ t.op \in {"up", "down"} /\ t.step = "begin"
    /\ \/ t.on \notin bridges /\ Ended(t) /\ UNCHANGED <<attrs, missed, faults>>
       \/ /\ t.on \in bridges
          /\ \E n \in Ends(t.on) : t.on \notin attrs[n] \/ ~InDocker(t.on, n)
          /\ Misses(t) /\ UNCHANGED <<attrs, faults>>
       \/ t.on \in bridges /\ Fault /\ Misses(t) /\ UNCHANGED attrs
       \/ /\ t.on \in bridges
          /\ \A n \in Ends(t.on) : t.on \in attrs[n] /\ InDocker(t.on, n)
          /\ attrs' = [n \in Nodes |-> IF n \in Ends(t.on) THEN Networks(n) ELSE attrs[n]]
          /\ GoesOn(t, "first")
          /\ UNCHANGED <<missed, faults>>
    /\ UNCHANGED <<stage, docker, known, bridges, shapers, applied, combined, broken, stopped>>

(* ip link set up or down, in one container after the other.  The shaper   *)
(* goes with the link; pop raises KeyError when there is none, which ends  *)
(* the worker where it ends in any case.                                   *)
SetLink(t) ==
    /\ t.op \in {"up", "down"} /\ t.step \in {"first", "second"}
    /\ LET link == <<t.on, Side(t)>> IN
       \/ /\ link \in attached
          /\ CommandRun(t, IF t.op = "up" THEN up \cup {link} ELSE up \ {link})
          /\ \/ t.step = "first" /\ GoesOn(t, "second") /\ UNCHANGED shapers
             \/ /\ t.step = "second" /\ Ended(t)
                /\ shapers' = IF t.op = "up" THEN shapers ELSE shapers \ {t.on}
       \/ link \notin attached /\ Misses(t) /\ UNCHANGED <<up, shapers, faults>>
       \/ link \in attached /\ Fault /\ Misses(t) /\ UNCHANGED <<up, shapers>>
    /\ UNCHANGED <<stage, containers, networks, attached, running, known, bridges, attrs,
                   applied, combined, broken, stopped>>

(* Errors are logged and the container is left without the binary.         *)
run_binary_in_device(t) ==
    /\ t.op = "run"
    /\ Ended(t)
    /\ \/ running' = running \cup ({t.on} \cap containers) /\ UNCHANGED faults
       \/ Fault /\ UNCHANGED running
    /\ UNCHANGED <<stage, containers, networks, attached, up, runner, applied, combined,
                   history>>

-----------------------------------------------------------------------------
(* cleanup(), called by a worker that failed and by main at the end.       *)

(* Mutant: networks are removed while containers are still connected.      *)
CleanupOrder_Swapped == <<"rules", "networks", "containers">>

CleanupOrder == <<"rules", "containers", "networks">>

(* After the last command of main's cleanup the logs are combined.         *)
CommandDone(t) ==
    LET i == CHOOSE i \in 1 .. 3 : CleanupOrder[i] = t.step
    IN  IF i = 3
        THEN Ended(t) /\ combined' = (combined \/ t.on = Main)
        ELSE GoesOn(t, CleanupOrder[i + 1]) /\ UNCHANGED combined

CommandFails(t) == Ended(t) /\ UNCHANGED combined

(* Rules are cleared first.  self.shapers.items() raises if another worker *)
(* adds or drops a shaper meanwhile.                                       *)
ClearRules(t) ==
    /\ t.op = "cleanup" /\ t.step = "rules"
    /\ \/ CommandDone(t)
       \/ /\ shapers # {}
          /\ \E x \in tasks : x.op \in {"add", "down"}
          /\ CommandFails(t)
    /\ UNCHANGED <<stage, docker, runner, applied, faults, history>>

(* Mutant: docker rm without -f refuses containers that run.               *)
RemoveContainers_NoForce(t) ==
    /\ t.op = "cleanup" /\ t.step = "containers"
    /\ CommandFails(t)
    /\ UNCHANGED <<stage, docker, runner, applied, faults, history>>

(* docker rm -f fails without an argument.                                 *)
RemoveContainers(t) ==
    /\ t.op = "cleanup" /\ t.step = "containers"
    /\ IF containers = {} THEN CommandFails(t) ELSE CommandDone(t)
    /\ containers' = {} /\ running' = {}
    /\ attached' = {} /\ up' = {}
    /\ UNCHANGED <<stage, networks, runner, applied, faults, history>>

(* docker network rm, one by one; a network in use stays, and shell()      *)
(* raises.                                                                 *)
RemoveNetworks(t) ==
    /\ t.op = "cleanup" /\ t.step = "networks"
    /\ networks' = {e \in networks : \E n \in Nodes : <<e, n>> \in attached}
    /\ IF networks' = {} THEN CommandDone(t) ELSE CommandFails(t)
    /\ UNCHANGED <<stage, containers, attached, up, running, runner, applied, faults, history>>

-----------------------------------------------------------------------------
(* The main thread.                                                        *)

Steps(next, calls) ==
    /\ stage' = next
    /\ tasks' = calls
    /\ UNCHANGED <<docker, runner, faults, combined, stopped, missed>>

MainCleanup == Task("cleanup", Main, "rules")

(* Docker builds the image, or main gives up before there is anything.     *)
BuildImage ==
    /\ stage = "image"
    /\ \/ Steps("create", Calls("create", Nodes)) /\ UNCHANGED broken
       \/ Steps("cleanup", {MainCleanup}) /\ broken' = TRUE
    /\ UNCHANGED applied

(* The end of "with ThreadPoolExecutor": every worker has ended.           *)
Joined == tasks = {}

AddBridges == stage = "create" /\ Joined /\ Steps("bridges", Calls("add", Planned))
RaiseLinks == stage = "bridges" /\ Joined /\ Steps("up", Calls("up", InitEdges))
StartBinaries == stage = "up" /\ Joined /\ Steps("binaries", Calls("run", Nodes))
StartMods == stage = "binaries" /\ Joined /\ Steps("mods", {})

SetUp ==
    /\ AddBridges \/ RaiseLinks \/ StartBinaries \/ StartMods
    /\ UNCHANGED <<applied, broken>>

(* Mutant: a modification starts while the one before it is under way.     *)
make_modification_NoWait ==
    /\ stage = "mods"
    /\ applied < Len(Mods)
    /\ applied' = applied + 1
    /\ Steps("mods", tasks \cup Calls("up", Mods[applied + 1].add)
                           \cup Calls("down", Mods[applied + 1].erase))
    /\ UNCHANGED broken

(* The next modification is due.  It keeps the event loop until its        *)
(* workers have ended, so the one after it, and the end of the experiment, *)
(* have to wait.                                                           *)
make_modification ==
    /\ stage = "mods" /\ Joined
    /\ applied < Len(Mods)
    /\ applied' = applied + 1
    /\ Steps("mods", Calls("up", Mods[applied + 1].add) \cup Calls("down", Mods[applied + 1].erase))
    /\ UNCHANGED broken

(* The duration is over; modifications that are not due yet are cancelled. *)
DurationOver ==
    /\ stage = "mods" /\ Joined
    /\ Steps("cleanup", {MainCleanup})
    /\ UNCHANGED <<applied, broken>>

(* KeyboardInterrupt while main waits for workers, which go on: join() is  *)
(* given up, and main cleans up while they work.  One interrupt.           *)
Interrupt ==
    /\ stage \in Stages \ {"image", "cleanup", "end"}
    /\ ~stopped /\ stopped' = TRUE
    /\ stage' = "cleanup"
    /\ tasks' = tasks \cup {MainCleanup}
    /\ UNCHANGED <<docker, runner, applied, faults, combined, broken, missed>>

(* Python waits for the workers that are left before it exits.             *)
Exit ==
    /\ stage = "cleanup" /\ Joined
    /\ Steps("end", {})
    /\ UNCHANGED <<applied, broken>>

Work ==
    \E t \in tasks :
        \/ create_container(t)
        \/ CreateNetwork(t) \/ ConnectNetwork(t) \/ SetDown(t) \/ AddShaper(t)
        \/ FindInterfaces(t) \/ SetLink(t)
        \/ run_binary_in_device(t)
        \/ ClearRules(t) \/ RemoveContainers(t) \/ RemoveNetworks(t)

MainStep == BuildImage \/ SetUp \/ make_modification \/ DurationOver \/ Exit

Next == Work \/ MainStep \/ Interrupt

(* The duration of an experiment is finite.  shell() and exec_run set no   *)
(* time limit: that every command of docker returns is an assumption.      *)
FairSpec == Init /\ [][Next]_vars /\ WF_vars(Work) /\ WF_vars(MainStep)

-----------------------------------------------------------------------------
(* Properties.                                                             *)

(* The links that the configuration asks for after so many modifications.  *)
Links[k \in 0 .. Len(Mods)] ==
    IF k = 0 THEN InitEdges ELSE (Links[k - 1] \cup Mods[k].add) \ Mods[k].erase

(* A modification that adds and erases the same link has no one meaning:   *)
(* its two workers run in parallel.  None of the configurations has one.   *)
Unambiguous == \A i \in DOMAIN Mods : Mods[i].add \cap Mods[i].erase = {}

(* cleanup(): an experiment that nobody interrupts leaves no container     *)
(* behind, whichever call of a worker fails and although other workers go  *)
(* on creating containers after the cleanup of the one that failed.  It    *)
(* leaves no network behind either, unless a worker gave up, and then the  *)
(* logs are not evaluated as if nothing had happened.  The commands of     *)
(* cleanup itself fail only where there is no container to remove, or a    *)
(* network is in use.                                                      *)
NothingLeftBehind ==
    stage = "end" /\ ~stopped =>
        /\ containers = {}
        /\ networks = {} \/ (broken /\ ~combined)

(* bridge_up, bridge_down and make_modification: as long as nothing gives  *)
(* up, every link is up at both ends or down at both ends as the           *)
(* configuration asks after the modifications so far, except for links     *)
(* that a worker is changing and those that a worker has missed; links     *)
(* that only have a custom shape stay down.                                *)
LinksFollowScenario ==
    running # {} /\ ~broken /\ ~stopped =>
        \A e \in Planned \ missed :
            \/ \E t \in tasks : t.op \in {"up", "down"} /\ t.on = e
            \/ \A n \in Ends(e) : <<e, n>> \in up <=> e \in Links[applied]

(* main: every experiment ends, whichever call of a worker fails, and the  *)
(* logs of one that nothing has disturbed are combined.                    *)
Evaluated == <>(stage = "end" /\ (combined \/ broken \/ stopped))
=============================================================================
