-------------------------- MODULE ExperimentStats --------------------------
(***************************************************************************)
(* The evaluation of an experiment: get_experiment_stats and its Graph     *)
(* (combine_logs.py) reading the merged log of all nodes event by event,   *)
(* and the visualizer (index.html), which replays what that prints up to   *)
(* any moment.  Times of printed lines are assumed to have a fraction: the *)
(* page skips a line whose time is a whole number of seconds.              *)
(*                                                                         *)
(* The logs are the environment: each node reports of each other node that *)
(* it saw or lost it and that a session was opened or closed, every        *)
(* combination of nodes in any order.  A loss or an end may be reported of *)
(* what was never reported seen or open, as the transport does (a link     *)
(* loss followed by the expiry of the timer, a peer first heard over TCP,  *)
(* an end told before the beginning); only what is already reported seen   *)
(* or open is not reported so again, that is, there is one session per     *)
(* pair and direction.  Times are the positions of the events.             *)
(***************************************************************************)
EXTENDS Integers, FiniteSets

CONSTANTS
    Vertices,   \* the nodes whose logs are read, the vertices of the Graph
    MaxEvents,  \* bound: length of the merged log
    None

ASSUME StatsAssumption ==
    /\ IsFiniteSet(Vertices) /\ Cardinality(Vertices) > 1
    /\ MaxEvents \in Nat
    /\ None \notin Nat

Pairs == {p \in Vertices \X Vertices : p[1] # p[2]}

VARIABLES
    graph,      \* Graph.graph: how often v is in the list of u
    incoming,   \* incoming
    outgoing,   \* outgoing
    visible,    \* visible
    connTime,   \* conn_time
    syncTime,   \* sync_time
    lastState,  \* last_state
    links,      \* activeEdges of the page that replays graph.txt
    meets,      \* discoveryEvents of the page: how often a pair is in it
    failed,     \* the remove that raised an exception, or "no"
    time,       \* position in the merged log
    since       \* history: the event that completed the present topology

sets == <<incoming, outgoing, visible>>
printed == <<links, meets>>
statsVars == <<graph, sets, connTime, syncTime, lastState, printed, failed, time, since>>

StatsTypeOK ==
    /\ graph \in [Pairs -> Nat]
    /\ incoming \subseteq Pairs /\ outgoing \subseteq Pairs /\ visible \subseteq Pairs
    /\ connTime \in 1 .. MaxEvents \cup {None}
    /\ syncTime \in 1 .. MaxEvents \cup {None}
    /\ lastState \in BOOLEAN
    /\ links \subseteq Pairs /\ meets \in [{{p[1], p[2]} : p \in Pairs} -> Nat]
    /\ failed \in {"no", "visible", "session", "edge"}
    /\ time \in 0 .. MaxEvents
    /\ since \in 1 .. MaxEvents \cup {None}

(* Graph.is_connected: a search from some vertex reaches all.  After k     *)
(* rounds it has visited what is k edges away.                             *)
start_vertex == CHOOSE n \in Vertices : TRUE

WithNeighbours(g, S) ==
    S \cup {v \in Vertices : \E u \in S : u # v /\ g[<<u, v>>] > 0}

Visited(g) ==
    LET visited[k \in 0 .. Cardinality(Vertices)] ==
          IF k = 0 THEN {start_vertex} ELSE WithNeighbours(g, visited[k - 1])
    IN  visited

IsConnected(g) == Visited(g)[Cardinality(Vertices)] = Vertices

StatsInit ==
    /\ graph = [p \in Pairs |-> 0]
    /\ incoming = {} /\ outgoing = {} /\ visible = {}
    /\ connTime = None /\ syncTime = None
    /\ lastState = IsConnected(graph)
    /\ links = {} /\ meets = [m \in {{p[1], p[2]} : p \in Pairs} |-> 0]
    /\ failed = "no"
    /\ time = 0
    /\ since = None

-----------------------------------------------------------------------------

(* Both ends of the session from a to b have reported it.                  *)
Matched(a, b) == <<a, b>> \in outgoing /\ <<b, a>> \in incoming

(* Reference: the sessions that both ends report link all nodes, that is,  *)
(* they cross every cut.                                                   *)
Linked ==
    \A S \in (SUBSET Vertices) \ {{}, Vertices} :
        \E a \in S, b \in Vertices \ S : Matched(a, b) \/ Matched(b, a)

add_edge(u, v) == [graph EXCEPT ![<<u, v>>] = @ + 1, ![<<v, u>>] = @ + 1]

(* list.remove takes out one occurrence.                                   *)
erase_edge(u, v) == [graph EXCEPT ![<<u, v>>] = @ - 1, ![<<v, u>>] = @ - 1]

(* The lines "a -> b" and "a |> b": a map keyed by the two ends.           *)
DrawLink(a, b) == links' = links \cup {<<a, b>>}
EraseLink(a, b) == links' = links \ {<<a, b>>}

(* The lines "a <> b" and "a >< b": a list; the first entry for the two    *)
(* nodes, either way round, is taken out again.                            *)
DrawMeeting(a, b) == meets' = [meets EXCEPT ![{a, b}] = @ + 1]

(* Mutant: index 0 of the list is taken for "not found".                   *)
EraseMeeting_NotFirst(a, b) == meets' = [meets EXCEPT ![{a, b}] = IF @ > 1 THEN @ - 1 ELSE @]

EraseMeeting(a, b) == meets' = [meets EXCEPT ![{a, b}] = IF @ > 0 THEN @ - 1 ELSE 0]

(* Mutant: conn_time survives a loss of connectivity.                      *)
Record_KeepsTime ==
    LET newState == IsConnected(graph')
    IN  /\ connTime' = IF ~lastState /\ newState /\ connTime = None THEN time' ELSE connTime
        /\ syncTime' = IF newState THEN time' ELSE None
        /\ lastState' = newState

(* The end of the loop body.                                               *)
Record ==
    LET newState == IsConnected(graph')
    IN  /\ connTime' = IF ~newState THEN None
                       ELSE IF ~lastState THEN time' ELSE connTime
        /\ syncTime' = IF newState THEN time' ELSE None
        /\ lastState' = newState

(* The next line of the merged log.                                        *)
NextEvent ==
    /\ time < MaxEvents
    /\ failed = "no"
    /\ time' = time + 1
    /\ Record
    /\ since' = IF ~Linked' THEN None ELSE IF since = None THEN time' ELSE since
    /\ UNCHANGED failed

(* A remove that does not find what it is to remove raises KeyError or     *)
(* ValueError.  Nobody catches it: no time is printed and graph.txt is not *)
(* written.                                                                *)
Raise(what) ==
    /\ time < MaxEvents
    /\ failed = "no"
    /\ failed' = what
    /\ UNCHANGED <<graph, sets, connTime, syncTime, lastState, printed, time, since>>

Saw(a, b) ==
    /\ <<a, b>> \notin visible
    /\ visible' = visible \cup {<<a, b>>}
    /\ IF <<b, a>> \in visible THEN DrawMeeting(a, b) ELSE UNCHANGED meets
    /\ UNCHANGED <<graph, incoming, outgoing, links>>
    /\ NextEvent

Lost(a, b) ==
    \/ /\ <<a, b>> \in visible
       /\ visible' = visible \ {<<a, b>>}
       /\ IF <<b, a>> \in visible THEN EraseMeeting(a, b) ELSE UNCHANGED meets
       /\ UNCHANGED <<graph, incoming, outgoing, links>>
       /\ NextEvent
    \/ /\ <<a, b>> \notin visible
       /\ Raise("visible")

(* a reports an incoming session from b.                                   *)
OpenIncoming(a, b) ==
    /\ <<a, b>> \notin incoming
    /\ incoming' = incoming \cup {<<a, b>>}
    /\ IF <<b, a>> \in outgoing
       THEN DrawLink(b, a) /\ graph' = add_edge(a, b)
       ELSE UNCHANGED <<links, graph>>
    /\ UNCHANGED <<outgoing, visible, meets>>
    /\ NextEvent

OpenOutgoing(a, b) ==
    /\ <<a, b>> \notin outgoing
    /\ outgoing' = outgoing \cup {<<a, b>>}
    /\ IF <<b, a>> \in incoming
       THEN DrawLink(a, b) /\ graph' = add_edge(a, b)
       ELSE UNCHANGED <<links, graph>>
    /\ UNCHANGED <<incoming, visible, meets>>
    /\ NextEvent

(* Both adjacency lists hold what erase_edge is to take out of them.       *)
HasEdge(u, v) == graph[<<u, v>>] > 0 /\ graph[<<v, u>>] > 0

(* What the end of a session raises, if anything: set.remove comes before  *)
(* erase_edge.                                                             *)
EndError(reported, matched, u, v) ==
    IF ~reported THEN "session"
    ELSE IF matched /\ ~HasEdge(u, v) THEN "edge"
    ELSE "no"

CloseIncoming(a, b) ==
    LET error == EndError(<<a, b>> \in incoming, <<b, a>> \in outgoing, a, b)
    IN  \/ /\ error = "no"
           /\ incoming' = incoming \ {<<a, b>>}
           /\ IF <<b, a>> \in outgoing
              THEN EraseLink(b, a) /\ graph' = erase_edge(a, b)
              ELSE UNCHANGED <<links, graph>>
           /\ UNCHANGED <<outgoing, visible, meets>>
           /\ NextEvent
        \/ /\ error # "no"
           /\ Raise(error)

(* Mutant: the edge goes whether or not the other end still reports it.    *)
CloseOutgoing_Always(a, b) ==
    LET error == EndError(<<a, b>> \in outgoing, TRUE, a, b)
    IN  \/ /\ error = "no"
           /\ outgoing' = outgoing \ {<<a, b>>}
           /\ EraseLink(a, b) /\ graph' = erase_edge(a, b)
           /\ UNCHANGED <<incoming, visible, meets>>
           /\ NextEvent
        \/ /\ error # "no"
           /\ Raise(error)

CloseOutgoing(a, b) ==
    LET error == EndError(<<a, b>> \in outgoing, <<b, a>> \in incoming, a, b)
    IN  \/ /\ error = "no"
           /\ outgoing' = outgoing \ {<<a, b>>}
           /\ IF <<b, a>> \in incoming
              THEN EraseLink(a, b) /\ graph' = erase_edge(a, b)
              ELSE UNCHANGED <<links, graph>>
           /\ UNCHANGED <<incoming, visible, meets>>
           /\ NextEvent
        \/ /\ error # "no"
           /\ Raise(error)

StatsNext ==
    \E p \in Pairs :
        \/ Saw(p[1], p[2]) \/ Lost(p[1], p[2])
        \/ OpenIncoming(p[1], p[2]) \/ OpenOutgoing(p[1], p[2])
        \/ CloseIncoming(p[1], p[2]) \/ CloseOutgoing(p[1], p[2])

StatsSpec == StatsInit /\ [][StatsNext]_statsVars

-----------------------------------------------------------------------------
(* Properties.                                                             *)

Count(a, b) == IF Matched(a, b) THEN 1 ELSE 0

(* The reports of two nodes come in any order, and a pair may have a       *)
(* session either way: the adjacency lists hold one entry per session that *)
(* both ends report, so erase_edge never fails to find what it removes.    *)
(* A loss or an end without its beginning makes the evaluation fail at the *)
(* sets of reports, before it comes to the lists.                          *)
GraphCountsSessions ==
    /\ failed # "edge"
    /\ \A p \in Pairs : graph[p] = Count(p[1], p[2]) + Count(p[2], p[1])

(* "Time to connect topology" and "Time to synchronize topology": they are *)
(* given exactly while the sessions link all nodes, the first is the event *)
(* that completed the present topology, not an earlier one that fell       *)
(* apart, and the second is the last event.                                *)
TimesAreRight ==
    /\ lastState <=> Linked
    /\ connTime = since
    /\ syncTime = IF Linked THEN time ELSE None

(* graph.txt, if the evaluation gets as far as to write it, tells the      *)
(* whole story: whatever moment the page is set to, it draws the sessions  *)
(* that both ends report then, and once each the pairs that see each       *)
(* other.                                                                  *)
PrintedIsReal ==
    failed = "no" =>
        /\ links = {p \in Pairs : Matched(p[1], p[2])}
        /\ \A p \in Pairs :
             meets[{p[1], p[2]}] = IF {p, <<p[2], p[1]>>} \subseteq visible THEN 1 ELSE 0
=============================================================================
