----------------------------- MODULE MdnsDiscovery -----------------------------
(* Peer discovery with mDNS in src/lib/mdns: InterfaceState::poll of each    *)
(* node's interface task (behaviour/iface.rs), which exchanges packets with  *)
(* the other nodes, and Behaviour::poll (behaviour.rs), which keeps the list *)
(* of discovered nodes and reports to the program.  The two run in different *)
(* tasks and meet in a bounded channel.                                      *)
(*                                                                           *)
(* Time is discrete; every variable that stands for an Instant holds the     *)
(* time left until then.  Each node has one network interface.               *)
EXTENDS Integers, Sequences, FiniteSets

CONSTANTS
    Nodes,
    Addrs,           \* listen addresses of a node
    ttl,             \* Config::ttl
    query_interval,  \* Config::query_interval
    INITIAL_TIMEOUT_INTERVAL,
    ChannelCapacity, \* mpsc::channel(10)
    None,
    FaultKinds,      \* the faults that happen
    MaxFaults        \* bound: number of them

AllFaults == {"loss", "down", "read_error", "listen", "stall"}

ASSUME TimesAssumption ==
    /\ INITIAL_TIMEOUT_INTERVAL \in Nat \ {0}
    /\ query_interval \in Nat \ {0}
    /\ ttl \in Nat \ {0}
ASSUME ConstantsAssumption ==
    /\ None \notin Int
    /\ IsFiniteSet(Addrs)
    /\ ChannelCapacity \in Nat \ {0}
    /\ FaultKinds \subseteq AllFaults /\ MaxFaults \in Nat

VARIABLES
    \* InterfaceState
    if_task,            \* if_task[n]: "none", "running", or "ended" but still in if_tasks
    timeout,            \* timeout[n]: time until the next query
    probe_state,        \* probe_state[n]: [probing, interval]
    send_buffer,
    discovered,         \* discovered[n]: records to be handed to the Behaviour
    \* Behaviour
    query_response,     \* query_response[n]: the channel between the two
    discovered_nodes,   \* discovered_nodes[n][r]: time to live, or None
    closest_expiration, \* closest_expiration[n]: time until the timer fires, or None
    pending_events,
    woken,              \* woken[n]: the task of the Behaviour is scheduled
    listen_addresses,
    \* the rest of the world
    inbox,              \* inbox[n]: packets that have reached n's socket
    known,              \* known[n][r]: how often n's program has been told that r was
                        \* discovered, less how often that it has expired
    faults              \* number of faults so far

ifaceVars == <<timeout, probe_state, send_buffer, discovered>>
nodeVars  == <<discovered_nodes, closest_expiration, pending_events>>
vars == <<if_task, ifaceVars, query_response, nodeVars, woken, listen_addresses, inbox, known, faults>>

Records == [peer : Nodes, addr : Addrs]
Timed == [record : Records, left : 0 .. ttl]
Probes == [probing : BOOLEAN, interval : Nat]

Query == [type |-> "query"]
Response(n, A) == [type |-> "response", peer |-> n, addrs |-> A]
Packets == {Query} \cup [type : {"response"}, peer : Nodes, addrs : SUBSET Addrs]

Event(type, R) == [type |-> type, records |-> R]
Events == [type : {"Discovered", "NewExternalAddrOfPeer", "Expired"}, records : SUBSET Records]

\* The addresses in discovered_nodes[n].
Listed(n) == {r \in Records : discovered_nodes[n][r] # None}

Fault(kind) ==
    /\ kind \in FaultKinds
    /\ faults < MaxFaults
    /\ faults' = faults + 1

Init ==
    /\ if_task = [n \in Nodes |-> "none"]
    /\ timeout = [n \in Nodes |-> 0]
    /\ probe_state = [n \in Nodes |-> [probing |-> TRUE, interval |-> INITIAL_TIMEOUT_INTERVAL]]
    /\ send_buffer = [n \in Nodes |-> <<>>]
    /\ discovered = [n \in Nodes |-> <<>>]
    /\ query_response = [n \in Nodes |-> <<>>]
    /\ discovered_nodes = [n \in Nodes |-> [r \in Records |-> None]]
    /\ closest_expiration = [n \in Nodes |-> None]
    /\ pending_events = [n \in Nodes |-> <<>>]
    /\ woken = [n \in Nodes |-> TRUE]
    /\ listen_addresses = [n \in Nodes |-> Addrs]
    /\ inbox = [n \in Nodes |-> <<>>]
    /\ known = [n \in Nodes |-> [r \in Records |-> 0]]
    /\ faults = 0

-------------------------------------------------------------------------------
(* The interface task.  Its steps are the branches of the loop in poll, which *)
(* returns to the top after each: a branch waits for the ones before it.      *)

Running(n) == if_task[n] = "running"

\* Stop probing when the interval has reached query_interval.
NextProbe(probe) ==
    LET doubled == probe.interval * 2
    IN  CASE ~probe.probing -> probe
          [] probe.probing /\ doubled >= query_interval ->
                [probing |-> FALSE, interval |-> query_interval]
          [] OTHER -> [probing |-> TRUE, interval |-> doubled]

FireOnce(n, probe) == timeout' = [timeout EXCEPT ![n] = None]          \* mutant
reset_timer(n, probe) == timeout' = [timeout EXCEPT ![n] = probe.interval]

\* 1st priority: the timer has fired.
QueryTick(n) ==
    LET probe == NextProbe(probe_state[n])
    IN  /\ Running(n)
        /\ timeout[n] = 0
        /\ send_buffer' = [send_buffer EXCEPT ![n] = Append(@, Query)]
        /\ probe_state' = [probe_state EXCEPT ![n] = probe]
        /\ reset_timer(n, probe)
        /\ UNCHANGED <<if_task, discovered, query_response, nodeVars, woken, listen_addresses,
                       inbox, known, faults>>

\* 2nd priority: a packet goes to all nodes, the sender included; one that cannot be
\* sent is dropped.
Send(n) ==
    /\ Running(n)
    /\ timeout[n] # 0
    /\ send_buffer[n] # <<>>
    /\ send_buffer' = [send_buffer EXCEPT ![n] = Tail(@)]
    /\ inbox' = [m \in Nodes |->
            IF Running(m) THEN Append(inbox[m], Head(send_buffer[n])) ELSE inbox[m]]
    /\ UNCHANGED <<if_task, timeout, probe_state, discovered, query_response, nodeVars, woken,
                   listen_addresses, known, faults>>

\* 3rd priority: a discovered address is handed on when the channel has room.
HasRoom(n) == Len(query_response[n]) < ChannelCapacity
Return(n) ==
    /\ Running(n)
    /\ timeout[n] # 0 /\ send_buffer[n] = <<>>
    /\ discovered[n] # <<>> /\ HasRoom(n)
    /\ query_response' = [query_response EXCEPT ![n] = Append(@, Head(discovered[n]))]
    /\ discovered' = [discovered EXCEPT ![n] = Tail(@)]
    /\ woken' = [woken EXCEPT ![n] = TRUE]
    /\ UNCHANGED <<if_task, timeout, probe_state, send_buffer, nodeVars, listen_addresses, inbox,
                   known, faults>>

\* The records of a response in some order, without those of the node itself.
extract_discovered(n, p) ==
    IF p.peer = n THEN {<<>>}
    ELSE {s \in [1 .. Cardinality(p.addrs) ->
                    [record : {[peer |-> p.peer, addr |-> a] : a \in p.addrs}, left : {ttl}]] :
            \A i, j \in DOMAIN s : i # j => s[i] # s[j]}

\* 4th priority: a packet is read.
Receive(n) ==
    LET p == Head(inbox[n])
    IN  /\ Running(n)
        /\ timeout[n] # 0 /\ send_buffer[n] = <<>>
        /\ discovered[n] = <<>> \/ ~HasRoom(n)
        /\ inbox[n] # <<>>
        /\ inbox' = [inbox EXCEPT ![n] = Tail(@)]
        /\ \/ /\ p.type = "query"
              /\ send_buffer' = [send_buffer EXCEPT ![n] = Append(@, Response(n, listen_addresses[n]))]
              /\ UNCHANGED <<discovered, probe_state, timeout>>
           \/ /\ p.type = "response"
              /\ \E s \in extract_discovered(n, p) :
                    discovered' = [discovered EXCEPT ![n] = @ \o s]
              /\ IF discovered'[n] = <<>>
                 THEN UNCHANGED <<probe_state, timeout>>
                 ELSE LET probe == [probing |-> FALSE, interval |-> query_interval]
                      IN  /\ probe_state' = [probe_state EXCEPT ![n] = probe]
                          /\ reset_timer(n, probe)
              /\ UNCHANGED send_buffer
        /\ UNCHANGED <<if_task, query_response, nodeVars, woken, listen_addresses, known, faults>>

\* An error of the socket ends the task.  Nobody takes it out of if_tasks.
ReadError(n) ==
    /\ Fault("read_error")
    /\ Running(n)
    /\ if_task' = [if_task EXCEPT ![n] = "ended"]
    /\ inbox' = [inbox EXCEPT ![n] = <<>>]
    /\ UNCHANGED <<ifaceVars, query_response, nodeVars, woken, listen_addresses, known>>

\* A packet is lost on the way to n.
Lose(n) ==
    /\ Fault("loss")
    /\ inbox[n] # <<>>
    /\ inbox' = [inbox EXCEPT ![n] = Tail(@)]
    /\ UNCHANGED <<if_task, ifaceVars, query_response, nodeVars, woken, listen_addresses, known>>

-------------------------------------------------------------------------------
(* The Behaviour.                                                            *)

\* A pending event is returned to the swarm.
Emit(n) ==
    LET e == Head(pending_events[n])
    IN  /\ pending_events[n] # <<>>
        /\ pending_events' = [pending_events EXCEPT ![n] = Tail(@)]
        /\ known' = [known EXCEPT ![n] = [r \in Records |->
                CASE r \in e.records /\ e.type = "Discovered" -> @[r] + 1
                  [] r \in e.records /\ e.type = "Expired"    -> @[r] - 1
                  [] OTHER                                    -> @[r]]]
        /\ UNCHANGED <<if_task, ifaceVars, query_response, discovered_nodes, closest_expiration,
                       woken, listen_addresses, inbox, faults>>

\* InterfaceState::new: the first query is due at once.
NewInterface(n) ==
    /\ timeout' = [timeout EXCEPT ![n] = 0]
    /\ probe_state' = [probe_state EXCEPT ![n] =
            [probing |-> TRUE, interval |-> INITIAL_TIMEOUT_INTERVAL]]
    /\ send_buffer' = [send_buffer EXCEPT ![n] = <<>>]
    /\ discovered' = [discovered EXCEPT ![n] = <<>>]

\* IfEvent::Up: an InterfaceState is created unless there is one.
IfUp(n) ==
    /\ pending_events[n] = <<>>
    /\ if_task[n] = "none"
    /\ if_task' = [if_task EXCEPT ![n] = "running"]
    /\ NewInterface(n)
    /\ woken' = [woken EXCEPT ![n] = TRUE]
    /\ UNCHANGED <<query_response, nodeVars, listen_addresses, inbox, known, faults>>

\* IfEvent::Down: the task is aborted.
IfDown(n) ==
    /\ Fault("down")
    /\ pending_events[n] = <<>>
    /\ if_task[n] # "none"
    /\ if_task' = [if_task EXCEPT ![n] = "none"]
    /\ inbox' = [inbox EXCEPT ![n] = <<>>]
    /\ woken' = [woken EXCEPT ![n] = TRUE]
    /\ UNCHANGED <<ifaceVars, query_response, nodeVars, listen_addresses, known>>

\* on_swarm_event: the listen addresses change.
ListenAddressesChange(n, A) ==
    /\ Fault("listen")
    /\ listen_addresses' = [listen_addresses EXCEPT ![n] = A]
    /\ UNCHANGED <<if_task, ifaceVars, query_response, nodeVars, woken, inbox, known>>

\* The records in the channel, and their times to live.
Arrived(n) == {query_response[n][i].record : i \in DOMAIN query_response[n]}
Lefts(n, r) == {query_response[n][i].left : i \in {i \in DOMAIN query_response[n] :
                                                    query_response[n][i].record = r}}

ReportAll(n) == Arrived(n)                                            \* mutant
\* Those that discovered_nodes does not have yet.
NewNodes(n) == Arrived(n) \ Listed(n)

KeepsFirst(n) == [r \in Records |->                                   \* mutant
    IF r \in Listed(n) THEN discovered_nodes[n][r]
    ELSE IF r \in Arrived(n) THEN CHOOSE t \in Lefts(n, r) : TRUE ELSE None]
Prolongs(n) == [r \in Records |->                                     \* mutant
    CASE r \in Listed(n) /\ r \in Arrived(n) ->
            discovered_nodes[n][r] + (CHOOSE t \in Lefts(n, r) : TRUE)
      [] r \in Arrived(n) -> CHOOSE t \in Lefts(n, r) : TRUE
      [] OTHER -> discovered_nodes[n][r]]
\* discovered_nodes[n] after everything in the channel has been read: the later
\* expiration counts.
Refreshed(n) == [r \in Records |->
    LET times == Lefts(n, r) \cup ({discovered_nodes[n][r]} \ {None})
    IN  IF times = {} THEN None ELSE CHOOSE t \in times : \A u \in times : t >= u]

TimerKept(n, nodes) == closest_expiration[n]                          \* mutant
\* The timer for the node that expires first; without nodes it is left as it is.
ClosestExpiration(n, nodes) ==
    LET times == {nodes[r] : r \in {r \in Records : nodes[r] # None}}
    IN  IF times = {} THEN closest_expiration[n]
        ELSE CHOOSE t \in times : \A u \in times : t <= u

\* One turn of poll without pending events: the channel is emptied; new nodes are
\* reported, else expired ones, else the timer is set and the task sleeps.
BehaviourPoll(n) ==
    LET nodes   == Refreshed(n)
        new     == NewNodes(n)
        expired == {r \in Records : nodes[r] # None /\ nodes[r] = 0}
    IN  /\ woken[n]
        /\ pending_events[n] = <<>>
        /\ query_response' = [query_response EXCEPT ![n] = <<>>]
        /\ \/ /\ new # {}
              /\ discovered_nodes' = [discovered_nodes EXCEPT ![n] = nodes]
              /\ pending_events' = [pending_events EXCEPT ![n] =
                    <<Event("Discovered", new), Event("NewExternalAddrOfPeer", new)>>]
              /\ UNCHANGED <<closest_expiration, woken>>
           \/ /\ new = {} /\ expired # {}
              /\ discovered_nodes' = [discovered_nodes EXCEPT ![n] =
                    [r \in Records |-> IF r \in expired THEN None ELSE nodes[r]]]
              /\ pending_events' = [pending_events EXCEPT ![n] = <<Event("Expired", expired)>>]
              /\ UNCHANGED <<closest_expiration, woken>>
           \/ /\ new = {} /\ expired = {}
              /\ discovered_nodes' = [discovered_nodes EXCEPT ![n] = nodes]
              /\ closest_expiration' = [closest_expiration EXCEPT ![n] = ClosestExpiration(n, nodes)]
              /\ woken' = [woken EXCEPT ![n] = FALSE]
              /\ UNCHANGED pending_events
        /\ UNCHANGED <<if_task, ifaceVars, listen_addresses, inbox, known, faults>>

-------------------------------------------------------------------------------
(* Time.                                                                     *)

\* Something at n is to be done now.
Urgent(n) ==
    \/ woken[n] \/ pending_events[n] # <<>>
    \/ /\ Running(n)
       /\ timeout[n] = 0 \/ send_buffer[n] # <<>> \/ discovered[n] # <<>> \/ inbox[n] # <<>>

Less(t) == IF t = None \/ t = 0 THEN t ELSE t - 1
Older(s) == [i \in DOMAIN s |-> [s[i] EXCEPT !.left = Less(@)]]

\* Time passes once all work is done; a machine under load or asleep is a stall.
Tick ==
    /\ IF \E n \in Nodes : Urgent(n) THEN Fault("stall") ELSE UNCHANGED faults
    /\ timeout' = [n \in Nodes |-> Less(timeout[n])]
    /\ discovered' = [n \in Nodes |-> Older(discovered[n])]
    /\ query_response' = [n \in Nodes |-> Older(query_response[n])]
    /\ discovered_nodes' = [n \in Nodes |-> [r \in Records |-> Less(discovered_nodes[n][r])]]
    /\ closest_expiration' = [n \in Nodes |-> Less(closest_expiration[n])]
    /\ woken' = [n \in Nodes |-> woken[n] \/ closest_expiration[n] = 1]
    /\ UNCHANGED <<if_task, probe_state, send_buffer, pending_events, listen_addresses, inbox, known>>

Next ==
    \/ \E n \in Nodes :
        \/ QueryTick(n) \/ Send(n) \/ Return(n) \/ Receive(n)
        \/ ReadError(n) \/ Lose(n)
        \/ Emit(n) \/ IfUp(n) \/ IfDown(n) \/ BehaviourPoll(n)
        \/ \E A \in SUBSET Addrs : ListenAddressesChange(n, A)
    \/ Tick

Spec == Init /\ [][Next]_vars

\* The executor polls a task that is woken, and time passes.
Fairness ==
    /\ WF_vars(Tick)
    /\ \A n \in Nodes :
        /\ WF_vars(QueryTick(n)) /\ WF_vars(Send(n)) /\ WF_vars(Return(n)) /\ WF_vars(Receive(n))
        /\ WF_vars(Emit(n)) /\ WF_vars(BehaviourPoll(n))

FairSpec == Spec /\ Fairness

-------------------------------------------------------------------------------
(* Properties.                                                               *)

\* Every variable has its type.
TypeOK ==
    /\ if_task \in [Nodes -> {"none", "running", "ended"}]
    /\ timeout \in [Nodes -> Nat]
    /\ probe_state \in [Nodes -> Probes]
    /\ send_buffer \in [Nodes -> Seq(Packets)]
    /\ discovered \in [Nodes -> Seq(Timed)]
    /\ query_response \in [Nodes -> Seq(Timed)]
    /\ discovered_nodes \in [Nodes -> [Records -> 0 .. ttl \cup {None}]]
    /\ closest_expiration \in [Nodes -> 0 .. ttl \cup {None}]
    /\ pending_events \in [Nodes -> Seq(Events)]
    /\ woken \in [Nodes -> BOOLEAN]
    /\ listen_addresses \in [Nodes -> SUBSET Addrs]
    /\ inbox \in [Nodes -> Seq(Packets)]
    /\ known \in [Nodes -> [Records -> 0 .. 1]]
    /\ faults \in 0 .. MaxFaults

\* What the events of the Behaviour add up to: nothing is reported as discovered
\* that is known, or as expired that is not, whatever arrives, gets lost or is late.
Discovery == INSTANCE PeerDiscovery
ImplementsDiscovery == Discovery!Spec

\* Why: once its pending events are out, the program knows what the Behaviour lists.
\* Balanced relates a queue of events q, what has been told k, and the nodes listed L.
Told(R) == [r \in Records |-> IF r \in R THEN 1 ELSE 0]
Balanced(q, k, L) ==
    \/ q = <<>> /\ k = Told(L)
    \/ \E R \in SUBSET Records :
        \/ /\ q = <<Event("NewExternalAddrOfPeer", R)>>
           /\ k = Told(L)
        \/ /\ q = <<Event("Discovered", R), Event("NewExternalAddrOfPeer", R)>>
           /\ R # {} /\ R \subseteq L /\ k = Told(L \ R)
        \/ /\ q = <<Event("Expired", R)>>
           /\ R # {} /\ R \cap L = {} /\ k = Told(L \cup R)
EventsInv == \A n \in Nodes : Balanced(pending_events[n], known[n], Listed(n))

\* While the task of the Behaviour sleeps, its timer will wake it no later than the
\* first node expires.
WakesInTime ==
    \A n \in Nodes : \A r \in Listed(n) :
        ~woken[n] /\ pending_events[n] = <<>> =>
            closest_expiration[n] # None /\ closest_expiration[n] <= discovered_nodes[n][r]
                /\ closest_expiration[n] > 0

\* As long as no fault has happened no node is reported as expired: the queries of
\* each node and the answers of all the others come before the time to live ends.
NoFalseExpiry ==
    faults = 0 => \A n \in Nodes : \A i \in DOMAIN pending_events[n] : pending_events[n][i].type # "Expired"

\* Nodes whose interfaces stay up find each other at the addresses they listen on,
\* even if packets are lost at first: queries are repeated.
FoundDespiteLoss ==
    <>[](\A n \in Nodes : Running(n)) =>
        <>[](\A m, n \in Nodes : m # n =>
                \A a \in listen_addresses[m] : known[n][[peer |-> m, addr |-> a]] = 1)

\* A node that is gone for good is forgotten by all the others.
GoneIsForgotten ==
    \A m \in Nodes :
        <>[](~Running(m)) => <>[](\A n \in Nodes, a \in Addrs : known[n][[peer |-> m, addr |-> a]] = 0)
===============================================================================
