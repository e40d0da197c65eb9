---------------------------- MODULE PeerConnections ----------------------------
(* How a node keeps its connections: the swarm events of `run` in            *)
(* src/src/network.rs, the retries of failed connections with                *)
(* retry_waiting_thread, and the boot node.                                  *)
(*                                                                           *)
(* The swarm of libp2p is the environment: it opens and closes connections,  *)
(* finishes dials and reports listen addresses.  An action is one such event *)
(* together with the whole branch of `run` that handles it.                  *)
EXTENDS Integers, FiniteSets

CONSTANTS
    Peers,        \* the other nodes
    Sockets,      \* ip and port pairs of the other nodes
    Owner,        \* Owner[s]: the peer that has socket s
    Class,        \* Class[s]: "local", "link_local" or "routable"
    Ephemeral,    \* sockets that incoming connections come from
    Boot,         \* the socket given with --connect, or None
    ListenAddrs,  \* own listen addresses, with their Class
    ErrorKinds,   \* the dial errors that happen
    None,
    MaxEvents     \* bound: number of events the network produces of its own

Classes == {"local", "link_local", "routable"}
AllErrors == {"hold", "refused", "opaque", "unsupported", "dead", "aborted"}

ASSUME SocketsAssumption ==
    /\ Owner \in [Sockets -> Peers]
    /\ Class \in [Sockets \cup ListenAddrs -> Classes]
    /\ Ephemeral \subseteq Sockets
    /\ Boot \in (Sockets \ Ephemeral) \cup {None}
    /\ None \notin Peers \cup Sockets \cup Nat
ASSUME EventsAssumption == ErrorKinds \subseteq AllErrors /\ MaxEvents \in Nat

VARIABLES
    current_listen_addresses,
    endpoint_cache,       \* endpoint_cache[e]: how often e is in the VecDeque, whose
                          \* order nothing reads
    unique_endpoints,
    failing_connections,  \* failing_connections[e]: its retry_count, or None
    announced_identities, \* announced_identities[p]: listen addresses p announced
    routing,              \* addresses `run` has given to Kademlia
    timers,               \* timers[e]: tasks for e in the retry queue, asleep in
                          \* delayed_callback or in the callback queue
    dials,                \* dials[a]: dials of address a under way
    conns,                \* conns[k]: established connections of kind k
    reachable,            \* sockets that answer
    events                \* number of events so far

vars == <<current_listen_addresses, endpoint_cache, unique_endpoints, failing_connections,
          announced_identities, routing, timers, dials, conns, reachable, events>>

cacheVars == <<endpoint_cache, unique_endpoints>>
retryVars == <<failing_connections, timers>>
kadVars   == <<announced_identities, routing>>

-------------------------------------------------------------------------------
\* A Multiaddr: ip and port, and the peer of a /p2p suffix if it has one.
Addresses == {a \in [socket : Sockets, p2p : Peers \cup {None}] : a.p2p \in {None, Owner[a.socket]}}
Plain(s) == [socket |-> s, p2p |-> None]
WithP2p(s) == [socket |-> s, p2p |-> Owner[s]]

\* PeerEndpointCache
Endpoints == {e \in [peer_id : Peers, address : Addresses] : e.peer_id = Owner[e.address.socket]}
EndpointAt(a) == [peer_id |-> Owner[a.socket], address |-> a]

get_non_p2p_multiaddr(a) == Plain(a.socket)

Connections == [endpoint : Endpoints, dialer : BOOLEAN]

\* swarm.connected_peers()
Connected == {p \in Peers : \E k \in Connections : k.endpoint.peer_id = p /\ conns[k] > 0}

NonLocal == {a \in current_listen_addresses : Class[a] # "local"}
LinkLocal == {a \in current_listen_addresses : Class[a] = "link_local"}

is_network_ok(target) ==
    \/ Connected # {}
    \/ /\ NonLocal # {}
       /\ IF Class[target.socket] = "link_local"
          THEN LinkLocal # {}
          ELSE Cardinality(LinkLocal) < Cardinality(NonLocal)

\* swarm.dial, when cond holds.
Dial(cond, a) == IF cond THEN [dials EXCEPT ![a] = @ + 1] ELSE dials

Init ==
    /\ current_listen_addresses = {}
    /\ endpoint_cache = [e \in Endpoints |-> 0]
    /\ unique_endpoints = {}
    /\ failing_connections = [e \in Endpoints |-> None]
    /\ announced_identities = [p \in Peers |-> {}]
    /\ routing = {s \in Sockets : s = Boot}
    /\ timers = [e \in Endpoints |-> 0]
    /\ dials = [a \in Addresses |-> IF Boot # None /\ a = Plain(Boot) THEN 1 ELSE 0]
    /\ conns = [k \in Connections |-> 0]
    /\ reachable \in SUBSET Sockets
    /\ events = 0

\* The network does something that `run` did not ask for.
External ==
    /\ events < MaxEvents
    /\ events' = events + 1

-------------------------------------------------------------------------------
(* Listen addresses.                                                         *)

NewListenAddr(a) ==
    /\ External
    /\ a \notin current_listen_addresses
    /\ current_listen_addresses' = current_listen_addresses \cup {a}
    /\ dials' = Dial(Boot # None /\ (Connected = {} \/ NonLocal = {}), Plain(Boot))
    /\ UNCHANGED <<cacheVars, retryVars, kadVars, conns, reachable>>

\* A failure of the endpoints in E is put on record and queued for a retry.
Retry(E) ==
    /\ failing_connections' = [e \in Endpoints |->
            IF e \in E /\ failing_connections[e] = None THEN 0 ELSE failing_connections[e]]
    /\ timers' = [e \in Endpoints |-> IF e \in E THEN timers[e] + 1 ELSE timers[e]]

ExpiredListenAddr(a) ==
    /\ External
    /\ a \in current_listen_addresses
    /\ current_listen_addresses' = current_listen_addresses \ {a}
    /\ Retry(IF Boot # None /\ NonLocal \ {a} # {} THEN {EndpointAt(Plain(Boot))} ELSE {})
    /\ UNCHANGED <<cacheVars, kadVars, dials, conns, reachable>>

-------------------------------------------------------------------------------
(* Connections.                                                              *)

PushAgain(e) == endpoint_cache[e] + 1                                 \* mutant
\* How often e is in endpoint_cache after push_front: an e that is known already
\* is taken out before.
PushFront(e) == IF e \in unique_endpoints THEN 1 ELSE endpoint_cache[e] + 1

\* SwarmEvent::ConnectionEstablished on endpoint e.
Established(e, dialer) ==
    LET cache == [e EXCEPT !.address = get_non_p2p_multiaddr(@)]
        k     == [endpoint |-> e, dialer |-> dialer]
    IN  /\ conns' = [conns EXCEPT ![k] = @ + 1]
        /\ unique_endpoints' = unique_endpoints \cup {cache}
        /\ endpoint_cache' = [endpoint_cache EXCEPT ![cache] = PushFront(cache)]
        /\ failing_connections' = [f \in Endpoints |->
                IF f.peer_id = e.peer_id THEN None ELSE failing_connections[f]]

\* The sets of addresses a dial may try: with a known peer, Kademlia and mDNS add
\* those they have of it.
DialAddresses(d) ==
    LET known == {WithP2p(s) : s \in {s \in Sockets \ Ephemeral : Owner[s] = d.p2p}}
    IN  {{d} \cup A : A \in SUBSET known}

DialSucceeds(d) ==
    /\ dials[d] > 0
    /\ dials' = [dials EXCEPT ![d] = @ - 1]
    /\ \E a \in UNION DialAddresses(d) : a.socket \in reachable /\ Established(EndpointAt(a), TRUE)
    /\ UNCHANGED <<current_listen_addresses, kadVars, timers, reachable, events>>

IncomingConnection(s) ==
    /\ External
    /\ s \in Ephemeral
    /\ Established(EndpointAt(Plain(s)), FALSE)
    /\ UNCHANGED <<current_listen_addresses, kadVars, timers, dials, reachable>>

\* retain on both collections: all endpoints of the peers P and at the addresses A go.
Forget(P, A) ==
    LET gone(e) == e.peer_id \in P \/ e.address \in A
    IN  /\ unique_endpoints' = {e \in unique_endpoints : ~gone(e)}
        /\ endpoint_cache' = [e \in Endpoints |-> IF gone(e) THEN 0 ELSE endpoint_cache[e]]

NotLastOne(p, k) == FALSE                                             \* mutant
\* num_established = 0: connection k was the only one with peer p.
LastOne(p, k) == \A j \in Connections :
    j.endpoint.peer_id = p => conns[j] = IF j = k THEN 1 ELSE 0

ConnectionClosed(k, cause) ==
    LET e == k.endpoint
    IN  /\ External
        /\ conns[k] > 0
        /\ conns' = [conns EXCEPT ![k] = @ - 1]
        /\ Forget(IF LastOne(e.peer_id, k) THEN {e.peer_id} ELSE {},
                  IF cause # "none" THEN {e.address} ELSE {})
        /\ Retry(IF cause = "io" /\ k.dialer THEN {e} ELSE {})
        /\ UNCHANGED <<current_listen_addresses, kadVars, dials, reachable>>

\* OutgoingConnectionError without a peer id: every branch needs one.
PlainDialFails(d) ==
    /\ d.p2p = None
    /\ dials[d] > 0
    /\ d.socket \notin reachable
    /\ dials' = [dials EXCEPT ![d] = @ - 1]
    /\ UNCHANGED <<current_listen_addresses, cacheVars, retryVars, kadVars, conns, reachable, events>>

RefusedKeepsTask(E, R) == failing_connections                         \* mutant
\* The retry state after a DialError::Transport: E are the endpoints that failed
\* with "NetworkUnreachable" or "Timeout", R those that failed in another way.
FailingAfter(E, R) == [e \in Endpoints |->
    CASE e \in E -> IF failing_connections[e] = None THEN 0 ELSE failing_connections[e]
      [] e \in R -> None
      [] OTHER   -> failing_connections[e]]

\* DialError::Transport to a known peer: one error for each address in A.  An
\* "opaque" one has no inner error; an "unsupported" one makes the peer a dead one.
TransportError(d, A) ==
    \E errors \in [A -> ErrorKinds \ {"dead", "aborted"}] :
        LET held    == {EndpointAt(a) : a \in {a \in A : errors[a] = "hold"}}
            refused == {a \in A : errors[a] = "refused"}
            clean   == \E a \in A : errors[a] = "unsupported"
        IN  /\ failing_connections' = FailingAfter(held, {EndpointAt(a) : a \in refused})
            /\ timers' = [e \in Endpoints |-> IF e \in held THEN timers[e] + 1 ELSE timers[e]]
            /\ Forget(IF clean THEN {d.p2p} ELSE {}, refused)
            /\ routing' = {s \in routing :
                    /\ WithP2p(s) \notin refused
                    /\ clean => Owner[s] # d.p2p}

\* Every other DialError to a known peer.
OtherDialError(d) ==
    \E kind \in ErrorKinds \cap {"dead", "aborted"} :
        /\ Forget(IF kind = "dead" THEN {d.p2p} ELSE {}, {})
        /\ routing' = {s \in routing : kind = "dead" => Owner[s] # d.p2p}
        /\ UNCHANGED retryVars

DialFails(d) ==
    /\ d.p2p # None
    /\ dials[d] > 0
    /\ dials' = [dials EXCEPT ![d] = @ - 1]
    /\ \E A \in DialAddresses(d) :
        /\ \A a \in A : a.socket \notin reachable
        /\ TransportError(d, A) \/ OtherDialError(d)
    /\ UNCHANGED <<current_listen_addresses, announced_identities, conns, reachable, events>>

-------------------------------------------------------------------------------
(* Other events.                                                             *)

ReplaceNothing(p, S) == routing \cup {s \in S : Class[s] # "local"}    \* mutant
\* identify::Event::Received: p announces the addresses in S.
RoutingAfter(p, S) ==
    (routing \ (announced_identities[p] \ S)) \cup {s \in S : Class[s] # "local"}

IdentifyReceived(p, S) ==
    /\ External
    /\ p \in Connected
    /\ announced_identities' = [announced_identities EXCEPT ![p] = S]
    /\ routing' = RoutingAfter(p, S)
    /\ UNCHANGED <<current_listen_addresses, cacheVars, retryVars, dials, conns, reachable>>

\* Each discovered address is dialled.  Kademlia dials peers in the same way, for
\* queries of its own.
MdnsDiscovered(s) ==
    /\ External
    /\ s \notin Ephemeral
    /\ dials' = Dial(TRUE, WithP2p(s))
    /\ UNCHANGED <<current_listen_addresses, cacheVars, retryVars, kadVars, conns, reachable>>

MdnsExpired(s) ==
    /\ External
    /\ s \in routing
    /\ routing' = routing \ {s}
    /\ UNCHANGED <<current_listen_addresses, cacheVars, retryVars, announced_identities,
                   dials, conns, reachable>>

\* Peers come and go.
ReachabilityChanges(s) ==
    /\ External
    /\ reachable' = IF s \in reachable THEN reachable \ {s} ELSE reachable \cup {s}
    /\ UNCHANGED <<current_listen_addresses, cacheVars, retryVars, kadVars, dials, conns>>

OneRetryMore(count) == count <= 4                                     \* mutant
is_task_ok(count) == count <= 3

\* A task comes back from retry_waiting_thread.
RetryCallback(e) ==
    LET count == failing_connections[e]
        done  == timers' = [timers EXCEPT ![e] = @ - 1]
    IN  /\ timers[e] > 0
        /\ \/ /\ count = None
              /\ done
              /\ UNCHANGED <<failing_connections, dials>>
           \/ /\ count # None
              /\ ~is_network_ok(e.address)        \* sent to the retry queue again
              /\ UNCHANGED <<timers, failing_connections, dials>>
           \/ /\ count # None
              /\ is_network_ok(e.address)
              /\ ~is_task_ok(count) \/ e.peer_id \in Connected
              /\ done
              /\ failing_connections' = [failing_connections EXCEPT ![e] = None]
              /\ UNCHANGED dials
           \/ /\ count # None
              /\ is_network_ok(e.address)
              /\ is_task_ok(count) /\ e.peer_id \notin Connected
              /\ done
              /\ failing_connections' = [failing_connections EXCEPT ![e] = count + 1]
              /\ dials' = Dial(TRUE, e.address)
        /\ UNCHANGED <<current_listen_addresses, cacheVars, kadVars, conns, reachable, events>>

IdleNeverDials == FALSE                                               \* mutant
\* swarm.connected_peers().count() < 1, with a boot node.
IdleDials == Boot # None /\ Connected = {}

\* 30 s without an event.  Each iteration starts them anew, a retry takes at most
\* 4 * 4 + 1 s and libp2p gives up a dial after 10: none of them is under way.
LongIdle ==
    /\ \A e \in Endpoints : timers[e] = 0
    /\ \A a \in Addresses : dials[a] = 0
    /\ dials' = Dial(IdleDials, Plain(Boot))
    /\ UNCHANGED <<current_listen_addresses, cacheVars, retryVars, kadVars, conns, reachable, events>>

Next ==
    \/ \E a \in ListenAddrs : NewListenAddr(a) \/ ExpiredListenAddr(a)
    \/ \E d \in Addresses : DialSucceeds(d) \/ PlainDialFails(d) \/ DialFails(d)
    \/ \E k \in Connections, cause \in {"none", "io", "other"} : ConnectionClosed(k, cause)
    \/ \E p \in Peers : \E S \in SUBSET {s \in Sockets \ Ephemeral : Owner[s] = p} :
            IdentifyReceived(p, S)
    \/ \E s \in Sockets :
        \/ IncomingConnection(s)
        \/ MdnsDiscovered(s) \/ MdnsExpired(s)
        \/ ReachabilityChanges(s)
    \/ \E e \in Endpoints : RetryCallback(e)
    \/ LongIdle

Spec == Init /\ [][Next]_vars

\* Dials end, timers fire, and when nothing happens the select falls idle.
Fairness ==
    /\ \A d \in Addresses : WF_vars(DialSucceeds(d) \/ PlainDialFails(d) \/ DialFails(d))
    /\ \A e \in Endpoints : WF_vars(RetryCallback(e))
    /\ WF_vars(LongIdle)

FairSpec == Spec /\ Fairness

-------------------------------------------------------------------------------
(* Properties.                                                               *)

\* Every variable has its type; no task is retried more than four times.
TypeOK ==
    /\ current_listen_addresses \subseteq ListenAddrs
    /\ endpoint_cache \in [Endpoints -> Nat]
    /\ unique_endpoints \subseteq Endpoints
    /\ failing_connections \in [Endpoints -> 0 .. 4 \cup {None}]
    /\ announced_identities \in [Peers -> SUBSET Sockets]
    /\ routing \subseteq Sockets
    /\ timers \in [Endpoints -> Nat]
    /\ dials \in [Addresses -> Nat]
    /\ conns \in [Connections -> Nat]
    /\ reachable \subseteq Sockets
    /\ events \in 0 .. MaxEvents

\* endpoint_cache and unique_endpoints, kept by hand in five places of `run`, hold
\* the same endpoints, and endpoint_cache holds each of them once.
CacheMirrorsSet ==
    \A e \in Endpoints : endpoint_cache[e] = IF e \in unique_endpoints THEN 1 ELSE 0

\* No endpoint of a peer outlives the last connection with it, although a
\* connection is removed under its address with the /p2p suffix and recorded without.
CachedIsConnected == \A e \in unique_endpoints : e.peer_id \in Connected

\* A failed connection to an address that names its peer is not forgotten: as long
\* as it is on record a retry is waiting or being made.  It needs errors that name
\* their cause and peers that keep their identity.
NoOrphanedRetry ==
    \A e \in Endpoints :
        failing_connections[e] # None /\ e.address.p2p # None =>
            timers[e] > 0 \/ dials[e.address] > 0

\* Kademlia keeps no address that its peer has stopped announcing, and no loopback
\* address of another machine; only the boot node's address needs no announcement.
RoutingAnnounced ==
    \A s \in routing :
        s = Boot \/ (s \in announced_identities[Owner[s]] /\ Class[s] # "local")

\* The boot node answers, over an interface that `run` counts as a network.
BootUsable == Boot \in reachable /\ NonLocal # LinkLocal

\* A node with a boot node does not stay alone: if the boot node can be reached
\* from some time on, the node has a peer again and again.
BootReconnects == <>[]BootUsable => []<>(Connected # {})
===============================================================================
