------------------------- MODULE PeerConnectionsProofs -------------------------
(* Proofs about PeerConnections, for every set of peers and sockets: the two *)
(* endpoint collections of `run` agree and hold connected peers only, and    *)
(* Kademlia's addresses are announced ones.                                  *)
EXTENDS PeerConnections, TLAPS

\* The inductive invariant.  CachedIsConnected is about connections and
\* endpoints, whose types are needed; the other two parts stand on their own.
ConnInv == TypeOK /\ CacheMirrorsSet /\ CachedIsConnected /\ RoutingAnnounced

-------------------------------------------------------------------------------
(* Addresses and endpoints.                                                  *)

\* A socket makes an address with and without its peer.
LEMMA SocketAddress ==
    ASSUME NEW s \in Sockets
    PROVE  /\ Plain(s) \in Addresses /\ Plain(s).socket = s
           /\ WithP2p(s) \in Addresses /\ WithP2p(s).socket = s
  BY SocketsAssumption DEF Plain, WithP2p, Addresses

\* An address makes an endpoint of the peer that has its socket.
LEMMA AddressEndpoint ==
    ASSUME NEW a \in Addresses
    PROVE  /\ a.socket \in Sockets
           /\ EndpointAt(a) \in Endpoints
           /\ EndpointAt(a).peer_id = Owner[a.socket]
           /\ EndpointAt(a).address = a
  BY SocketsAssumption DEF Addresses, EndpointAt, Endpoints

\* get_non_p2p_multiaddr leaves an endpoint of the same peer.
LEMMA StrippedEndpoint ==
    ASSUME NEW e \in Endpoints
    PROVE  LET cache == [e EXCEPT !.address = get_non_p2p_multiaddr(@)]
           IN  cache \in Endpoints /\ cache.peer_id = e.peer_id
  <1>1. /\ e \in [peer_id : Peers, address : Addresses]
        /\ e.address.socket \in Sockets
        /\ e.peer_id = Owner[e.address.socket]
    BY DEF Endpoints, Addresses
  <1>2. /\ Plain(e.address.socket) \in Addresses
        /\ Plain(e.address.socket).socket = e.address.socket
    BY <1>1, SocketAddress
  <1> QED
    BY <1>1, <1>2 DEF Endpoints, get_non_p2p_multiaddr

\* A dial tries addresses of the node it is meant for.
LEMMA DialAddressesType ==
    ASSUME NEW d \in Addresses
    PROVE  /\ \A A \in DialAddresses(d) : A \subseteq Addresses
           /\ UNION DialAddresses(d) \subseteq Addresses
  BY SocketAddress DEF DialAddresses

-------------------------------------------------------------------------------
(* The handlers that several events share.                                   *)

\* Forget keeps the two collections alike and drops nothing else.
LEMMA ForgetFacts ==
    ASSUME NEW P, NEW A, TypeOK, CacheMirrorsSet, Forget(P, A)
    PROVE  /\ endpoint_cache' \in [Endpoints -> Nat]
           /\ unique_endpoints' \subseteq unique_endpoints
           /\ \A e \in unique_endpoints' : e.peer_id \notin P
           /\ CacheMirrorsSet'
  BY DEF TypeOK, CacheMirrorsSet, Forget

\* Retry writes a count only where there was none.
LEMMA RetryFacts ==
    ASSUME NEW E, TypeOK, Retry(E)
    PROVE  /\ failing_connections' \in [Endpoints -> 0 .. 4 \cup {None}]
           /\ timers' \in [Endpoints -> Nat]
  BY DEF TypeOK, Retry

\* A dial is of an address.
LEMMA DialFacts ==
    ASSUME NEW cond, NEW a, TypeOK, cond => a \in Addresses
    PROVE  Dial(cond, a) \in [Addresses -> Nat]
  BY DEF TypeOK, Dial

\* The number of events stays within its bound.
LEMMA ExternalFacts ==
    ASSUME TypeOK, External
    PROVE  events' \in 0 .. MaxEvents
  BY EventsAssumption DEF TypeOK, External

\* The boot node, if there is one, has an address.
LEMMA BootFacts == Boot # None => Boot \in Sockets /\ Plain(Boot) \in Addresses
  BY SocketsAssumption, SocketAddress

\* An established connection makes its peer a connected one, and leaves the others.
LEMMA EstablishedFacts ==
    ASSUME NEW e \in Endpoints, NEW dialer \in BOOLEAN, ConnInv, Established(e, dialer)
    PROVE  /\ conns' \in [Connections -> Nat]
           /\ unique_endpoints' \subseteq Endpoints
           /\ endpoint_cache' \in [Endpoints -> Nat]
           /\ failing_connections' \in [Endpoints -> 0 .. 4 \cup {None}]
           /\ CacheMirrorsSet'
           /\ CachedIsConnected'
  <1> DEFINE cache == [e EXCEPT !.address = get_non_p2p_multiaddr(@)]
             k     == [endpoint |-> e, dialer |-> dialer]
  <1>1. cache \in Endpoints /\ cache.peer_id = e.peer_id
    BY StrippedEndpoint
  <1>2. k \in Connections /\ k.endpoint = e
    BY DEF Connections
  <1>3. /\ conns' = [conns EXCEPT ![k] = @ + 1]
        /\ unique_endpoints' = unique_endpoints \cup {cache}
        /\ endpoint_cache' = [endpoint_cache EXCEPT ![cache] = PushFront(cache)]
        /\ failing_connections' = [f \in Endpoints |->
                IF f.peer_id = e.peer_id THEN None ELSE failing_connections[f]]
    BY DEF Established
  <1> HIDE DEF cache, k
  <1>4. conns' \in [Connections -> Nat] /\ \A j \in Connections : conns'[j] >= conns[j]
    BY <1>2, <1>3 DEF ConnInv, TypeOK
  <1>5. conns'[k] > 0
    BY <1>2, <1>3 DEF ConnInv, TypeOK
  <1>6. /\ unique_endpoints' \subseteq Endpoints
        /\ endpoint_cache' \in [Endpoints -> Nat]
        /\ CacheMirrorsSet'
    BY <1>1, <1>3 DEF ConnInv, TypeOK, CacheMirrorsSet, PushFront
  <1>7. failing_connections' \in [Endpoints -> 0 .. 4 \cup {None}]
    BY <1>3 DEF ConnInv, TypeOK
  <1>8. e.peer_id \in Connected'
    BY <1>2, <1>5 DEF Connected, Endpoints
  <1>9. Connected \subseteq Connected'
    BY <1>4 DEF Connected, ConnInv, TypeOK
  <1>10. CachedIsConnected'
    BY <1>1, <1>3, <1>8, <1>9 DEF CachedIsConnected, ConnInv
  <1> QED
    BY <1>4, <1>6, <1>7, <1>10

-------------------------------------------------------------------------------
(* The initial states and the steps.                                         *)

LEMMA ConnInvInit == Init => ConnInv
  <1> SUFFICES ASSUME Init PROVE ConnInv
    OBVIOUS
  <1>1. dials \in [Addresses -> Nat]
    BY DEF Init
  <1>2. routing \subseteq Sockets /\ \A s \in routing : s = Boot
    BY DEF Init
  <1>3. TypeOK
    BY <1>1, <1>2, EventsAssumption DEF Init, TypeOK
  <1>4. CacheMirrorsSet /\ CachedIsConnected
    BY DEF Init, CacheMirrorsSet, CachedIsConnected
  <1> QED
    BY <1>2, <1>3, <1>4 DEF ConnInv, RoutingAnnounced

\* Steps that leave the endpoints and the connections alone.
LEMMA CacheUnchanged ==
    ASSUME ConnInv, UNCHANGED <<endpoint_cache, unique_endpoints, conns>>
    PROVE  CacheMirrorsSet' /\ CachedIsConnected'
  BY DEF ConnInv, CacheMirrorsSet, CachedIsConnected, Connected

LEMMA RoutingShrinks ==
    ASSUME ConnInv, routing' \subseteq routing, UNCHANGED announced_identities
    PROVE  RoutingAnnounced' /\ routing' \subseteq Sockets
  BY DEF ConnInv, TypeOK, RoutingAnnounced

\* Every step of the network and of `run` preserves the invariant.
LEMMA ConnInvStep == ConnInv /\ [Next]_vars => ConnInv'
  <1> SUFFICES ASSUME ConnInv, [Next]_vars PROVE ConnInv'
    OBVIOUS
  <1>0. TypeOK /\ CacheMirrorsSet
    BY DEF ConnInv
  <1>1. ASSUME NEW a \in ListenAddrs, NewListenAddr(a) PROVE ConnInv'
    <2>1. dials' \in [Addresses -> Nat]
      <3> DEFINE cond == Boot # None /\ (Connected = {} \/ NonLocal = {})
      <3>1. cond => Plain(Boot) \in Addresses
        BY BootFacts
      <3> HIDE DEF cond
      <3>2. Dial(cond, Plain(Boot)) \in [Addresses -> Nat]
        BY <1>0, <3>1, DialFacts
      <3> QED
        BY <1>1, <3>2 DEF NewListenAddr, cond
    <2>2. TypeOK'
      BY <1>0, <1>1, <2>1, ExternalFacts DEF NewListenAddr, TypeOK, cacheVars, retryVars, kadVars
    <2>3. CacheMirrorsSet' /\ CachedIsConnected'
      BY <1>1, CacheUnchanged DEF NewListenAddr, cacheVars
    <2>4. RoutingAnnounced'
      BY <1>1, RoutingShrinks DEF NewListenAddr, kadVars
    <2> QED
      BY <2>2, <2>3, <2>4 DEF ConnInv
  <1>2. ASSUME NEW a \in ListenAddrs, ExpiredListenAddr(a) PROVE ConnInv'
    <2>1. /\ failing_connections' \in [Endpoints -> 0 .. 4 \cup {None}]
          /\ timers' \in [Endpoints -> Nat]
      BY <1>0, <1>2, RetryFacts DEF ExpiredListenAddr
    <2>2. TypeOK'
      BY <1>0, <1>2, <2>1, ExternalFacts DEF ExpiredListenAddr, TypeOK, cacheVars, kadVars
    <2>3. CacheMirrorsSet' /\ CachedIsConnected'
      BY <1>2, CacheUnchanged DEF ExpiredListenAddr, cacheVars
    <2>4. RoutingAnnounced'
      BY <1>2, RoutingShrinks DEF ExpiredListenAddr, kadVars
    <2> QED
      BY <2>2, <2>3, <2>4 DEF ConnInv
  <1>3. ASSUME NEW d \in Addresses, DialSucceeds(d) PROVE ConnInv'
    <2>1. PICK a \in UNION DialAddresses(d) : Established(EndpointAt(a), TRUE)
      BY <1>3 DEF DialSucceeds
    <2>2. EndpointAt(a) \in Endpoints
      BY DialAddressesType, AddressEndpoint
    <2>3. /\ conns' \in [Connections -> Nat]
          /\ unique_endpoints' \subseteq Endpoints
          /\ endpoint_cache' \in [Endpoints -> Nat]
          /\ failing_connections' \in [Endpoints -> 0 .. 4 \cup {None}]
          /\ CacheMirrorsSet' /\ CachedIsConnected'
      BY <2>1, <2>2, EstablishedFacts
    <2>4. dials' \in [Addresses -> Nat]
      BY <1>0, <1>3 DEF DialSucceeds, TypeOK
    <2>5. TypeOK'
      BY <1>0, <1>3, <2>3, <2>4 DEF DialSucceeds, TypeOK, kadVars
    <2>6. RoutingAnnounced'
      BY <1>3, RoutingShrinks DEF DialSucceeds, kadVars
    <2> QED
      BY <2>3, <2>5, <2>6 DEF ConnInv
  <1>4. ASSUME NEW s \in Sockets, IncomingConnection(s) PROVE ConnInv'
    <2>1. EndpointAt(Plain(s)) \in Endpoints
      BY SocketAddress, AddressEndpoint
    <2>2. Established(EndpointAt(Plain(s)), FALSE)
      BY <1>4 DEF IncomingConnection
    <2>3. /\ conns' \in [Connections -> Nat]
          /\ unique_endpoints' \subseteq Endpoints
          /\ endpoint_cache' \in [Endpoints -> Nat]
          /\ failing_connections' \in [Endpoints -> 0 .. 4 \cup {None}]
          /\ CacheMirrorsSet' /\ CachedIsConnected'
      BY <2>1, <2>2, EstablishedFacts
    <2>4. TypeOK'
      BY <1>0, <1>4, <2>3, ExternalFacts DEF IncomingConnection, TypeOK, kadVars
    <2>5. RoutingAnnounced'
      BY <1>4, RoutingShrinks DEF IncomingConnection, kadVars
    <2> QED
      BY <2>3, <2>4, <2>5 DEF ConnInv
  <1>5. ASSUME NEW k \in Connections, NEW cause \in {"none", "io", "other"},
               ConnectionClosed(k, cause)
        PROVE  ConnInv'
    <2> DEFINE p == k.endpoint.peer_id
               P == IF LastOne(p, k) THEN {p} ELSE {}
    <2>1. /\ conns[k] > 0
          /\ conns' = [conns EXCEPT ![k] = @ - 1]
          /\ \E A : Forget(P, A)
      BY <1>5 DEF ConnectionClosed
    <2>2. conns' \in [Connections -> Nat]
      BY <1>0, <2>1 DEF TypeOK
    <2>3. /\ endpoint_cache' \in [Endpoints -> Nat]
          /\ unique_endpoints' \subseteq unique_endpoints
          /\ \A e \in unique_endpoints' : e.peer_id \notin P
          /\ CacheMirrorsSet'
      BY <1>0, <2>1, ForgetFacts
    <2>4. /\ failing_connections' \in [Endpoints -> 0 .. 4 \cup {None}]
          /\ timers' \in [Endpoints -> Nat]
      BY <1>0, <1>5, RetryFacts DEF ConnectionClosed
    <2>5. TypeOK'
      BY <1>0, <1>5, <2>2, <2>3, <2>4, ExternalFacts DEF ConnectionClosed, TypeOK, kadVars
    <2>6. CachedIsConnected'
      <3> SUFFICES ASSUME NEW e \in unique_endpoints' PROVE e.peer_id \in Connected'
        BY DEF CachedIsConnected
      <3>1. e.peer_id \in Connected /\ e.peer_id \notin P
        BY <2>3 DEF ConnInv, CachedIsConnected
      <3>2. CASE e.peer_id # p
        BY <1>0, <2>1, <3>1, <3>2 DEF Connected, TypeOK
      <3>3. CASE e.peer_id = p
        <4>1. ~LastOne(p, k)
          BY <3>1, <3>3
        <4>2. PICK j \in Connections :
                  j.endpoint.peer_id = p /\ conns[j] # IF j = k THEN 1 ELSE 0
          BY <4>1 DEF LastOne
        <4>3. conns'[j] > 0
          BY <1>0, <2>1, <4>2 DEF TypeOK
        <4> QED
          BY <3>1, <3>3, <4>2, <4>3 DEF Connected
      <3> QED
        BY <3>2, <3>3
    <2>7. RoutingAnnounced'
      BY <1>5, RoutingShrinks DEF ConnectionClosed, kadVars
    <2> QED
      BY <2>3, <2>5, <2>6, <2>7 DEF ConnInv
  <1>6. ASSUME NEW d \in Addresses, PlainDialFails(d) PROVE ConnInv'
    <2>1. dials' \in [Addresses -> Nat]
      BY <1>0, <1>6 DEF PlainDialFails, TypeOK
    <2>2. TypeOK'
      BY <1>0, <1>6, <2>1 DEF PlainDialFails, TypeOK, cacheVars, retryVars, kadVars
    <2>3. CacheMirrorsSet' /\ CachedIsConnected'
      BY <1>6, CacheUnchanged DEF PlainDialFails, cacheVars
    <2>4. RoutingAnnounced'
      BY <1>6, RoutingShrinks DEF PlainDialFails, kadVars
    <2> QED
      BY <2>2, <2>3, <2>4 DEF ConnInv
  <1>7. ASSUME NEW d \in Addresses, DialFails(d) PROVE ConnInv'
    <2>1. dials' \in [Addresses -> Nat]
      BY <1>0, <1>7 DEF DialFails, TypeOK
    <2>2. /\ failing_connections' \in [Endpoints -> 0 .. 4 \cup {None}]
          /\ timers' \in [Endpoints -> Nat]
          /\ routing' \subseteq routing
          /\ \E P, A : Forget(P, A)
      <3>1. CASE \E A \in DialAddresses(d) : TransportError(d, A)
        <4>1. PICK A \in DialAddresses(d) : TransportError(d, A)
          BY <3>1
        <4>2. \E held, refused :
                /\ failing_connections' = FailingAfter(held, refused)
                /\ timers' = [e \in Endpoints |-> IF e \in held THEN timers[e] + 1 ELSE timers[e]]
          BY <4>1 DEF TransportError
        <4>3. /\ failing_connections' \in [Endpoints -> 0 .. 4 \cup {None}]
              /\ timers' \in [Endpoints -> Nat]
          BY <1>0, <4>2 DEF FailingAfter, TypeOK
        <4>4. routing' \subseteq routing /\ \E Q, B : Forget(Q, B)
          BY <4>1 DEF TransportError
        <4> QED
          BY <4>3, <4>4
      <3>2. CASE OtherDialError(d)
        BY <1>0, <3>2 DEF OtherDialError, retryVars, TypeOK
      <3> QED
        BY <1>7, <3>1, <3>2 DEF DialFails
    <2>3. /\ endpoint_cache' \in [Endpoints -> Nat]
          /\ unique_endpoints' \subseteq unique_endpoints
          /\ CacheMirrorsSet'
      BY <1>0, <2>2, ForgetFacts
    <2>4. RoutingAnnounced' /\ routing' \subseteq Sockets
      BY <1>7, <2>2, RoutingShrinks DEF DialFails
    <2>5. TypeOK'
      BY <1>0, <1>7, <2>1, <2>2, <2>3, <2>4 DEF DialFails, TypeOK
    <2>6. CachedIsConnected'
      BY <1>7, <2>3 DEF DialFails, ConnInv, CachedIsConnected, Connected
    <2> QED
      BY <2>3, <2>4, <2>5, <2>6 DEF ConnInv
  <1>8. ASSUME NEW p \in Peers,
               NEW S \in SUBSET {s \in Sockets \ Ephemeral : Owner[s] = p},
               IdentifyReceived(p, S)
        PROVE  ConnInv'
    <2>1. /\ announced_identities' = [announced_identities EXCEPT ![p] = S]
          /\ routing' = (routing \ (announced_identities[p] \ S)) \cup {s \in S : Class[s] # "local"}
      BY <1>8 DEF IdentifyReceived, RoutingAfter
    <2>2. TypeOK'
      BY <1>0, <1>8, <2>1, ExternalFacts DEF IdentifyReceived, TypeOK, cacheVars, retryVars
    <2>3. CacheMirrorsSet' /\ CachedIsConnected'
      BY <1>8, CacheUnchanged DEF IdentifyReceived, cacheVars
    <2>4. RoutingAnnounced'
      <3> SUFFICES ASSUME NEW s \in routing', s # Boot
                   PROVE  s \in announced_identities'[Owner[s]] /\ Class[s] # "local"
        BY DEF RoutingAnnounced
      <3>1. s \in Sockets /\ Owner[s] \in Peers
        BY <2>2, SocketsAssumption DEF TypeOK
      <3>2. CASE s \in S
        <4>1. Owner[s] = p
          BY <3>2
        <4>2. Class[s] # "local"
          BY <2>1, <3>2 DEF ConnInv, RoutingAnnounced
        <4> QED
          BY <1>0, <2>1, <3>2, <4>1, <4>2 DEF TypeOK
      <3>3. CASE s \notin S
        <4>1. /\ s \in routing /\ s \notin announced_identities[p]
              /\ s \in announced_identities[Owner[s]] /\ Class[s] # "local"
          BY <2>1, <3>3 DEF ConnInv, RoutingAnnounced
        <4> QED
          BY <1>0, <2>1, <3>1, <4>1 DEF TypeOK
      <3> QED
        BY <3>2, <3>3
    <2> QED
      BY <2>2, <2>3, <2>4 DEF ConnInv
  <1>9. ASSUME NEW s \in Sockets, MdnsDiscovered(s) PROVE ConnInv'
    <2>1. dials' \in [Addresses -> Nat]
      BY <1>0, <1>9, SocketAddress, DialFacts DEF MdnsDiscovered
    <2>2. TypeOK'
      BY <1>0, <1>9, <2>1, ExternalFacts DEF MdnsDiscovered, TypeOK, cacheVars, retryVars, kadVars
    <2>3. CacheMirrorsSet' /\ CachedIsConnected'
      BY <1>9, CacheUnchanged DEF MdnsDiscovered, cacheVars
    <2>4. RoutingAnnounced'
      BY <1>9, RoutingShrinks DEF MdnsDiscovered, kadVars
    <2> QED
      BY <2>2, <2>3, <2>4 DEF ConnInv
  <1>10. ASSUME NEW s \in Sockets, MdnsExpired(s) PROVE ConnInv'
    <2>1. RoutingAnnounced' /\ routing' \subseteq Sockets
      BY <1>10, RoutingShrinks DEF MdnsExpired
    <2>2. TypeOK'
      BY <1>0, <1>10, <2>1, ExternalFacts DEF MdnsExpired, TypeOK, cacheVars, retryVars
    <2>3. CacheMirrorsSet' /\ CachedIsConnected'
      BY <1>10, CacheUnchanged DEF MdnsExpired, cacheVars
    <2> QED
      BY <2>1, <2>2, <2>3 DEF ConnInv
  <1>11. ASSUME NEW s \in Sockets, ReachabilityChanges(s) PROVE ConnInv'
    <2>1. TypeOK'
      BY <1>0, <1>11, ExternalFacts DEF ReachabilityChanges, TypeOK, cacheVars, retryVars, kadVars
    <2>2. CacheMirrorsSet' /\ CachedIsConnected'
      BY <1>11, CacheUnchanged DEF ReachabilityChanges, cacheVars
    <2>3. RoutingAnnounced'
      BY <1>11, RoutingShrinks DEF ReachabilityChanges, kadVars
    <2> QED
      BY <2>1, <2>2, <2>3 DEF ConnInv
  <1>12. ASSUME NEW e \in Endpoints, RetryCallback(e) PROVE ConnInv'
    <2> DEFINE count == failing_connections[e]
    <2>1. timers[e] \in Nat /\ timers[e] > 0 /\ count \in 0 .. 4 \cup {None} /\ e.address \in Addresses
      BY <1>0, <1>12 DEF RetryCallback, TypeOK, Endpoints
    <2>2. timers' \in [Endpoints -> Nat]
      <3>1. UNCHANGED timers \/ timers' = [timers EXCEPT ![e] = @ - 1]
        BY <1>12 DEF RetryCallback
      <3>2. timers[e] - 1 \in Nat
        BY <2>1
      <3> QED
        BY <1>0, <3>1, <3>2 DEF TypeOK
    <2>3. failing_connections' \in [Endpoints -> 0 .. 4 \cup {None}]
      <3>1. \/ UNCHANGED failing_connections
            \/ failing_connections' = [failing_connections EXCEPT ![e] = None]
            \/ /\ count # None /\ count <= 3
               /\ failing_connections' = [failing_connections EXCEPT ![e] = count + 1]
        BY <1>12 DEF RetryCallback, is_task_ok
      <3> QED
        BY <1>0, <2>1, <3>1 DEF TypeOK
    <2>4. dials' \in [Addresses -> Nat]
      <3>1. UNCHANGED dials \/ dials' = Dial(TRUE, e.address)
        BY <1>12 DEF RetryCallback
      <3>2. Dial(TRUE, e.address) \in [Addresses -> Nat]
        BY <1>0, <2>1, DialFacts
      <3>3. dials \in [Addresses -> Nat]
        BY <1>0 DEF TypeOK
      <3> QED
        BY <3>1, <3>2, <3>3
    <2>5. TypeOK'
      BY <1>0, <1>12, <2>2, <2>3, <2>4 DEF RetryCallback, TypeOK, cacheVars, kadVars
    <2>6. CacheMirrorsSet' /\ CachedIsConnected'
      BY <1>12, CacheUnchanged DEF RetryCallback, cacheVars
    <2>7. RoutingAnnounced'
      BY <1>12, RoutingShrinks DEF RetryCallback, kadVars
    <2> QED
      BY <2>5, <2>6, <2>7 DEF ConnInv
  <1>13. ASSUME LongIdle PROVE ConnInv'
    <2>1. dials' \in [Addresses -> Nat]
      <3>1. IdleDials => Plain(Boot) \in Addresses
        BY BootFacts DEF IdleDials
      <3>2. Dial(IdleDials, Plain(Boot)) \in [Addresses -> Nat]
        BY <1>0, <3>1, DialFacts
      <3> QED
        BY <1>13, <3>2 DEF LongIdle
    <2>2. TypeOK'
      BY <1>0, <1>13, <2>1 DEF LongIdle, TypeOK, cacheVars, retryVars, kadVars
    <2>3. CacheMirrorsSet' /\ CachedIsConnected'
      BY <1>13, CacheUnchanged DEF LongIdle, cacheVars
    <2>4. RoutingAnnounced'
      BY <1>13, RoutingShrinks DEF LongIdle, kadVars
    <2> QED
      BY <2>2, <2>3, <2>4 DEF ConnInv
  <1>14. CASE UNCHANGED vars
    BY <1>14 DEF vars, ConnInv, TypeOK, CacheMirrorsSet, CachedIsConnected, RoutingAnnounced, Connected
  <1> QED
    BY <1>1, <1>2, <1>3, <1>4, <1>5, <1>6, <1>7, <1>8, <1>9, <1>10, <1>11, <1>12, <1>13, <1>14
    DEF Next

-------------------------------------------------------------------------------
\* The invariant holds in every reachable state of `run` and its swarm.
THEOREM ConnInvariant == Spec => []ConnInv
  BY ConnInvInit, ConnInvStep, PTL DEF Spec

\* The variables of `run` keep their types, and no retry_count passes 4.
THEOREM TypeCorrect == Spec => []TypeOK
  <1>1. ConnInv => TypeOK
    BY DEF ConnInv
  <1> QED
    BY <1>1, ConnInvariant, PTL

\* endpoint_cache and unique_endpoints never differ, for any number of peers,
\* connections and dial errors.
THEOREM CacheMirrorsSetHolds == Spec => []CacheMirrorsSet
  <1>1. ConnInv => CacheMirrorsSet
    BY DEF ConnInv
  <1> QED
    BY <1>1, ConnInvariant, PTL

\* An endpoint is kept only as long as its peer is connected.
THEOREM CachedIsConnectedHolds == Spec => []CachedIsConnected
  <1>1. ConnInv => CachedIsConnected
    BY DEF ConnInv
  <1> QED
    BY <1>1, ConnInvariant, PTL

\* Kademlia has only addresses that their peers announce, and the boot node's.
THEOREM RoutingAnnouncedHolds == Spec => []RoutingAnnounced
  <1>1. ConnInv => RoutingAnnounced
    BY DEF ConnInv
  <1> QED
    BY <1>1, ConnInvariant, PTL

-------------------------------------------------------------------------------
(* Retries.                                                                  *)

\* An endpoint is the one at its address.
LEMMA EndpointOfAddress ==
    ASSUME NEW e \in Endpoints
    PROVE  e.address \in Addresses /\ e = EndpointAt(e.address)
  BY DEF Endpoints, EndpointAt

\* A dial never takes a dial away.
LEMMA DialGrows ==
    ASSUME NEW cond, NEW a, TypeOK, dials' = Dial(cond, a)
    PROVE  \A b \in Addresses : dials[b] > 0 => dials'[b] > 0
  BY DEF TypeOK, Dial

\* What is queued stays queued, and what Retry puts on record it queues.
LEMMA RetryQueues ==
    ASSUME NEW E, TypeOK, NoOrphanedRetry, Retry(E), UNCHANGED dials
    PROVE  NoOrphanedRetry'
  BY DEF TypeOK, NoOrphanedRetry, Retry

\* Steps that put nothing on record and take away neither a task nor a dial of
\* an address with a peer.
LEMMA RecordShrinks ==
    ASSUME NoOrphanedRetry,
           \A e \in Endpoints : failing_connections'[e] # None => failing_connections[e] # None,
           UNCHANGED timers,
           \A a \in Addresses : a.p2p # None /\ dials[a] > 0 => dials'[a] > 0
    PROVE  NoOrphanedRetry'
  BY EndpointOfAddress DEF NoOrphanedRetry

\* A dial that fails with errors that name their cause: the dialled address is one
\* of those with an error, and each of them is queued again or taken off the record.
LEMMA DialFailsRecorded ==
    ASSUME ErrorKinds \subseteq {"hold", "refused"}, TypeOK, NoOrphanedRetry,
           NEW d \in Addresses, DialFails(d)
    PROVE  NoOrphanedRetry'
  <1>1. PICK A \in DialAddresses(d) : TransportError(d, A) \/ OtherDialError(d)
    BY DEF DialFails
  <1>2. TransportError(d, A)
    BY <1>1 DEF OtherDialError
  <1>3. d \in A /\ A \subseteq Addresses
    BY DialAddressesType DEF DialAddresses
  <1>4. PICK errors \in [A -> ErrorKinds \ {"dead", "aborted"}] :
            LET held    == {EndpointAt(a) : a \in {a \in A : errors[a] = "hold"}}
                refused == {a \in A : errors[a] = "refused"}
            IN  /\ failing_connections' = FailingAfter(held, {EndpointAt(a) : a \in refused})
                /\ timers' = [e \in Endpoints |-> IF e \in held THEN timers[e] + 1 ELSE timers[e]]
    BY <1>2 DEF TransportError
  <1> SUFFICES ASSUME NEW e \in Endpoints, failing_connections'[e] # None, e.address.p2p # None
               PROVE  timers'[e] > 0 \/ dials'[e.address] > 0
    BY DEF NoOrphanedRetry
  <1> DEFINE held    == {EndpointAt(a) : a \in {a \in A : errors[a] = "hold"}}
             refused == {EndpointAt(a) : a \in {a \in A : errors[a] = "refused"}}
  <1>5. /\ failing_connections' = FailingAfter(held, refused)
        /\ timers' = [f \in Endpoints |-> IF f \in held THEN timers[f] + 1 ELSE timers[f]]
    BY <1>4
  <1>6. e.address \in Addresses /\ e = EndpointAt(e.address)
    BY EndpointOfAddress
  <1>7. e.address = d => e \in held \cup refused
    <2>1. errors[d] \in {"hold", "refused"}
      BY <1>3, <1>4
    <2> QED
      BY <1>3, <1>6, <2>1
  <1> HIDE DEF held, refused
  <1>8. CASE e \in held
    BY <1>5, <1>8 DEF TypeOK
  <1>9. CASE e \notin held
    <2>1. e \notin refused /\ failing_connections[e] # None /\ timers'[e] = timers[e]
      BY <1>5, <1>9 DEF FailingAfter
    <2>2. e.address # d
      BY <1>7, <1>9, <2>1
    <2>3. dials'[e.address] = dials[e.address]
      BY <1>6, <2>2 DEF DialFails, TypeOK
    <2> QED
      BY <2>1, <2>3 DEF NoOrphanedRetry
  <1> QED
    BY <1>8, <1>9

\* A task that comes back is dropped with its record, kept, or turned into a dial.
LEMMA CallbackKeepsTrack ==
    ASSUME TypeOK, NoOrphanedRetry, NEW f \in Endpoints, RetryCallback(f)
    PROVE  NoOrphanedRetry'
  <1> SUFFICES ASSUME NEW e \in Endpoints, failing_connections'[e] # None, e.address.p2p # None
               PROVE  timers'[e] > 0 \/ dials'[e.address] > 0
    BY DEF NoOrphanedRetry
  <1>1. f.address \in Addresses /\ e.address \in Addresses
    BY EndpointOfAddress
  <1>2. /\ UNCHANGED timers \/ timers' = [timers EXCEPT ![f] = @ - 1]
        /\ UNCHANGED dials \/ dials' = Dial(TRUE, f.address)
        /\ timers[f] > 0
    BY DEF RetryCallback
  <1>3. \A b \in Addresses : dials[b] > 0 => dials'[b] > 0
    BY <1>2, DialGrows
  <1>4. CASE e # f
    <2>1. failing_connections'[e] = failing_connections[e] /\ timers'[e] = timers[e]
      BY <1>2, <1>4 DEF RetryCallback, TypeOK
    <2> QED
      BY <1>1, <1>3, <2>1 DEF NoOrphanedRetry
  <1>5. CASE e = f
    <2>1. CASE UNCHANGED timers
      BY <1>2, <1>5, <2>1
    <2>2. CASE /\ failing_connections[f] # None
               /\ dials' = Dial(TRUE, f.address)
      BY <1>1, <1>5, <2>2 DEF Dial, TypeOK
    <2>3. CASE failing_connections'[f] = None
      BY <1>5, <2>3
    <2> QED
      BY <1>5, <2>1, <2>2, <2>3 DEF RetryCallback, TypeOK
  <1> QED
    BY <1>4, <1>5

\* Every step of `run` keeps track of what it has put on record.
LEMMA RetryStep ==
    ASSUME ErrorKinds \subseteq {"hold", "refused"}
    PROVE  ConnInv /\ NoOrphanedRetry /\ [Next]_vars => NoOrphanedRetry'
  <1> SUFFICES ASSUME ConnInv, NoOrphanedRetry, [Next]_vars PROVE NoOrphanedRetry'
    OBVIOUS
  <1>0. TypeOK
    BY DEF ConnInv
  <1>1. ASSUME NEW a \in ListenAddrs, NewListenAddr(a) PROVE NoOrphanedRetry'
    BY <1>0, <1>1, DialGrows, RecordShrinks DEF NewListenAddr, retryVars
  <1>2. ASSUME NEW a \in ListenAddrs, ExpiredListenAddr(a) PROVE NoOrphanedRetry'
    BY <1>0, <1>2, RetryQueues DEF ExpiredListenAddr
  <1>3. ASSUME NEW d \in Addresses, DialSucceeds(d) PROVE NoOrphanedRetry'
    <2>1. PICK a \in UNION DialAddresses(d) : Established(EndpointAt(a), TRUE)
      BY <1>3 DEF DialSucceeds
    <2>2. d.p2p # None => EndpointAt(a).peer_id = EndpointAt(d).peer_id
      <3>1. a = d \/ \E s \in Sockets : a = WithP2p(s) /\ Owner[s] = d.p2p
        BY DEF DialAddresses
      <3>2. d.p2p # None => d.p2p = Owner[d.socket]
        BY DEF Addresses
      <3>3. \A s \in Sockets : EndpointAt(WithP2p(s)).peer_id = Owner[s]
        BY DEF EndpointAt, WithP2p
      <3>4. EndpointAt(d).peer_id = Owner[d.socket]
        BY DEF EndpointAt
      <3> QED
        BY <3>1, <3>2, <3>3, <3>4
    <2>3. failing_connections' = [f \in Endpoints |->
                IF f.peer_id = EndpointAt(a).peer_id THEN None ELSE failing_connections[f]]
      BY <2>1 DEF Established
    <2> SUFFICES ASSUME NEW e \in Endpoints, failing_connections'[e] # None, e.address.p2p # None
                 PROVE  timers'[e] > 0 \/ dials'[e.address] > 0
      BY DEF NoOrphanedRetry
    <2>4. e.address \in Addresses /\ e = EndpointAt(e.address)
      BY EndpointOfAddress
    <2>5. failing_connections[e] # None /\ e.peer_id # EndpointAt(a).peer_id
      BY <2>3
    <2>6. e.address # d
      BY <2>2, <2>4, <2>5
    <2>7. UNCHANGED timers /\ dials'[e.address] = dials[e.address]
      BY <1>0, <1>3, <2>4, <2>6 DEF DialSucceeds, TypeOK
    <2> QED
      BY <2>5, <2>7 DEF NoOrphanedRetry
  <1>4. ASSUME NEW s \in Sockets, IncomingConnection(s) PROVE NoOrphanedRetry'
    <2>1. \A e \in Endpoints : failing_connections'[e] # None => failing_connections[e] # None
      BY <1>4 DEF IncomingConnection, Established
    <2> QED
      BY <1>4, <2>1, RecordShrinks DEF IncomingConnection
  <1>5. ASSUME NEW k \in Connections, NEW cause \in {"none", "io", "other"},
               ConnectionClosed(k, cause)
        PROVE  NoOrphanedRetry'
    BY <1>0, <1>5, RetryQueues DEF ConnectionClosed
  <1>6. ASSUME NEW d \in Addresses, PlainDialFails(d) PROVE NoOrphanedRetry'
    <2>1. \A a \in Addresses : a.p2p # None /\ dials[a] > 0 => dials'[a] > 0
      BY <1>0, <1>6 DEF PlainDialFails, TypeOK
    <2> QED
      BY <1>6, <2>1, RecordShrinks DEF PlainDialFails, retryVars
  <1>7. ASSUME NEW d \in Addresses, DialFails(d) PROVE NoOrphanedRetry'
    BY <1>0, <1>7, DialFailsRecorded
  <1>8. ASSUME NEW p \in Peers, NEW S, IdentifyReceived(p, S) PROVE NoOrphanedRetry'
    BY <1>8, RecordShrinks DEF IdentifyReceived, retryVars
  <1>9. ASSUME NEW s \in Sockets, MdnsDiscovered(s) PROVE NoOrphanedRetry'
    BY <1>0, <1>9, DialGrows, RecordShrinks DEF MdnsDiscovered, retryVars
  <1>10. ASSUME NEW s \in Sockets, MdnsExpired(s) PROVE NoOrphanedRetry'
    BY <1>10, RecordShrinks DEF MdnsExpired, retryVars
  <1>11. ASSUME NEW s \in Sockets, ReachabilityChanges(s) PROVE NoOrphanedRetry'
    BY <1>11, RecordShrinks DEF ReachabilityChanges, retryVars
  <1>12. ASSUME NEW e \in Endpoints, RetryCallback(e) PROVE NoOrphanedRetry'
    BY <1>0, <1>12, CallbackKeepsTrack
  <1>13. ASSUME LongIdle PROVE NoOrphanedRetry'
    BY <1>0, <1>13, DialGrows, RecordShrinks DEF LongIdle, retryVars
  <1>14. CASE UNCHANGED vars
    BY <1>14 DEF vars, NoOrphanedRetry
  <1> QED
    BY <1>1, <1>2, <1>3, <1>4, <1>5, <1>6, <1>7, <1>8, <1>9, <1>10, <1>11, <1>12, <1>13, <1>14
    DEF Next

\* If dial errors name their cause ("NetworkUnreachable" or "Timeout", or a refusal),
\* a failed connection to an address with a peer is on record only as long as a task
\* or a dial for it is under way, for any number of peers, sockets and failures.
THEOREM NoOrphanedRetryHolds ==
    ASSUME ErrorKinds \subseteq {"hold", "refused"}
    PROVE  Spec => []NoOrphanedRetry
  <1>1. Init => NoOrphanedRetry
    BY DEF Init, NoOrphanedRetry
  <1>2. ConnInv /\ NoOrphanedRetry /\ [Next]_vars => NoOrphanedRetry'
    BY RetryStep
  <1> QED
    BY <1>1, <1>2, ConnInvariant, PTL DEF Spec
===============================================================================
