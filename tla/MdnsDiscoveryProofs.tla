-------------------------- MODULE MdnsDiscoveryProofs --------------------------
(* Proofs about MdnsDiscovery, for every set of nodes and addresses, every   *)
(* time to live and query interval, and all faults: the events of the        *)
(* Behaviour implement PeerDiscovery.                                        *)
EXTENDS MdnsDiscovery, FiniteSetTheorems, WellFoundedInduction, TLAPS

\* The inductive invariant.
DiscoveryInv == TypeOK /\ EventsInv

-------------------------------------------------------------------------------
(* Times.                                                                    *)

\* A set of times to live that is not empty has a greatest and a least element.
LEMMA TimesHaveBounds ==
    ASSUME NEW T \in SUBSET (0 .. ttl), T # {}
    PROVE  /\ \E t \in T : \A u \in T : t >= u
           /\ \E t \in T : \A u \in T : t <= u
  <1> DEFINE R == OpToRel(<, Nat)
             D == {ttl - t : t \in T}
  <1>1. ttl \in Nat
    BY TimesAssumption
  <1>2. IsWellFoundedOn(R, Nat)
    BY NatLessThanWellFounded
  <1>3. \A x, y \in Nat : ~(<<y, x>> \in R) => x <= y
    BY DEF OpToRel
  <1> HIDE DEF R
  <1>4. D \subseteq Nat /\ D # {} /\ T \subseteq Nat
    <2>1. \A t \in T : t \in Nat /\ ttl - t \in Nat
      BY <1>1
    <2>2. \A x \in D : x \in Nat
      BY <2>1
    <2>3. PICK t \in T : TRUE
      OBVIOUS
    <2>4. ttl - t \in D
      OBVIOUS
    <2> QED
      BY <2>1, <2>2, <2>4
  <1>5. PICK x \in D : \A y \in D : ~(<<y, x>> \in R)
    <2> HIDE DEF D
    <2> QED
      BY <1>2, <1>4, WFMin
  <1>6. PICK z \in T : \A y \in T : ~(<<y, z>> \in R)
    BY <1>2, <1>4, WFMin
  <1>7. PICK t \in T : x = ttl - t
    BY <1>5
  <1>8. ASSUME NEW u \in T PROVE t >= u
    <2>1. ttl - u \in D
      OBVIOUS
    <2>2. x \in Nat /\ ttl - u \in Nat /\ x <= ttl - u
      BY <1>3, <1>4, <1>5, <2>1
    <2> QED
      BY <1>1, <1>4, <1>7, <2>2
  <1>9. \A u \in T : z <= u
    BY <1>3, <1>4, <1>6
  <1> QED
    BY <1>8, <1>9

\* The passing of time leaves an expiration where there is one, and none elsewhere.
LEMMA LessFacts ==
    ASSUME NEW t \in 0 .. ttl \cup {None}
    PROVE  /\ Less(t) \in 0 .. ttl \cup {None}
           /\ Less(t) = None <=> t = None
           /\ t # None => Less(t) \in 0 .. ttl
  BY TimesAssumption, ConstantsAssumption DEF Less

LEMMA OlderFacts ==
    ASSUME NEW s \in Seq(Timed)
    PROVE  Older(s) \in Seq(Timed)
  <1>0. \A i \in 1 .. Len(s) : s[i] \in Timed
    OBVIOUS
  <1>1. \A i \in 1 .. Len(s) : s[i] \in Timed /\ s[i].left \in 0 .. ttl /\ s[i].left # None
    BY <1>0, TimesAssumption, ConstantsAssumption DEF Timed
  <1>2. \A i \in 1 .. Len(s) : Less(s[i].left) \in 0 .. ttl
    BY <1>1, LessFacts
  <1>3. \A i \in 1 .. Len(s) : [s[i] EXCEPT !.left = Less(@)] \in Timed
    BY <1>1, <1>2 DEF Timed
  <1>4. Len(s) \in Nat /\ DOMAIN s = 1 .. Len(s)
    OBVIOUS
  <1>5. Older(s) \in [1 .. Len(s) -> Timed]
    BY <1>3, <1>4 DEF Older
  <1> QED
    BY <1>4, <1>5

-------------------------------------------------------------------------------
(* What the channel brings.                                                  *)

\* After the channel has been read, the nodes listed are those that were and those
\* that have arrived.
LEMMA RefreshedFacts ==
    ASSUME TypeOK, NEW n \in Nodes
    PROVE  /\ Refreshed(n) \in [Records -> 0 .. ttl \cup {None}]
           /\ Arrived(n) \subseteq Records
           /\ \A r \in Records : Refreshed(n)[r] # None <=> r \in Listed(n) \cup Arrived(n)
  <1> DEFINE q == query_response[n]
  <1>1. q \in Seq(Timed) /\ discovered_nodes[n] \in [Records -> 0 .. ttl \cup {None}]
    BY DEF TypeOK
  <1>2. \A i \in DOMAIN q : q[i].record \in Records /\ q[i].left \in 0 .. ttl
    <2>1. \A i \in DOMAIN q : q[i] \in Timed
      BY <1>1
    <2> QED
      BY <2>1 DEF Timed
  <1>3. \A i \in 0 .. ttl : i # None
    BY TimesAssumption, ConstantsAssumption
  <1>4. Arrived(n) \subseteq Records
    BY <1>2 DEF Arrived
  <1>5. ASSUME NEW r \in Records
        PROVE  /\ Refreshed(n)[r] \in 0 .. ttl \cup {None}
               /\ Refreshed(n)[r] # None <=> r \in Listed(n) \cup Arrived(n)
    <2> DEFINE times == Lefts(n, r) \cup ({discovered_nodes[n][r]} \ {None})
    <2>1. times \in SUBSET (0 .. ttl)
      BY <1>1, <1>2 DEF Lefts
    <2>2. times # {} <=> r \in Listed(n) \cup Arrived(n)
      BY DEF Lefts, Arrived, Listed
    <2>3. Refreshed(n)[r] =
            IF times = {} THEN None ELSE CHOOSE t \in times : \A u \in times : t >= u
      BY DEF Refreshed
    <2> HIDE DEF times
    <2>4. CASE times = {}
      BY <2>2, <2>3, <2>4
    <2>5. CASE times # {}
      <3>1. \E t \in times : \A u \in times : t >= u
        BY <2>1, <2>5, TimesHaveBounds
      <3>2. Refreshed(n)[r] \in times
        BY <2>3, <2>5, <3>1
      <3> QED
        BY <1>3, <2>1, <2>2, <2>5, <3>2
    <2> QED
      BY <2>4, <2>5
  <1> QED
    BY <1>4, <1>5 DEF Refreshed

LEMMA ClosestFacts ==
    ASSUME TypeOK, NEW n \in Nodes, NEW nodes \in [Records -> 0 .. ttl \cup {None}]
    PROVE  ClosestExpiration(n, nodes) \in 0 .. ttl \cup {None}
  <1> DEFINE times == {nodes[r] : r \in {r \in Records : nodes[r] # None}}
  <1>1. times \in SUBSET (0 .. ttl)
    OBVIOUS
  <1>2. closest_expiration[n] \in 0 .. ttl \cup {None}
    BY DEF TypeOK
  <1>3. ClosestExpiration(n, nodes) =
          IF times = {} THEN closest_expiration[n]
          ELSE CHOOSE t \in times : \A u \in times : t <= u
    BY DEF ClosestExpiration
  <1> HIDE DEF times
  <1>4. CASE times = {}
    BY <1>2, <1>3, <1>4
  <1>5. CASE times # {}
    <2>1. \E t \in times : \A u \in times : t <= u
      BY <1>1, <1>5, TimesHaveBounds
    <2> QED
      BY <1>1, <1>3, <1>5, <2>1
  <1> QED
    BY <1>4, <1>5

\* The records of a response go into a sequence of their own.
LEMMA ExtractFacts ==
    ASSUME NEW n \in Nodes, NEW p \in [type : {"response"}, peer : Nodes, addrs : SUBSET Addrs],
           NEW s \in extract_discovered(n, p)
    PROVE  s \in Seq(Timed)
  <1>1. CASE p.peer = n
    BY <1>1 DEF extract_discovered
  <1>2. CASE p.peer # n
    <2> DEFINE k == Cardinality(p.addrs)
               E == [record : {[peer |-> p.peer, addr |-> a] : a \in p.addrs}, left : {ttl}]
    <2>1. k \in Nat
      BY ConstantsAssumption, FS_Subset, FS_CardinalityType
    <2>2. E \subseteq Timed
      BY TimesAssumption DEF Timed, Records
    <2>3. s \in [1 .. k -> E]
      BY <1>2 DEF extract_discovered
    <2> HIDE DEF k, E
    <2>4. s \in [1 .. k -> Timed]
      BY <2>2, <2>3
    <2> QED
      BY <2>1, <2>4
  <1> QED
    BY <1>1, <1>2

-------------------------------------------------------------------------------
(* Queues of events.                                                         *)

LEMMA BalancedEmpty ==
    ASSUME NEW k, NEW L, Balanced(<<>>, k, L)
    PROVE  k = Told(L)
  <1>1. \A x, y : <<>> # <<x>> /\ <<>> # <<x, y>>
    OBVIOUS
  <1> QED
    BY <1>1 DEF Balanced

\* e is an event the program has not been told of, k the account of what it has been
\* told so far, L what is listed.
OpensWith(e, k, L) ==
    \E R \in SUBSET Records :
        \/ e = Event("NewExternalAddrOfPeer", R) /\ k = Told(L)
        \/ e = Event("Discovered", R) /\ R # {} /\ k = Told(L \ R)
        \/ e = Event("Expired", R) /\ R # {} /\ k = Told(L \cup R)

\* The first event of a queue, and what the program has been told before it.
LEMMA BalancedHead ==
    ASSUME NEW q, NEW k, NEW L, Balanced(q, k, L), q # <<>>
    PROVE  OpensWith(Head(q), k, L)
  <1>1. PICK R \in SUBSET Records :
            \/ q = <<Event("NewExternalAddrOfPeer", R)>> /\ k = Told(L)
            \/ /\ q = <<Event("Discovered", R), Event("NewExternalAddrOfPeer", R)>>
               /\ R # {} /\ k = Told(L \ R)
            \/ q = <<Event("Expired", R)>> /\ R # {} /\ k = Told(L \cup R)
    BY DEF Balanced
  <1>2. \A x, y : Head(<<x>>) = x /\ Head(<<x, y>>) = x
    OBVIOUS
  <1> QED
    BY <1>1, <1>2 DEF OpensWith

-------------------------------------------------------------------------------
(* The initial states and the steps.                                         *)

LEMMA DiscoveryInvInit == Init => DiscoveryInv
  <1> SUFFICES ASSUME Init PROVE DiscoveryInv
    OBVIOUS
  <1>1. TypeOK
    BY TimesAssumption, ConstantsAssumption DEF Init, TypeOK, Probes
  <1>2. \A n \in Nodes : pending_events[n] = <<>> /\ known[n] = Told(Listed(n))
    BY DEF Init, Told, Listed
  <1> QED
    BY <1>1, <1>2 DEF DiscoveryInv, EventsInv, Balanced

\* EventsInv looks at three variables only, and at discovered_nodes only for which
\* nodes are listed.
LEMMA EventsUnchanged ==
    ASSUME EventsInv, UNCHANGED <<pending_events, known>>,
           \A n \in Nodes : Listed(n)' = Listed(n)
    PROVE  EventsInv'
  BY DEF EventsInv

\* Every step of the tasks, of the network and of time preserves the types.
LEMMA TypeStep == DiscoveryInv /\ [Next]_vars => TypeOK'
  <1> SUFFICES ASSUME DiscoveryInv, [Next]_vars PROVE TypeOK'
    OBVIOUS
  <1>0. TypeOK
    BY DEF DiscoveryInv
  <1> USE DEF ifaceVars, nodeVars
  <1>f. ASSUME NEW kind, Fault(kind) PROVE faults' \in 0 .. MaxFaults
    BY <1>0, <1>f, ConstantsAssumption DEF Fault, TypeOK
  <1>1. ASSUME NEW n \in Nodes, QueryTick(n) PROVE TypeOK'
    <2>1. NextProbe(probe_state[n]) \in Probes
      BY <1>0, TimesAssumption DEF NextProbe, TypeOK, Probes
    <2>2. Query \in Packets
      BY DEF Packets
    <2>3. /\ send_buffer' = [send_buffer EXCEPT ![n] = Append(@, Query)]
          /\ probe_state' = [probe_state EXCEPT ![n] = NextProbe(probe_state[n])]
          /\ timeout' = [timeout EXCEPT ![n] = NextProbe(probe_state[n]).interval]
          /\ UNCHANGED <<if_task, discovered, query_response, nodeVars, woken, listen_addresses,
                         inbox, known, faults>>
      BY <1>1 DEF QueryTick, reset_timer
    <2>4. NextProbe(probe_state[n]).interval \in Nat
      BY <2>1 DEF Probes
    <2> HIDE DEF ifaceVars
    <2> QED
      BY <1>0, <2>1, <2>2, <2>3, <2>4 DEF TypeOK
  <1>2. ASSUME NEW n \in Nodes, Send(n) PROVE TypeOK'
    <2>1. /\ Head(send_buffer[n]) \in Packets
          /\ Tail(send_buffer[n]) \in Seq(Packets)
      BY <1>0, <1>2 DEF Send, TypeOK
    <2>2. \A m \in Nodes : Append(inbox[m], Head(send_buffer[n])) \in Seq(Packets)
      BY <1>0, <2>1 DEF TypeOK
    <2> QED
      BY <1>0, <1>2, <2>1, <2>2 DEF Send, TypeOK
  <1>3. ASSUME NEW n \in Nodes, Return(n) PROVE TypeOK'
    <2>1. /\ Head(discovered[n]) \in Timed
          /\ Tail(discovered[n]) \in Seq(Timed)
          /\ Append(query_response[n], Head(discovered[n])) \in Seq(Timed)
      BY <1>0, <1>3 DEF Return, TypeOK
    <2> QED
      BY <1>0, <1>3, <2>1 DEF Return, TypeOK
  <1>4. ASSUME NEW n \in Nodes, Receive(n) PROVE TypeOK'
    <2> DEFINE p == Head(inbox[n])
    <2>1. p \in Packets /\ Tail(inbox[n]) \in Seq(Packets)
      BY <1>0, <1>4 DEF Receive, TypeOK
    <2>2. inbox' \in [Nodes -> Seq(Packets)]
      BY <1>0, <1>4, <2>1 DEF Receive, TypeOK
    <2>3. UNCHANGED <<if_task, query_response, nodeVars, woken, listen_addresses, known, faults>>
      BY <1>4 DEF Receive
    <2>4. CASE p.type = "query"
      <3>1. Response(n, listen_addresses[n]) \in Packets
        BY <1>0 DEF Response, Packets, TypeOK
      <3>2. Append(send_buffer[n], Response(n, listen_addresses[n])) \in Seq(Packets)
        BY <1>0, <3>1 DEF TypeOK
      <3>3. /\ send_buffer' = [send_buffer EXCEPT ![n] = Append(@, Response(n, listen_addresses[n]))]
            /\ UNCHANGED <<discovered, probe_state, timeout>>
        BY <1>4, <2>4 DEF Receive
      <3> QED
        BY <1>0, <2>2, <2>3, <3>2, <3>3 DEF TypeOK
    <2>5. CASE p.type = "response"
      <3>1. p \in [type : {"response"}, peer : Nodes, addrs : SUBSET Addrs]
        BY <2>1, <2>5 DEF Packets, Query
      <3>2. PICK s \in extract_discovered(n, p) : discovered' = [discovered EXCEPT ![n] = @ \o s]
        BY <1>4, <2>5 DEF Receive
      <3>3. s \in Seq(Timed)
        BY <3>1, ExtractFacts
      <3>4. discovered' \in [Nodes -> Seq(Timed)]
        BY <1>0, <3>2, <3>3 DEF TypeOK
      <3> DEFINE probe == [probing |-> FALSE, interval |-> query_interval]
      <3>5. probe \in Probes /\ probe.interval \in Nat
        BY TimesAssumption DEF Probes
      <3>6. /\ \/ UNCHANGED <<probe_state, timeout>>
               \/ /\ probe_state' = [probe_state EXCEPT ![n] = probe]
                  /\ timeout' = [timeout EXCEPT ![n] = probe.interval]
            /\ UNCHANGED send_buffer
        BY <1>4, <2>5 DEF Receive, reset_timer
      <3>7. probe_state' \in [Nodes -> Probes] /\ timeout' \in [Nodes -> Nat]
        <4> HIDE DEF probe
        <4> QED
          BY <1>0, <3>5, <3>6 DEF TypeOK
      <3> QED
        BY <1>0, <2>2, <2>3, <3>4, <3>6, <3>7 DEF TypeOK
    <2> QED
      BY <1>4, <2>4, <2>5 DEF Receive
  <1>5. ASSUME NEW n \in Nodes, ReadError(n) PROVE TypeOK'
    BY <1>0, <1>5, <1>f DEF ReadError, TypeOK
  <1>6. ASSUME NEW n \in Nodes, Lose(n) PROVE TypeOK'
    <2>1. Tail(inbox[n]) \in Seq(Packets)
      BY <1>0, <1>6 DEF Lose, TypeOK
    <2> QED
      BY <1>0, <1>6, <1>f, <2>1 DEF Lose, TypeOK
  <1>7. ASSUME NEW n \in Nodes, Emit(n) PROVE TypeOK'
    <2> DEFINE e == Head(pending_events[n])
    <2>1. /\ pending_events' = [pending_events EXCEPT ![n] = Tail(@)]
          /\ known' = [known EXCEPT ![n] = [r \in Records |->
                CASE r \in e.records /\ e.type = "Discovered" -> @[r] + 1
                  [] r \in e.records /\ e.type = "Expired"    -> @[r] - 1
                  [] OTHER                                    -> @[r]]]
          /\ pending_events[n] # <<>>
          /\ UNCHANGED <<if_task, ifaceVars, query_response, discovered_nodes, closest_expiration,
                         woken, listen_addresses, inbox, faults>>
      BY <1>7 DEF Emit
    <2>2. Tail(pending_events[n]) \in Seq(Events)
      BY <1>0, <2>1 DEF TypeOK
    <2>3. /\ e.type = "Discovered" => \A r \in e.records : known[n][r] = 0
          /\ e.type = "Expired" => \A r \in e.records : known[n][r] = 1
      <3>1. Balanced(pending_events[n], known[n], Listed(n))
        BY DEF DiscoveryInv, EventsInv
      <3>2. PICK R \in SUBSET Records :
                \/ e = Event("NewExternalAddrOfPeer", R)
                \/ e = Event("Discovered", R) /\ known[n] = Told(Listed(n) \ R)
                \/ e = Event("Expired", R) /\ known[n] = Told(Listed(n) \cup R)
        <4>1. pending_events[n] # <<>>
          BY <2>1
        <4>2. OpensWith(e, known[n], Listed(n))
          BY <3>1, <4>1, BalancedHead
        <4> HIDE DEF e
        <4> QED
          BY <4>2 DEF OpensWith
      <3>3. /\ e.records = R
            /\ e.type = "Discovered" => known[n] = Told(Listed(n) \ R)
            /\ e.type = "Expired" => known[n] = Told(Listed(n) \cup R)
        BY <3>2 DEF Event
      <3> QED
        BY <3>3 DEF Told
    <2>4. \A r \in Records : known[n][r] \in 0 .. 1
      BY <1>0 DEF TypeOK
    <2>5. \A r \in Records :
            (CASE r \in e.records /\ e.type = "Discovered" -> known[n][r] + 1
               [] r \in e.records /\ e.type = "Expired"    -> known[n][r] - 1
               [] OTHER                                    -> known[n][r]) \in 0 .. 1
      BY <2>3, <2>4
    <2> HIDE DEF e
    <2>6. known' \in [Nodes -> [Records -> 0 .. 1]]
      BY <1>0, <2>1, <2>5 DEF TypeOK
    <2> QED
      BY <1>0, <2>1, <2>2, <2>6 DEF TypeOK
  <1>8. ASSUME NEW n \in Nodes, IfUp(n) PROVE TypeOK'
    <2>1. [probing |-> TRUE, interval |-> INITIAL_TIMEOUT_INTERVAL] \in Probes
      BY TimesAssumption DEF Probes
    <2> QED
      BY <1>0, <1>8, <2>1 DEF IfUp, NewInterface, TypeOK
  <1>9. ASSUME NEW n \in Nodes, IfDown(n) PROVE TypeOK'
    BY <1>0, <1>9, <1>f DEF IfDown, TypeOK
  <1>10. ASSUME NEW n \in Nodes, BehaviourPoll(n) PROVE TypeOK'
    <2> DEFINE nodes   == Refreshed(n)
               new     == NewNodes(n)
               expired == {r \in Records : nodes[r] # None /\ nodes[r] = 0}
    <2>1. /\ nodes \in [Records -> 0 .. ttl \cup {None}]
          /\ new \in SUBSET Records
          /\ expired \in SUBSET Records
      BY <1>0, RefreshedFacts DEF NewNodes
    <2>2. ClosestExpiration(n, nodes) \in 0 .. ttl \cup {None}
      BY <1>0, <2>1, ClosestFacts
    <2>3. \A R \in SUBSET Records :
            /\ Event("Discovered", R) \in Events
            /\ Event("NewExternalAddrOfPeer", R) \in Events
            /\ Event("Expired", R) \in Events
      BY DEF Event, Events
    <2>4. /\ query_response' = [query_response EXCEPT ![n] = <<>>]
          /\ UNCHANGED <<if_task, ifaceVars, listen_addresses, inbox, known, faults>>
      BY <1>10 DEF BehaviourPoll
    <2>5. \/ /\ discovered_nodes' = [discovered_nodes EXCEPT ![n] = nodes]
             /\ pending_events' = [pending_events EXCEPT ![n] =
                    <<Event("Discovered", new), Event("NewExternalAddrOfPeer", new)>>]
             /\ UNCHANGED <<closest_expiration, woken>>
          \/ /\ discovered_nodes' = [discovered_nodes EXCEPT ![n] =
                    [r \in Records |-> IF r \in expired THEN None ELSE nodes[r]]]
             /\ pending_events' = [pending_events EXCEPT ![n] = <<Event("Expired", expired)>>]
             /\ UNCHANGED <<closest_expiration, woken>>
          \/ /\ discovered_nodes' = [discovered_nodes EXCEPT ![n] = nodes]
             /\ closest_expiration' = [closest_expiration EXCEPT ![n] = ClosestExpiration(n, nodes)]
             /\ woken' = [woken EXCEPT ![n] = FALSE]
             /\ UNCHANGED pending_events
      BY <1>10 DEF BehaviourPoll
    <2> HIDE DEF nodes, new, expired
    <2>6. discovered_nodes' \in [Nodes -> [Records -> 0 .. ttl \cup {None}]]
      <3>1. [r \in Records |-> IF r \in expired THEN None ELSE nodes[r]]
                \in [Records -> 0 .. ttl \cup {None}]
        BY <2>1
      <3> QED
        BY <1>0, <2>1, <2>5, <3>1 DEF TypeOK
    <2>7. pending_events' \in [Nodes -> Seq(Events)]
      <3>1. /\ <<Event("Discovered", new), Event("NewExternalAddrOfPeer", new)>> \in Seq(Events)
            /\ <<Event("Expired", expired)>> \in Seq(Events)
        BY <2>1, <2>3
      <3> QED
        BY <1>0, <2>5, <3>1 DEF TypeOK
    <2>8. /\ closest_expiration' \in [Nodes -> 0 .. ttl \cup {None}]
          /\ woken' \in [Nodes -> BOOLEAN]
      BY <1>0, <2>2, <2>5 DEF TypeOK
    <2>9. query_response' \in [Nodes -> Seq(Timed)]
      BY <1>0, <2>4 DEF TypeOK
    <2> QED
      BY <1>0, <2>4, <2>6, <2>7, <2>8, <2>9 DEF TypeOK
  <1>11. ASSUME NEW n \in Nodes, NEW A \in SUBSET Addrs, ListenAddressesChange(n, A) PROVE TypeOK'
    BY <1>0, <1>11, <1>f DEF ListenAddressesChange, TypeOK
  <1>12. ASSUME Tick PROVE TypeOK'
    <2>1. timeout' \in [Nodes -> Nat]
      BY <1>0, <1>12, ConstantsAssumption DEF Tick, TypeOK, Less
    <2>2. discovered' \in [Nodes -> Seq(Timed)] /\ query_response' \in [Nodes -> Seq(Timed)]
      BY <1>0, <1>12, OlderFacts DEF Tick, TypeOK
    <2>3. discovered_nodes' \in [Nodes -> [Records -> 0 .. ttl \cup {None}]]
      BY <1>0, <1>12, LessFacts DEF Tick, TypeOK
    <2>4. closest_expiration' \in [Nodes -> 0 .. ttl \cup {None}]
      BY <1>0, <1>12, LessFacts DEF Tick, TypeOK
    <2>5. woken' \in [Nodes -> BOOLEAN]
      BY <1>0, <1>12 DEF Tick, TypeOK
    <2>6. faults' \in 0 .. MaxFaults
      BY <1>0, <1>12, <1>f DEF Tick, TypeOK
    <2> QED
      BY <1>0, <1>12, <2>1, <2>2, <2>3, <2>4, <2>5, <2>6 DEF Tick, TypeOK
  <1>13. CASE UNCHANGED vars
    BY <1>0, <1>13 DEF vars, TypeOK
  <1> QED
    BY <1>1, <1>2, <1>3, <1>4, <1>5, <1>6, <1>7, <1>8, <1>9, <1>10, <1>11, <1>12, <1>13 DEF Next

\* Every step keeps the events in order.
LEMMA EventsStep == DiscoveryInv /\ [Next]_vars => EventsInv'
  <1> SUFFICES ASSUME DiscoveryInv, [Next]_vars PROVE EventsInv'
    OBVIOUS
  <1>0. TypeOK /\ EventsInv
    BY DEF DiscoveryInv
  <1>1. ASSUME NEW n \in Nodes, Emit(n) PROVE EventsInv'
    <2> SUFFICES ASSUME NEW m \in Nodes
                 PROVE  Balanced(pending_events'[m], known'[m], Listed(m)')
      BY DEF EventsInv
    <2>1. Listed(m)' = Listed(m)
      BY <1>1 DEF Emit, Listed
    <2>2. Balanced(pending_events[m], known[m], Listed(m))
      BY <1>0 DEF EventsInv
    <2>3. CASE m # n
      <3>1. pending_events'[m] = pending_events[m] /\ known'[m] = known[m]
        BY <1>0, <1>1, <2>3 DEF Emit, TypeOK
      <3> QED
        BY <2>1, <2>2, <3>1
    <2>4. CASE m = n
      <3> DEFINE e == Head(pending_events[n])
                 L == Listed(n)
      <3>1. /\ pending_events[n] # <<>>
            /\ pending_events'[n] = Tail(pending_events[n])
            /\ known'[n] = [r \in Records |->
                  CASE r \in e.records /\ e.type = "Discovered" -> known[n][r] + 1
                    [] r \in e.records /\ e.type = "Expired"    -> known[n][r] - 1
                    [] OTHER                                    -> known[n][r]]
        BY <1>0, <1>1 DEF Emit, TypeOK
      <3>2. L \subseteq Records
        BY DEF Listed
      <3> HIDE DEF L
      <3>3. PICK R \in SUBSET Records :
                \/ /\ pending_events[n] = <<Event("NewExternalAddrOfPeer", R)>>
                   /\ known[n] = Told(L)
                \/ /\ pending_events[n] = <<Event("Discovered", R), Event("NewExternalAddrOfPeer", R)>>
                   /\ R \subseteq L /\ known[n] = Told(L \ R)
                \/ /\ pending_events[n] = <<Event("Expired", R)>>
                   /\ R \cap L = {} /\ known[n] = Told(L \cup R)
        BY <2>2, <2>4, <3>1 DEF Balanced, L
      <3>4. CASE /\ pending_events[n] = <<Event("NewExternalAddrOfPeer", R)>>
                 /\ known[n] = Told(L)
        <4>1. e.type = "NewExternalAddrOfPeer" /\ pending_events'[n] = <<>>
          BY <3>1, <3>4 DEF Event
        <4>2. known'[n] = Told(L)
          BY <3>1, <3>4, <4>1 DEF Told
        <4> QED
          BY <2>1, <2>4, <4>1, <4>2 DEF Balanced, L
      <3>5. CASE /\ pending_events[n] = <<Event("Discovered", R), Event("NewExternalAddrOfPeer", R)>>
                 /\ R \subseteq L /\ known[n] = Told(L \ R)
        <4>1. /\ e.type = "Discovered" /\ e.records = R
              /\ pending_events'[n] = <<Event("NewExternalAddrOfPeer", R)>>
          BY <3>1, <3>5 DEF Event
        <4>2. known'[n] = Told(L)
          <5> HIDE DEF e
          <5>1. known'[n] = [r \in Records |-> IF r \in R THEN known[n][r] + 1 ELSE known[n][r]]
            BY <3>1, <4>1
          <5> QED
            BY <3>5, <5>1 DEF Told
        <4> QED
          BY <2>1, <2>4, <4>1, <4>2 DEF Balanced, L
      <3>6. CASE /\ pending_events[n] = <<Event("Expired", R)>>
                 /\ R \cap L = {} /\ known[n] = Told(L \cup R)
        <4>1. /\ e.type = "Expired" /\ e.records = R
              /\ pending_events'[n] = <<>>
          BY <3>1, <3>6 DEF Event
        <4>2. known'[n] = Told(L)
          <5> HIDE DEF e
          <5>1. known'[n] = [r \in Records |-> IF r \in R THEN known[n][r] - 1 ELSE known[n][r]]
            BY <3>1, <4>1
          <5> QED
            BY <3>6, <5>1 DEF Told
        <4> QED
          BY <2>1, <2>4, <4>1, <4>2 DEF Balanced, L
      <3> QED
        BY <3>3, <3>4, <3>5, <3>6
    <2> QED
      BY <2>3, <2>4
  <1>2. ASSUME NEW n \in Nodes, BehaviourPoll(n) PROVE EventsInv'
    <2> SUFFICES ASSUME NEW m \in Nodes
                 PROVE  Balanced(pending_events'[m], known'[m], Listed(m)')
      BY DEF EventsInv
    <2> DEFINE nodes   == Refreshed(n)
               new     == NewNodes(n)
               expired == {r \in Records : nodes[r] # None /\ nodes[r] = 0}
    <2>1. /\ pending_events[n] = <<>>
          /\ UNCHANGED known
          /\ \/ /\ new # {}
                /\ discovered_nodes' = [discovered_nodes EXCEPT ![n] = nodes]
                /\ pending_events' = [pending_events EXCEPT ![n] =
                      <<Event("Discovered", new), Event("NewExternalAddrOfPeer", new)>>]
             \/ /\ new = {} /\ expired # {}
                /\ discovered_nodes' = [discovered_nodes EXCEPT ![n] =
                      [r \in Records |-> IF r \in expired THEN None ELSE nodes[r]]]
                /\ pending_events' = [pending_events EXCEPT ![n] = <<Event("Expired", expired)>>]
             \/ /\ new = {}
                /\ discovered_nodes' = [discovered_nodes EXCEPT ![n] = nodes]
                /\ UNCHANGED pending_events
      BY <1>2 DEF BehaviourPoll
    <2>2. Balanced(pending_events[m], known[m], Listed(m))
      BY <1>0 DEF EventsInv
    <2>3. CASE m # n
      <3>1. /\ pending_events'[m] = pending_events[m] /\ known'[m] = known[m]
            /\ discovered_nodes'[m] = discovered_nodes[m]
        <4> HIDE DEF nodes, new, expired
        <4> QED
          BY <1>0, <2>1, <2>3 DEF TypeOK
      <3> QED
        BY <2>2, <3>1 DEF Listed
    <2>4. CASE m = n
      <3>1. known[n] = Told(Listed(n))
        BY <2>1, <2>2, <2>4, BalancedEmpty
      <3>2. /\ nodes \in [Records -> 0 .. ttl \cup {None}]
            /\ \A r \in Records : nodes[r] # None <=> r \in Listed(n) \cup Arrived(n)
            /\ Listed(n) \subseteq Records /\ Arrived(n) \subseteq Records
        BY <1>0, RefreshedFacts DEF Listed
      <3>3. new = Arrived(n) \ Listed(n)
        BY DEF NewNodes
      <3>4. expired \subseteq Records /\ \A r \in expired : nodes[r] # None
        OBVIOUS
      <3> HIDE DEF nodes, new, expired
      <3>5. CASE /\ new # {}
                 /\ discovered_nodes' = [discovered_nodes EXCEPT ![n] = nodes]
                 /\ pending_events' = [pending_events EXCEPT ![n] =
                       <<Event("Discovered", new), Event("NewExternalAddrOfPeer", new)>>]
        <4>1. discovered_nodes'[n] = nodes
          BY <1>0, <3>5 DEF TypeOK
        <4>2. Listed(n)' = Listed(n) \cup new
          BY <3>2, <3>3, <4>1 DEF Listed
        <4>3. pending_events'[n] = <<Event("Discovered", new), Event("NewExternalAddrOfPeer", new)>>
          BY <1>0, <3>5 DEF TypeOK
        <4>4. /\ new \in SUBSET Records /\ new # {} /\ new \subseteq Listed(n)'
              /\ Listed(n)' \ new = Listed(n)
          BY <3>2, <3>3, <3>5, <4>2
        <4> QED
          BY <2>1, <2>4, <3>1, <4>3, <4>4 DEF Balanced
      <3>6. CASE /\ new = {} /\ expired # {}
                 /\ discovered_nodes' = [discovered_nodes EXCEPT ![n] =
                       [r \in Records |-> IF r \in expired THEN None ELSE nodes[r]]]
                 /\ pending_events' = [pending_events EXCEPT ![n] = <<Event("Expired", expired)>>]
        <4>1. discovered_nodes'[n] = [r \in Records |-> IF r \in expired THEN None ELSE nodes[r]]
          BY <1>0, <3>6 DEF TypeOK
        <4>2. Listed(n)' = Listed(n) \ expired
          BY <3>2, <3>3, <3>6, <4>1 DEF Listed
        <4>3. pending_events'[n] = <<Event("Expired", expired)>>
          BY <1>0, <3>6 DEF TypeOK
        <4>4. /\ expired \in SUBSET Records /\ expired # {} /\ expired \cap Listed(n)' = {}
              /\ Listed(n)' \cup expired = Listed(n)
          BY <3>2, <3>3, <3>4, <3>6, <4>2
        <4> QED
          BY <2>1, <2>4, <3>1, <4>3, <4>4 DEF Balanced
      <3>7. CASE /\ new = {}
                 /\ discovered_nodes' = [discovered_nodes EXCEPT ![n] = nodes]
                 /\ UNCHANGED pending_events
        <4>1. discovered_nodes'[n] = nodes
          BY <1>0, <3>7 DEF TypeOK
        <4>2. Listed(n)' = Listed(n)
          BY <3>2, <3>3, <3>7, <4>1 DEF Listed
        <4> QED
          BY <2>1, <2>2, <2>4, <3>7, <4>2
      <3> QED
        BY <2>1, <3>5, <3>6, <3>7
    <2> QED
      BY <2>3, <2>4
  <1>3. ASSUME Tick PROVE EventsInv'
    <2>1. \A n \in Nodes, r \in Records :
            discovered_nodes'[n][r] = None <=> discovered_nodes[n][r] = None
      BY <1>0, <1>3, LessFacts DEF Tick, TypeOK
    <2>2. \A n \in Nodes : Listed(n)' = Listed(n)
      BY <2>1 DEF Listed
    <2> QED
      BY <1>0, <1>3, <2>2, EventsUnchanged DEF Tick
  <1>4. ASSUME UNCHANGED <<discovered_nodes, pending_events, known>> PROVE EventsInv'
    BY <1>0, <1>4, EventsUnchanged DEF Listed
  <1>5. CASE UNCHANGED vars
    BY <1>4, <1>5 DEF vars, nodeVars
  <1> QED
    BY <1>1, <1>2, <1>3, <1>4, <1>5
    DEF Next, nodeVars, QueryTick, Send, Return, Receive, ReadError, Lose, IfUp, IfDown,
        ListenAddressesChange

-------------------------------------------------------------------------------
\* The invariant holds in every reachable state of all nodes' mDNS tasks.
THEOREM DiscoveryInvariant == Spec => []DiscoveryInv
  <1>1. DiscoveryInv /\ [Next]_vars => DiscoveryInv'
    BY TypeStep, EventsStep DEF DiscoveryInv
  <1> QED
    BY <1>1, DiscoveryInvInit, PTL DEF Spec

\* The queues, times to live and packets of mDNS keep their types.
THEOREM TypeCorrect == Spec => []TypeOK
  <1>1. DiscoveryInv => TypeOK
    BY DEF DiscoveryInv
  <1> QED
    BY <1>1, DiscoveryInvariant, PTL

\* Once the pending events are out, the program knows exactly what discovered_nodes
\* lists.
THEOREM EventsInvHolds == Spec => []EventsInv
  <1>1. DiscoveryInv => EventsInv
    BY DEF DiscoveryInv
  <1> QED
    BY <1>1, DiscoveryInvariant, PTL

\* The events of the Behaviour are those of PeerDiscovery: each step that returns
\* Discovered or Expired is a step of it, all others leave it alone.
THEOREM Refinement == Spec => ImplementsDiscovery
  <1>1. Init => Discovery!Init
    BY DEF Init, Discovery!Init
  <1>2. DiscoveryInv /\ [Next]_vars => [Discovery!Next]_known
    <2> SUFFICES ASSUME DiscoveryInv, [Next]_vars, ~UNCHANGED known PROVE Discovery!Next
      OBVIOUS
    <2>0. TypeOK /\ EventsInv
      BY DEF DiscoveryInv
    <2>1. PICK n \in Nodes : Emit(n)
      BY DEF Next, QueryTick, Send, Return, Receive, ReadError, Lose, IfUp, IfDown,
             BehaviourPoll, ListenAddressesChange, Tick, vars
    <2> DEFINE e == Head(pending_events[n])
               L == Listed(n)
    <2>2. /\ pending_events[n] # <<>>
          /\ known' = [known EXCEPT ![n] = [r \in Records |->
                CASE r \in e.records /\ e.type = "Discovered" -> known[n][r] + 1
                  [] r \in e.records /\ e.type = "Expired"    -> known[n][r] - 1
                  [] OTHER                                    -> known[n][r]]]
      BY <2>1 DEF Emit
    <2>3. Balanced(pending_events[n], known[n], L)
      BY <2>0 DEF EventsInv
    <2> HIDE DEF L
    <2>4. PICK R \in SUBSET Records :
            \/ e = Event("NewExternalAddrOfPeer", R) /\ known[n] = Told(L)
            \/ e = Event("Discovered", R) /\ R # {} /\ known[n] = Told(L \ R)
            \/ e = Event("Expired", R) /\ R # {} /\ known[n] = Told(L \cup R)
      <3>1. pending_events[n] # <<>>
        BY <2>2
      <3>2. OpensWith(e, known[n], L)
        BY <2>3, <3>1, BalancedHead
      <3> HIDE DEF e
      <3> QED
        BY <3>2 DEF OpensWith
    <2> HIDE DEF e
    <2>5. CASE e = Event("NewExternalAddrOfPeer", R) /\ known[n] = Told(L)
      <3>1. e.type = "NewExternalAddrOfPeer"
        BY <2>5 DEF Event
      <3>2. known' = [known EXCEPT ![n] = [r \in Records |-> known[n][r]]]
        BY <2>2, <3>1
      <3> QED
        BY <2>0, <3>2 DEF TypeOK
    <2>6. CASE e = Event("Discovered", R) /\ R # {} /\ known[n] = Told(L \ R)
      <3>1. e.type = "Discovered" /\ e.records = R
        BY <2>6 DEF Event
      <3>2. \A r \in R : known[n][r] = 0
        BY <2>6 DEF Told
      <3>3. [r \in Records |->
                CASE r \in e.records /\ e.type = "Discovered" -> known[n][r] + 1
                  [] r \in e.records /\ e.type = "Expired"    -> known[n][r] - 1
                  [] OTHER                                    -> known[n][r]]
              = [r \in Records |-> IF r \in R THEN 1 ELSE known[n][r]]
        BY <3>1, <3>2
      <3>4. Discovery!Discovered(n, R)
        BY <2>2, <2>6, <3>2, <3>3 DEF Discovery!Discovered
      <3> QED
        BY <3>4 DEF Discovery!Next
    <2>7. CASE e = Event("Expired", R) /\ R # {} /\ known[n] = Told(L \cup R)
      <3>1. e.type = "Expired" /\ e.records = R
        BY <2>7 DEF Event
      <3>2. \A r \in R : known[n][r] = 1
        BY <2>7 DEF Told
      <3>3. [r \in Records |->
                CASE r \in e.records /\ e.type = "Discovered" -> known[n][r] + 1
                  [] r \in e.records /\ e.type = "Expired"    -> known[n][r] - 1
                  [] OTHER                                    -> known[n][r]]
              = [r \in Records |-> IF r \in R THEN 0 ELSE known[n][r]]
        BY <3>1, <3>2
      <3>4. Discovery!Expired(n, R)
        BY <2>2, <2>7, <3>2, <3>3 DEF Discovery!Expired
      <3> QED
        BY <3>4 DEF Discovery!Next
    <2> QED
      BY <2>4, <2>5, <2>6, <2>7
  <1> QED
    BY <1>1, <1>2, DiscoveryInvariant, PTL DEF Spec, ImplementsDiscovery, Discovery!Spec

-------------------------------------------------------------------------------
(* The timer of the Behaviour.                                               *)

\* WakesInTime is inductive together with this: a task with pending events is
\* scheduled, so that it goes to sleep only through its timer.
PendingIsWoken == \A n \in Nodes : pending_events[n] # <<>> => woken[n]

TimerInv == WakesInTime /\ PendingIsWoken

\* The timer that is set is not later than any expiration.
LEMMA ClosestIsFirst ==
    ASSUME NEW n \in Nodes, NEW nodes \in [Records -> 0 .. ttl \cup {None}],
           NEW r \in Records, nodes[r] # None
    PROVE  /\ \E q \in Records : nodes[q] # None /\ ClosestExpiration(n, nodes) = nodes[q]
           /\ ClosestExpiration(n, nodes) <= nodes[r]
  <1> DEFINE times == {nodes[q] : q \in {q \in Records : nodes[q] # None}}
  <1>1. times \in SUBSET (0 .. ttl) /\ nodes[r] \in times
    OBVIOUS
  <1>2. ClosestExpiration(n, nodes) =
          IF times = {} THEN closest_expiration[n]
          ELSE CHOOSE t \in times : \A u \in times : t <= u
    BY DEF ClosestExpiration
  <1>3. \A t \in times : \E q \in Records : nodes[q] # None /\ t = nodes[q]
    OBVIOUS
  <1> HIDE DEF times
  <1>4. \E t \in times : \A u \in times : t <= u
    BY <1>1, TimesHaveBounds
  <1>5. ClosestExpiration(n, nodes) \in times /\ \A u \in times : ClosestExpiration(n, nodes) <= u
    BY <1>1, <1>2, <1>4
  <1> QED
    BY <1>1, <1>3, <1>5

\* A step that leaves the list, its timer and the pending events of every node
\* alone, and puts no task to sleep.
LEMMA TimerUnchanged ==
    ASSUME TimerInv, UNCHANGED nodeVars, \A n \in Nodes : woken[n] => woken'[n]
    PROVE  TimerInv'
  BY DEF TimerInv, WakesInTime, PendingIsWoken, Listed, nodeVars

\* Every step of the tasks and of time leaves the timer early enough.
LEMMA TimerStep == DiscoveryInv /\ TimerInv /\ [Next]_vars => TimerInv'
  <1> SUFFICES ASSUME DiscoveryInv, TimerInv, [Next]_vars PROVE TimerInv'
    OBVIOUS
  <1>0. TypeOK
    BY DEF DiscoveryInv
  <1>1. ASSUME NEW n \in Nodes, Emit(n) PROVE TimerInv'
    <2>1. \A m \in Nodes : pending_events'[m] # <<>> => pending_events[m] # <<>>
      BY <1>0, <1>1 DEF Emit, TypeOK
    <2>2. \A m \in Nodes : pending_events'[m] = <<>> /\ ~woken[m] => pending_events[m] = <<>>
      BY DEF TimerInv, PendingIsWoken
    <2> QED
      BY <1>1, <2>1, <2>2 DEF TimerInv, WakesInTime, PendingIsWoken, Listed, Emit
  <1>2. ASSUME NEW n \in Nodes, BehaviourPoll(n) PROVE TimerInv'
    <2> DEFINE nodes   == Refreshed(n)
               new     == NewNodes(n)
               expired == {r \in Records : nodes[r] # None /\ nodes[r] = 0}
    <2>1. /\ woken[n] /\ pending_events[n] = <<>>
          /\ \/ /\ UNCHANGED woken
                /\ \E d : discovered_nodes' = [discovered_nodes EXCEPT ![n] = d]
                /\ \E q : pending_events' = [pending_events EXCEPT ![n] = q]
                /\ UNCHANGED closest_expiration
             \/ /\ expired = {}
                /\ discovered_nodes' = [discovered_nodes EXCEPT ![n] = nodes]
                /\ closest_expiration' = [closest_expiration EXCEPT ![n] = ClosestExpiration(n, nodes)]
                /\ woken' = [woken EXCEPT ![n] = FALSE]
                /\ UNCHANGED pending_events
      BY <1>2 DEF BehaviourPoll
    <2>2. nodes \in [Records -> 0 .. ttl \cup {None}]
      BY <1>0, RefreshedFacts
    <2>3. \A r \in Records : nodes[r] # None /\ nodes[r] = 0 => r \in expired
      OBVIOUS
    <2> HIDE DEF nodes, new, expired
    <2>4. ASSUME NEW m \in Nodes, m # n
          PROVE  /\ discovered_nodes'[m] = discovered_nodes[m]
                 /\ closest_expiration'[m] = closest_expiration[m]
                 /\ pending_events'[m] = pending_events[m]
                 /\ woken'[m] = woken[m]
      BY <1>0, <2>1, <2>4 DEF TypeOK
    <2>5. PendingIsWoken'
      <3> SUFFICES ASSUME NEW m \in Nodes, pending_events'[m] # <<>> PROVE woken'[m]
        BY DEF PendingIsWoken
      <3>1. CASE m # n
        BY <2>4, <3>1 DEF TimerInv, PendingIsWoken
      <3>2. CASE m = n
        BY <2>1, <3>2
      <3> QED
        BY <3>1, <3>2
    <2>6. WakesInTime'
      <3> SUFFICES ASSUME NEW m \in Nodes, NEW r \in Listed(m)', ~woken'[m], pending_events'[m] = <<>>
                   PROVE  /\ closest_expiration'[m] # None
                          /\ closest_expiration'[m] <= discovered_nodes'[m][r]
                          /\ closest_expiration'[m] > 0
        BY DEF WakesInTime
      <3>1. CASE m # n
        BY <2>4, <3>1 DEF TimerInv, WakesInTime, Listed
      <3>2. CASE m = n
        <4>1. /\ expired = {}
              /\ discovered_nodes'[n] = nodes
              /\ closest_expiration'[n] = ClosestExpiration(n, nodes)
          BY <1>0, <2>1, <3>2 DEF TypeOK
        <4>2. r \in Records /\ nodes[r] # None
          BY <3>2, <4>1 DEF Listed
        <4>3. /\ \E q \in Records : nodes[q] # None /\ ClosestExpiration(n, nodes) = nodes[q]
              /\ ClosestExpiration(n, nodes) <= nodes[r]
          BY <2>2, <4>2, ClosestIsFirst
        <4>4. PICK q \in Records : nodes[q] # None /\ ClosestExpiration(n, nodes) = nodes[q]
          BY <4>3
        <4>5. nodes[q] \in 0 .. ttl /\ nodes[q] # 0
          BY <2>2, <2>3, <4>1, <4>4
        <4> QED
          BY <3>2, <4>1, <4>3, <4>4, <4>5, TimesAssumption
      <3> QED
        BY <3>1, <3>2
    <2> QED
      BY <2>5, <2>6 DEF TimerInv
  <1>3. ASSUME Tick PROVE TimerInv'
    <2>1. PendingIsWoken'
      BY <1>3 DEF Tick, TimerInv, PendingIsWoken
    <2>2. WakesInTime'
      <3> SUFFICES ASSUME NEW n \in Nodes, NEW r \in Listed(n)', ~woken'[n], pending_events'[n] = <<>>
                   PROVE  /\ closest_expiration'[n] # None
                          /\ closest_expiration'[n] <= discovered_nodes'[n][r]
                          /\ closest_expiration'[n] > 0
        BY DEF WakesInTime
      <3> DEFINE c == closest_expiration[n]
                 d == discovered_nodes[n][r]
      <3>1. /\ r \in Records
            /\ closest_expiration'[n] = Less(c)
            /\ discovered_nodes'[n][r] = Less(d) /\ Less(d) # None
            /\ ~woken[n] /\ c # 1 /\ pending_events[n] = <<>>
        BY <1>3 DEF Tick, Listed
      <3>2. c \in 0 .. ttl \cup {None} /\ d \in 0 .. ttl \cup {None}
        BY <1>0, <3>1 DEF TypeOK
      <3>3. r \in Listed(n)
        BY <3>1, <3>2, LessFacts DEF Listed
      <3>4. c # None /\ c <= d /\ c > 0 /\ d # None
        BY <3>1, <3>3 DEF TimerInv, WakesInTime, Listed
      <3> HIDE DEF c, d
      <3>5. Less(c) = c - 1 /\ Less(d) = d - 1 /\ c - 1 > 0 /\ c - 1 <= d - 1
        BY <3>1, <3>2, <3>4, TimesAssumption DEF Less
      <3>6. c - 1 \in Int
        BY <3>2, <3>4, TimesAssumption
      <3> QED
        BY <3>1, <3>5, <3>6, ConstantsAssumption
    <2> QED
      BY <2>1, <2>2 DEF TimerInv
  <1>4. ASSUME UNCHANGED nodeVars, \A m \in Nodes : woken[m] => woken'[m] PROVE TimerInv'
    BY <1>4, TimerUnchanged
  <1>5. ASSUME NEW n \in Nodes, Return(n) \/ IfUp(n) \/ IfDown(n) PROVE TimerInv'
    <2>1. UNCHANGED nodeVars /\ woken' = [woken EXCEPT ![n] = TRUE]
      BY <1>5 DEF Return, IfUp, IfDown
    <2>2. \A m \in Nodes : woken[m] => woken'[m]
      BY <1>0, <2>1 DEF TypeOK
    <2> QED
      BY <1>4, <2>1, <2>2
  <1>6. ASSUME UNCHANGED <<nodeVars, woken>> PROVE TimerInv'
    BY <1>4, <1>6
  <1>7. CASE UNCHANGED vars
    BY <1>6, <1>7 DEF vars
  <1> QED
    BY <1>1, <1>2, <1>3, <1>5, <1>6, <1>7
    DEF Next, QueryTick, Send, Receive, ReadError, Lose, ListenAddressesChange

\* Whatever arrives, fails or stalls: a sleeping Behaviour is woken by its timer
\* before, or when, the first of its discovered nodes expires.
THEOREM WakesInTimeHolds == Spec => []WakesInTime
  <1>1. Init => TimerInv
    BY DEF Init, TimerInv, WakesInTime, PendingIsWoken
  <1>2. TimerInv => WakesInTime
    BY DEF TimerInv
  <1> QED
    BY <1>1, <1>2, TimerStep, DiscoveryInvariant, PTL DEF Spec

-------------------------------------------------------------------------------
(* Proof about MdnsDiscovery that no node is reported as expired as long as  *)
(* no fault happens, for every set of nodes and addresses and every time to  *)
(* live that is longer than the query interval.                              *)
(*                                                                           *)
(* The argument: a query, whoever sent it, makes every node answer every     *)
(* other one before time goes on.  So a node's list is as young as its timer *)
(* says, or the answer that makes it so is on its way.                       *)

\* x is one of the elements of s.
Holds(s, x) == \E i \in DOMAIN s : s[i] = x

Fresh(r) == [record |-> r, left |-> ttl]
Answer(m) == Response(m, Addrs)

RunningNodes == {m \in Nodes : Running(m)}
FreshOnes(n) == {Fresh(r) : r \in {r \in Records : r.peer # n /\ Running(r.peer)}}

\* A packet or a discovered address waits in some interface task.
Busy == \E k \in Nodes : send_buffer[k] # <<>> \/ inbox[k] # <<>> \/ discovered[k] # <<>>

\* What will refresh r in the list of n: a query somewhere on its way to r's node,
\* that node's answer on its way to n, or the address itself.
Underway(n, r) ==
    \/ \E k \in Nodes : Holds(send_buffer[k], Query)
    \/ Holds(inbox[r.peer], Query)
    \/ Holds(send_buffer[r.peer], Answer(r.peer))
    \/ Holds(inbox[n], Answer(r.peer))
    \/ Holds(discovered[n], Fresh(r))

\* r has just been refreshed in the list of n, or will be before time goes on.
Current(n, r) ==
    discovered_nodes[n][r] = ttl \/ Underway(n, r) \/ Holds(query_response[n], Fresh(r))

\* r is not older than n's last query: it will outlive the next one.
OnTime(n, r) == discovered_nodes[n][r] >= timeout[n] + (ttl - query_interval)

\* The interface task of n: it is there from IfUp on, asks often enough, and
\* handles only what running nodes have sent since time last went on.
TaskOK(n) ==
    /\ if_task[n] \in {"none", "running"}
    /\ listen_addresses[n] = Addrs
    /\ timeout[n] <= query_interval
    /\ probe_state[n].probing \/ probe_state[n].interval = query_interval
    /\ send_buffer[n] \in Seq({Query, Answer(n)})
    /\ inbox[n] \in Seq({Query} \cup {Answer(m) : m \in RunningNodes})
    /\ discovered[n] \in Seq(FreshOnes(n))
    /\ query_response[n] \in Seq(FreshOnes(n))
    /\ query_response[n] # <<>> => woken[n]
    /\ ~Running(n) =>
        /\ send_buffer[n] = <<>> /\ inbox[n] = <<>>
        /\ discovered[n] = <<>> /\ query_response[n] = <<>>
        /\ Listed(n) = {}

\* The list of n.
ListOK(n) ==
    \A r \in Listed(n) :
        /\ r.peer # n /\ Running(r.peer)
        /\ discovered_nodes[n][r] # 0
        /\ Current(n, r) \/ (~Busy /\ OnTime(n, r))

NothingExpired(n) ==
    \A i \in DOMAIN pending_events[n] : pending_events[n][i].type # "Expired"

AllWell == \A n \in Nodes : TaskOK(n) /\ ListOK(n) /\ NothingExpired(n)

\* The inductive invariant.
FaultlessInv == faults = 0 => AllWell

-------------------------------------------------------------------------------
(* Elements of sequences.                                                    *)

LEMMA HoldsAppend ==
    ASSUME NEW S, NEW s \in Seq(S), NEW y \in S, NEW x
    PROVE  Holds(Append(s, y), x) <=> Holds(s, x) \/ x = y
  <1>1. Append(s, y) \in Seq(S) /\ Len(Append(s, y)) = Len(s) + 1
    OBVIOUS
  <1>2. \A i \in 1 .. Len(s) : Append(s, y)[i] = s[i]
    OBVIOUS
  <1>3. Append(s, y)[Len(s) + 1] = y
    OBVIOUS
  <1>4. /\ DOMAIN s = 1 .. Len(s) /\ Len(s) \in Nat
        /\ DOMAIN Append(s, y) = 1 .. (Len(s) + 1)
    BY <1>1
  <1> QED
    BY <1>2, <1>3, <1>4 DEF Holds

LEMMA HoldsTail ==
    ASSUME NEW S, NEW s \in Seq(S), s # <<>>, NEW x
    PROVE  Holds(s, x) <=> x = Head(s) \/ Holds(Tail(s), x)
  <1>1. /\ DOMAIN s = 1 .. Len(s) /\ Len(s) \in Nat /\ Len(s) >= 1
        /\ Len(Tail(s)) = Len(s) - 1 /\ Tail(s) \in Seq(S)
        /\ Head(s) = s[1]
    OBVIOUS
  <1>2. DOMAIN Tail(s) = 1 .. (Len(s) - 1)
    BY <1>1
  <1>3. \A i \in 1 .. (Len(s) - 1) : Tail(s)[i] = s[i + 1]
    OBVIOUS
  <1>4. ASSUME Holds(s, x) PROVE x = Head(s) \/ Holds(Tail(s), x)
    <2>1. PICK i \in 1 .. Len(s) : s[i] = x
      BY <1>1, <1>4 DEF Holds
    <2>2. CASE i = 1
      BY <1>1, <2>1, <2>2
    <2>3. CASE i # 1
      <3>1. i - 1 \in 1 .. (Len(s) - 1) /\ Tail(s)[i - 1] = x
        BY <1>1, <1>3, <2>1, <2>3
      <3> QED
        BY <1>2, <3>1 DEF Holds
    <2> QED
      BY <2>2, <2>3
  <1>5. ASSUME x = Head(s) \/ Holds(Tail(s), x) PROVE Holds(s, x)
    <2>1. CASE x = Head(s)
      <3>1. 1 \in DOMAIN s
        BY <1>1
      <3> QED
        BY <1>1, <2>1, <3>1 DEF Holds
    <2>2. CASE Holds(Tail(s), x)
      <3>1. PICK i \in 1 .. (Len(s) - 1) : Tail(s)[i] = x
        BY <1>2, <2>2 DEF Holds
      <3>2. i + 1 \in DOMAIN s /\ s[i + 1] = x
        BY <1>1, <1>3, <3>1
      <3> QED
        BY <3>2 DEF Holds
    <2> QED
      BY <1>5, <2>1, <2>2
  <1> QED
    BY <1>4, <1>5

LEMMA HoldsConcat ==
    ASSUME NEW S, NEW s \in Seq(S), NEW t \in Seq(S), NEW x
    PROVE  Holds(s, x) \/ Holds(t, x) => Holds(s \o t, x)
  <1>1. /\ DOMAIN s = 1 .. Len(s) /\ DOMAIN t = 1 .. Len(t)
        /\ Len(s) \in Nat /\ Len(t) \in Nat
        /\ s \o t \in Seq(S) /\ Len(s \o t) = Len(s) + Len(t)
    OBVIOUS
  <1>2. DOMAIN (s \o t) = 1 .. (Len(s) + Len(t))
    BY <1>1
  <1>3. \A i \in 1 .. Len(s) : (s \o t)[i] = s[i]
    OBVIOUS
  <1>4. \A i \in 1 .. Len(t) : (s \o t)[Len(s) + i] = t[i]
    OBVIOUS
  <1>5. CASE Holds(s, x)
    <2>1. PICK i \in 1 .. Len(s) : s[i] = x
      BY <1>1, <1>5 DEF Holds
    <2>2. i \in DOMAIN (s \o t) /\ (s \o t)[i] = x
      BY <1>1, <1>2, <1>3, <2>1
    <2> QED
      BY <2>2 DEF Holds
  <1>6. CASE Holds(t, x)
    <2>1. PICK i \in 1 .. Len(t) : t[i] = x
      BY <1>1, <1>6 DEF Holds
    <2>2. Len(s) + i \in DOMAIN (s \o t) /\ (s \o t)[Len(s) + i] = x
      BY <1>1, <1>2, <1>4, <2>1
    <2> QED
      BY <2>2 DEF Holds
  <1> QED
    BY <1>5, <1>6

LEMMA HoldsNone == \A x : ~Holds(<<>>, x)
  BY DEF Holds

LEMMA SeqWidens ==
    ASSUME NEW S, NEW T, S \subseteq T, NEW s \in Seq(S)
    PROVE  s \in Seq(T)
  <1>1. \A i \in 1 .. Len(s) : s[i] \in T
    OBVIOUS
  <1>2. s \in [1 .. Len(s) -> T] /\ Len(s) \in Nat
    BY <1>1
  <1> QED
    BY <1>2

\* An answer brings every address its node listens on, fresh.
LEMMA AnswerBringsAll ==
    ASSUME NEW n \in Nodes, NEW m \in Nodes, m # n, NEW s \in extract_discovered(n, Answer(m))
    PROVE  /\ s \in Seq({Fresh([peer |-> m, addr |-> a]) : a \in Addrs})
           /\ \A a \in Addrs : Holds(s, Fresh([peer |-> m, addr |-> a]))
  <1> DEFINE k == Cardinality(Addrs)
             R == {[peer |-> m, addr |-> a] : a \in Addrs}
             E == [record : R, left : {ttl}]
             F == {Fresh([peer |-> m, addr |-> a]) : a \in Addrs}
  <1>1. Answer(m).peer = m /\ Answer(m).addrs = Addrs
    BY DEF Answer, Response
  <1>2. s \in [1 .. k -> E] /\ \A i, j \in DOMAIN s : i # j => s[i] # s[j]
    BY <1>1 DEF extract_discovered
  <1>3. E = F
    <2>1. ASSUME NEW e \in E PROVE e \in F
      <3>1. e.record \in R /\ e = Fresh(e.record)
        BY DEF Fresh
      <3>2. PICK a \in Addrs : e.record = [peer |-> m, addr |-> a]
        BY <3>1
      <3> QED
        BY <3>1, <3>2
    <2>2. \A r \in R : Fresh(r) \in E
      BY DEF Fresh
    <2> QED
      BY <2>1, <2>2
  <1>4. IsFiniteSet(Addrs) /\ k \in Nat
    BY ConstantsAssumption, FS_CardinalityType
  <1>5. IsFiniteSet(1 .. k) /\ Cardinality(1 .. k) = k
    BY <1>4, FS_Interval
  <1>6. IsFiniteSet(F) /\ Cardinality(F) = k
    <2> DEFINE g == [a \in Addrs |-> Fresh([peer |-> m, addr |-> a])]
    <2>1. \A a, b \in Addrs : g[a] = g[b] => a = b
      BY DEF Fresh
    <2>2. \A y \in F : \E a \in Addrs : g[a] = y
      OBVIOUS
    <2>3. g \in [Addrs -> F]
      OBVIOUS
    <2>4. g \in Bijection(Addrs, F)
      <3> HIDE DEF g, F
      <3> QED
        BY <2>1, <2>2, <2>3 DEF Bijection, Injection, Surjection, IsInjective
    <2> QED
      BY <1>4, <2>4, FS_Bijection DEF ExistsBijection
  <1> HIDE DEF F, k, E, R
  <1>7. s \in Injection(1 .. k, F)
    <2>1. s \in [1 .. k -> F] /\ DOMAIN s = 1 .. k
      BY <1>2, <1>3
    <2> QED
      BY <1>2, <2>1 DEF Injection, IsInjective
  <1>8. s \in Surjection(1 .. k, F)
    BY <1>5, <1>6, <1>7, FS_Injection
  <1>9. \A y \in F : \E i \in 1 .. k : s[i] = y
    BY <1>8 DEF Surjection
  <1>10. s \in [1 .. k -> F] /\ DOMAIN s = 1 .. k
    BY <1>2, <1>3
  <1>11. s \in Seq(F)
    BY <1>4, <1>10
  <1>12. \A a \in Addrs : Fresh([peer |-> m, addr |-> a]) \in F
    BY DEF F
  <1> QED
    BY <1>9, <1>10, <1>11, <1>12 DEF Holds, F

-------------------------------------------------------------------------------
(* The steps of an interface task.                                           *)

\* Operators that look at if_task only.
LEMMA SameTasks ==
    ASSUME UNCHANGED if_task
    PROVE  /\ RunningNodes' = RunningNodes
           /\ \A n : Running(n)' = Running(n) /\ FreshOnes(n)' = FreshOnes(n)
  BY DEF RunningNodes, FreshOnes, Running

\* While something is under way every record that is listed is a current one.
LEMMA BusyIsCurrent ==
    ASSUME AllWell, Busy, NEW n \in Nodes, NEW r \in Listed(n)
    PROVE  Current(n, r)
  BY DEF AllWell, ListOK

\* A step of the interface tasks leaves the list of the Behaviour alone: it is
\* enough that what was current is current.
LEMMA ListKept ==
    ASSUME AllWell, UNCHANGED <<if_task, discovered_nodes>>, NEW n \in Nodes,
           \A r \in Listed(n) : Current(n, r)'
    PROVE  ListOK(n)'
  <1>1. Listed(n)' = Listed(n) /\ \A m : Running(m)' = Running(m)
    BY DEF Listed, Running
  <1>2. \A r \in Listed(n) : r.peer # n /\ Running(r.peer) /\ discovered_nodes'[n][r] # 0
    BY DEF AllWell, ListOK
  <1> QED
    BY <1>1, <1>2 DEF ListOK

LEMMA QueryTickWell ==
    ASSUME TypeOK, AllWell, NEW n \in Nodes, QueryTick(n)
    PROVE  AllWell'
  <1> DEFINE probe == NextProbe(probe_state[n])
  <1>1. /\ send_buffer' = [send_buffer EXCEPT ![n] = Append(@, Query)]
        /\ probe_state' = [probe_state EXCEPT ![n] = probe]
        /\ timeout' = [timeout EXCEPT ![n] = probe.interval]
        /\ Running(n)
        /\ UNCHANGED <<if_task, discovered, query_response, discovered_nodes, closest_expiration,
                       pending_events, woken, listen_addresses, inbox, known, faults>>
    BY DEF QueryTick, reset_timer, nodeVars
  <1>2. probe.interval <= query_interval /\ (probe.probing \/ probe.interval = query_interval)
    <2>1. /\ probe_state[n] \in Probes
          /\ probe_state[n].probing \/ probe_state[n].interval = query_interval
      BY DEF TypeOK, AllWell, TaskOK
    <2> QED
      BY <2>1, TimesAssumption DEF NextProbe, Probes
  <1> HIDE DEF probe
  <1>3. /\ RunningNodes' = RunningNodes
        /\ \A m : Running(m)' = Running(m) /\ FreshOnes(m)' = FreshOnes(m) /\ Listed(m)' = Listed(m)
    BY <1>1, SameTasks DEF Listed
  <1>4. ASSUME NEW m \in Nodes PROVE TaskOK(m)'
    <2>1. TaskOK(m)
      BY DEF AllWell
    <2>2. send_buffer'[m] \in Seq({Query, Answer(m)})
      <3>1. send_buffer'[m] = IF m = n THEN Append(send_buffer[m], Query) ELSE send_buffer[m]
        BY <1>1 DEF TypeOK
      <3> QED
        BY <2>1, <3>1 DEF TaskOK
    <2>3. /\ timeout'[m] <= query_interval
          /\ probe_state'[m].probing \/ probe_state'[m].interval = query_interval
      <3>1. /\ timeout'[m] = IF m = n THEN probe.interval ELSE timeout[m]
            /\ probe_state'[m] = IF m = n THEN probe ELSE probe_state[m]
        BY <1>1 DEF TypeOK
      <3> QED
        BY <1>2, <2>1, <3>1 DEF TaskOK
    <2>4. ~Running(m) => send_buffer'[m] = send_buffer[m]
      BY <1>1 DEF TypeOK
    <2> QED
      BY <1>1, <1>3, <2>1, <2>2, <2>3, <2>4 DEF TaskOK
  <1>5. Holds(send_buffer'[n], Query)
    <2>1. send_buffer[n] \in Seq({Query, Answer(n)}) /\ send_buffer'[n] = Append(send_buffer[n], Query)
      BY <1>1 DEF AllWell, TaskOK, TypeOK
    <2> QED
      BY <2>1, HoldsAppend
  <1>6. \A m, r : Current(m, r)'
    BY <1>5 DEF Current, Underway
  <1>7. \A m \in Nodes : ListOK(m)'
    BY <1>1, <1>6, ListKept
  <1>8. \A m \in Nodes : NothingExpired(m)'
    BY <1>1 DEF AllWell, NothingExpired
  <1> QED
    BY <1>4, <1>7, <1>8 DEF AllWell

LEMMA SendWell ==
    ASSUME TypeOK, AllWell, NEW n \in Nodes, Send(n)
    PROVE  AllWell'
  <1> DEFINE p == Head(send_buffer[n])
  <1>1. /\ send_buffer' = [send_buffer EXCEPT ![n] = Tail(@)]
        /\ inbox' = [m \in Nodes |-> IF Running(m) THEN Append(inbox[m], p) ELSE inbox[m]]
        /\ Running(n) /\ send_buffer[n] # <<>>
        /\ UNCHANGED <<if_task, timeout, probe_state, discovered, query_response, discovered_nodes,
                       closest_expiration, pending_events, woken, listen_addresses, known, faults>>
    BY DEF Send, nodeVars
  <1>2. /\ RunningNodes' = RunningNodes
        /\ \A m : Running(m)' = Running(m) /\ FreshOnes(m)' = FreshOnes(m) /\ Listed(m)' = Listed(m)
    BY <1>1, SameTasks DEF Listed
  <1>3. send_buffer[n] \in Seq({Query, Answer(n)}) /\ p \in {Query, Answer(n)}
    <2>1. send_buffer[n] \in Seq({Query, Answer(n)})
      BY DEF AllWell, TaskOK
    <2> QED
      BY <1>1, <2>1
  <1> HIDE DEF p
  <1>4. ASSUME NEW m \in Nodes PROVE TaskOK(m)'
    <2>1. TaskOK(m)
      BY DEF AllWell
    <2>2. send_buffer'[m] \in Seq({Query, Answer(m)})
      <3>1. send_buffer'[m] = IF m = n THEN Tail(send_buffer[m]) ELSE send_buffer[m]
        BY <1>1 DEF TypeOK
      <3> QED
        BY <1>1, <2>1, <3>1 DEF TaskOK
    <2>3. inbox'[m] \in Seq({Query} \cup {Answer(k) : k \in RunningNodes})
      <3>1. n \in RunningNodes
        BY <1>1 DEF RunningNodes
      <3>2. p \in {Query} \cup {Answer(k) : k \in RunningNodes}
        BY <1>3, <3>1
      <3>3. inbox'[m] = IF Running(m) THEN Append(inbox[m], p) ELSE inbox[m]
        BY <1>1
      <3> QED
        BY <2>1, <3>2, <3>3 DEF TaskOK
    <2>4. ~Running(m) => send_buffer'[m] = send_buffer[m] /\ inbox'[m] = inbox[m]
      BY <1>1 DEF TypeOK
    <2> QED
      BY <1>1, <1>2, <2>1, <2>2, <2>3, <2>4 DEF TaskOK
  <1>5. \A m \in Nodes : \A x : Holds(inbox[m], x) => Holds(inbox'[m], x)
    <2> SUFFICES ASSUME NEW m \in Nodes, NEW x, Holds(inbox[m], x) PROVE Holds(inbox'[m], x)
      OBVIOUS
    <2>1. inbox[m] \in Seq(Packets) /\ p \in Packets
      <3>1. send_buffer[n] \in Seq(Packets) /\ inbox[m] \in Seq(Packets)
        BY DEF TypeOK
      <3> QED
        BY <1>1, <3>1 DEF p
    <2>2. inbox'[m] = Append(inbox[m], p) \/ inbox'[m] = inbox[m]
      BY <1>1
    <2>3. Holds(Append(inbox[m], p), x)
      BY <2>1, HoldsAppend
    <2> QED
      BY <2>2, <2>3
  <1>6. \A m \in Nodes : Running(m) => Holds(inbox'[m], p)
    <2> SUFFICES ASSUME NEW m \in Nodes, Running(m) PROVE Holds(inbox'[m], p)
      OBVIOUS
    <2>1. inbox[m] \in Seq(Packets) /\ p \in Packets /\ inbox'[m] = Append(inbox[m], p)
      <3>1. send_buffer[n] \in Seq(Packets) /\ inbox[m] \in Seq(Packets)
        BY DEF TypeOK
      <3> QED
        BY <1>1, <3>1 DEF p
    <2> QED
      BY <2>1, HoldsAppend
  <1>7. \A m \in Nodes : \A x : Holds(send_buffer[m], x) => Holds(send_buffer'[m], x) \/ (m = n /\ x = p)
    <2> SUFFICES ASSUME NEW m \in Nodes, NEW x, Holds(send_buffer[m], x)
                 PROVE  Holds(send_buffer'[m], x) \/ (m = n /\ x = p)
      OBVIOUS
    <2>1. send_buffer'[m] = IF m = n THEN Tail(send_buffer[m]) ELSE send_buffer[m]
      BY <1>1 DEF TypeOK
    <2> QED
      BY <1>1, <1>3, <2>1, HoldsTail DEF p
  <1>8. ASSUME NEW m \in Nodes, NEW r \in Listed(m) PROVE Current(m, r)'
    <2>1. Busy
      BY <1>1 DEF Busy
    <2>2. Current(m, r)
      BY <2>1, BusyIsCurrent
    <2>3. Running(r.peer) /\ r.peer \in Nodes /\ Running(m)
      BY DEF AllWell, ListOK, TaskOK, Listed, Records
    <2>4. CASE Underway(m, r)
      <3>1. CASE \E k \in Nodes : Holds(send_buffer[k], Query)
        <4>1. PICK k \in Nodes : Holds(send_buffer[k], Query)
          BY <3>1
        <4>2. Holds(send_buffer'[k], Query) \/ Query = p
          BY <1>7, <4>1
        <4>3. Query = p => Holds(inbox'[r.peer], Query)
          BY <1>6, <2>3
        <4> QED
          BY <4>2, <4>3 DEF Current, Underway
      <3>2. CASE Holds(inbox[r.peer], Query)
        BY <1>5, <2>3, <3>2 DEF Current, Underway
      <3>3. CASE Holds(send_buffer[r.peer], Answer(r.peer))
        <4>1. Holds(send_buffer'[r.peer], Answer(r.peer)) \/ Answer(r.peer) = p
          BY <1>7, <2>3, <3>3
        <4>2. Answer(r.peer) = p => Holds(inbox'[m], Answer(r.peer))
          BY <1>6, <2>3
        <4> QED
          BY <4>1, <4>2 DEF Current, Underway
      <3>4. CASE Holds(inbox[m], Answer(r.peer))
        BY <1>5, <3>4 DEF Current, Underway
      <3>5. CASE Holds(discovered[m], Fresh(r))
        BY <1>1, <3>5 DEF Current, Underway
      <3> QED
        BY <2>4, <3>1, <3>2, <3>3, <3>4, <3>5 DEF Underway
    <2> QED
      BY <1>1, <2>2, <2>4 DEF Current
  <1>9. \A m \in Nodes : ListOK(m)'
    BY <1>1, <1>8, ListKept
  <1>10. \A m \in Nodes : NothingExpired(m)'
    BY <1>1 DEF AllWell, NothingExpired
  <1> QED
    BY <1>4, <1>9, <1>10 DEF AllWell

LEMMA ReturnWell ==
    ASSUME TypeOK, AllWell, NEW n \in Nodes, Return(n)
    PROVE  AllWell'
  <1> DEFINE d == Head(discovered[n])
  <1>1. /\ query_response' = [query_response EXCEPT ![n] = Append(@, d)]
        /\ discovered' = [discovered EXCEPT ![n] = Tail(@)]
        /\ woken' = [woken EXCEPT ![n] = TRUE]
        /\ Running(n) /\ discovered[n] # <<>>
        /\ UNCHANGED <<if_task, timeout, probe_state, send_buffer, discovered_nodes,
                       closest_expiration, pending_events, listen_addresses, inbox, known, faults>>
    BY DEF Return, nodeVars
  <1>2. /\ RunningNodes' = RunningNodes
        /\ \A m : Running(m)' = Running(m) /\ FreshOnes(m)' = FreshOnes(m) /\ Listed(m)' = Listed(m)
    BY <1>1, SameTasks DEF Listed
  <1>3. /\ discovered[n] \in Seq(FreshOnes(n)) /\ query_response[n] \in Seq(FreshOnes(n))
        /\ d \in FreshOnes(n)
    <2>1. discovered[n] \in Seq(FreshOnes(n)) /\ query_response[n] \in Seq(FreshOnes(n))
      BY DEF AllWell, TaskOK
    <2> QED
      BY <1>1, <2>1
  <1> HIDE DEF d
  <1>4. ASSUME NEW m \in Nodes PROVE TaskOK(m)'
    <2>1. TaskOK(m)
      BY DEF AllWell
    <2>2. CASE m = n
      <3>1. /\ discovered'[m] = Tail(discovered[m])
            /\ query_response'[m] = Append(query_response[m], d)
            /\ woken'[m] = TRUE
        BY <1>1, <2>2 DEF TypeOK
      <3>2. discovered'[m] \in Seq(FreshOnes(m)) /\ query_response'[m] \in Seq(FreshOnes(m))
        BY <1>1, <1>3, <2>2, <3>1
      <3> QED
        BY <1>1, <1>2, <2>1, <2>2, <3>1, <3>2 DEF TaskOK
    <2>3. CASE m # n
      <3>1. /\ discovered'[m] = discovered[m] /\ query_response'[m] = query_response[m]
            /\ woken'[m] = woken[m]
        BY <1>1, <2>3 DEF TypeOK
      <3> QED
        BY <1>1, <1>2, <2>1, <3>1 DEF TaskOK
    <2> QED
      BY <2>2, <2>3
  <1>5. ASSUME NEW m \in Nodes, NEW r \in Listed(m) PROVE Current(m, r)'
    <2>1. Current(m, r)
      <3>1. Busy
        BY <1>1 DEF Busy
      <3> QED
        BY <3>1, BusyIsCurrent
    <2>2. Holds(discovered[m], Fresh(r)) =>
            Holds(discovered'[m], Fresh(r)) \/ Holds(query_response'[m], Fresh(r))
      <3>1. CASE m = n
        <4>1. /\ discovered'[m] = Tail(discovered[m])
              /\ query_response'[m] = Append(query_response[m], d)
          BY <1>1, <3>1 DEF TypeOK
        <4>2. Holds(discovered[m], Fresh(r)) => Fresh(r) = d \/ Holds(discovered'[m], Fresh(r))
          BY <1>1, <1>3, <3>1, <4>1, HoldsTail DEF d
        <4>3. Fresh(r) = d => Holds(query_response'[m], Fresh(r))
          BY <1>3, <3>1, <4>1, HoldsAppend
        <4> QED
          BY <4>2, <4>3
      <3>2. CASE m # n
        BY <1>1, <3>2 DEF TypeOK
      <3> QED
        BY <3>1, <3>2
    <2>3. Holds(query_response[m], Fresh(r)) => Holds(query_response'[m], Fresh(r))
      <3>1. CASE m = n
        <4>1. query_response'[m] = Append(query_response[m], d)
          BY <1>1, <3>1 DEF TypeOK
        <4> QED
          BY <1>3, <3>1, <4>1, HoldsAppend
      <3>2. CASE m # n
        BY <1>1, <3>2 DEF TypeOK
      <3> QED
        BY <3>1, <3>2
    <2> QED
      BY <1>1, <2>1, <2>2, <2>3 DEF Current, Underway
  <1>6. \A m \in Nodes : ListOK(m)'
    BY <1>1, <1>5, ListKept
  <1>7. \A m \in Nodes : NothingExpired(m)'
    BY <1>1 DEF AllWell, NothingExpired
  <1> QED
    BY <1>4, <1>6, <1>7 DEF AllWell

\* A query is answered with all the addresses of the node.
LEMMA ReceiveQueryWell ==
    ASSUME TypeOK, AllWell, NEW n \in Nodes, Receive(n), Head(inbox[n]).type = "query"
    PROVE  AllWell'
  <1>1. /\ inbox' = [inbox EXCEPT ![n] = Tail(@)]
        /\ send_buffer' = [send_buffer EXCEPT ![n] = Append(@, Answer(n))]
        /\ Running(n) /\ inbox[n] # <<>>
        /\ UNCHANGED <<if_task, timeout, probe_state, discovered, query_response, discovered_nodes,
                       closest_expiration, pending_events, woken, listen_addresses, known, faults>>
    <2>1. listen_addresses[n] = Addrs
      BY DEF AllWell, TaskOK
    <2> QED
      BY <2>1 DEF Receive, nodeVars, Answer
  <1>2. /\ RunningNodes' = RunningNodes
        /\ \A m : Running(m)' = Running(m) /\ FreshOnes(m)' = FreshOnes(m) /\ Listed(m)' = Listed(m)
    BY <1>1, SameTasks DEF Listed
  <1>3. /\ inbox[n] \in Seq({Query} \cup {Answer(k) : k \in RunningNodes})
        /\ send_buffer[n] \in Seq({Query, Answer(n)})
    BY DEF AllWell, TaskOK
  <1>4. \A m : Answer(m) # Head(inbox[n])
    BY DEF Answer, Response
  <1>5. ASSUME NEW m \in Nodes PROVE TaskOK(m)'
    <2>1. TaskOK(m)
      BY DEF AllWell
    <2>2. CASE m = n
      <3>1. inbox'[m] = Tail(inbox[m]) /\ send_buffer'[m] = Append(send_buffer[m], Answer(m))
        BY <1>1, <2>2 DEF TypeOK
      <3>2. /\ inbox'[m] \in Seq({Query} \cup {Answer(k) : k \in RunningNodes})
            /\ send_buffer'[m] \in Seq({Query, Answer(m)})
        BY <1>1, <1>3, <2>2, <3>1
      <3> QED
        BY <1>1, <1>2, <2>1, <2>2, <3>2 DEF TaskOK
    <2>3. CASE m # n
      <3>1. inbox'[m] = inbox[m] /\ send_buffer'[m] = send_buffer[m]
        BY <1>1, <2>3 DEF TypeOK
      <3> QED
        BY <1>1, <1>2, <2>1, <3>1 DEF TaskOK
    <2> QED
      BY <2>2, <2>3
  <1>6. \A m \in Nodes : \A x : Holds(send_buffer[m], x) => Holds(send_buffer'[m], x)
    <2> SUFFICES ASSUME NEW m \in Nodes, NEW x, Holds(send_buffer[m], x)
                 PROVE  Holds(send_buffer'[m], x)
      OBVIOUS
    <2>1. send_buffer'[m] = IF m = n THEN Append(send_buffer[n], Answer(n)) ELSE send_buffer[m]
      BY <1>1 DEF TypeOK
    <2> QED
      BY <1>3, <2>1, HoldsAppend
  <1>7. Holds(send_buffer'[n], Answer(n))
    <2>1. send_buffer'[n] = Append(send_buffer[n], Answer(n))
      BY <1>1 DEF TypeOK
    <2> QED
      BY <1>3, <2>1, HoldsAppend
  <1>8. \A m \in Nodes : \A x : Holds(inbox[m], x) =>
            Holds(inbox'[m], x) \/ (m = n /\ x = Head(inbox[n]))
    <2> SUFFICES ASSUME NEW m \in Nodes, NEW x, Holds(inbox[m], x)
                 PROVE  Holds(inbox'[m], x) \/ (m = n /\ x = Head(inbox[n]))
      OBVIOUS
    <2>1. inbox'[m] = IF m = n THEN Tail(inbox[m]) ELSE inbox[m]
      BY <1>1 DEF TypeOK
    <2> QED
      BY <1>1, <1>3, <2>1, HoldsTail
  <1>9. ASSUME NEW m \in Nodes, NEW r \in Listed(m) PROVE Current(m, r)'
    <2>1. Current(m, r)
      <3>1. Busy
        BY <1>1 DEF Busy
      <3> QED
        BY <3>1, BusyIsCurrent
    <2>2. r.peer \in Nodes
      BY DEF Listed, Records
    <2>3. CASE Underway(m, r)
      <3>1. CASE Holds(inbox[r.peer], Query)
        <4>1. Holds(inbox'[r.peer], Query) \/ r.peer = n
          BY <1>8, <2>2, <3>1
        <4> QED
          BY <1>7, <4>1 DEF Current, Underway
      <3>2. CASE Holds(inbox[m], Answer(r.peer))
        BY <1>4, <1>8, <3>2 DEF Current, Underway
      <3> QED
        BY <1>1, <1>6, <2>2, <2>3, <3>1, <3>2 DEF Current, Underway
    <2> QED
      BY <1>1, <2>1, <2>3 DEF Current
  <1>10. \A m \in Nodes : ListOK(m)'
    BY <1>1, <1>9, ListKept
  <1>11. \A m \in Nodes : NothingExpired(m)'
    BY <1>1 DEF AllWell, NothingExpired
  <1> QED
    BY <1>5, <1>10, <1>11 DEF AllWell

\* An answer brings the addresses of its node, and the timer starts anew.
LEMMA ReceiveAnswerWell ==
    ASSUME TypeOK, AllWell, NEW n \in Nodes, Receive(n), Head(inbox[n]).type = "response"
    PROVE  AllWell'
  <1> DEFINE p == Head(inbox[n])
             probe == [probing |-> FALSE, interval |-> query_interval]
  <1>1. /\ inbox' = [inbox EXCEPT ![n] = Tail(@)]
        /\ \E s \in extract_discovered(n, p) : discovered' = [discovered EXCEPT ![n] = @ \o s]
        /\ \/ UNCHANGED <<probe_state, timeout>>
           \/ /\ probe_state' = [probe_state EXCEPT ![n] = probe]
              /\ timeout' = [timeout EXCEPT ![n] = query_interval]
        /\ Running(n) /\ inbox[n] # <<>>
        /\ UNCHANGED <<if_task, send_buffer, query_response, discovered_nodes,
                       closest_expiration, pending_events, woken, listen_addresses, known, faults>>
    BY DEF Receive, nodeVars, reset_timer
  <1>2. /\ RunningNodes' = RunningNodes
        /\ \A m : Running(m)' = Running(m) /\ FreshOnes(m)' = FreshOnes(m) /\ Listed(m)' = Listed(m)
    BY <1>1, SameTasks DEF Listed
  <1>3. /\ inbox[n] \in Seq({Query} \cup {Answer(k) : k \in RunningNodes})
        /\ discovered[n] \in Seq(FreshOnes(n))
    BY DEF AllWell, TaskOK
  <1>4. PICK k \in RunningNodes : p = Answer(k)
    <2>1. p \in {Query} \cup {Answer(k) : k \in RunningNodes}
      BY <1>1, <1>3
    <2>2. p # Query
      BY DEF Query
    <2> QED
      BY <2>1, <2>2
  <1>5. PICK s \in extract_discovered(n, Answer(k)) : discovered' = [discovered EXCEPT ![n] = @ \o s]
    BY <1>1, <1>4
  <1>6. k \in Nodes /\ Running(k)
    BY DEF RunningNodes
  <1>7. s \in Seq(FreshOnes(n))
    <2>1. CASE k = n
      BY <1>5, <2>1 DEF extract_discovered, Answer, Response
    <2>2. CASE k # n
      <3>1. s \in Seq({Fresh([peer |-> k, addr |-> a]) : a \in Addrs})
        BY <1>6, <2>2, AnswerBringsAll
      <3>2. \A a \in Addrs : [peer |-> k, addr |-> a] \in {r \in Records : r.peer # n /\ Running(r.peer)}
        BY <1>6, <2>2 DEF Records
      <3>3. {Fresh([peer |-> k, addr |-> a]) : a \in Addrs} \subseteq FreshOnes(n)
        BY <3>2 DEF FreshOnes
      <3> QED
        BY <3>1, <3>3, SeqWidens
    <2> QED
      BY <2>1, <2>2
  <1>8. p # Query
    BY <1>4 DEF Query, Answer, Response
  <1> HIDE DEF p
  <1>9. ASSUME NEW m \in Nodes PROVE TaskOK(m)'
    <2>1. TaskOK(m)
      BY DEF AllWell
    <2>2. /\ timeout'[m] <= query_interval
          /\ probe_state'[m].probing \/ probe_state'[m].interval = query_interval
      <3>1. /\ timeout'[m] = query_interval \/ timeout'[m] = timeout[m]
            /\ probe_state'[m] = probe \/ probe_state'[m] = probe_state[m]
        BY <1>1 DEF TypeOK
      <3> QED
        BY <2>1, <3>1, TimesAssumption DEF TaskOK
    <2> HIDE DEF probe
    <2>3. CASE m = n
      <3>1. inbox'[m] = Tail(inbox[m]) /\ discovered'[m] = discovered[m] \o s
        BY <1>1, <1>5, <2>3 DEF TypeOK
      <3>2. /\ inbox'[m] \in Seq({Query} \cup {Answer(j) : j \in RunningNodes})
            /\ discovered'[m] \in Seq(FreshOnes(m))
        <4>1. inbox'[m] \in Seq({Query} \cup {Answer(j) : j \in RunningNodes})
          BY <1>1, <1>3, <2>3, <3>1
        <4>2. discovered'[m] \in Seq(FreshOnes(m))
          BY <1>3, <1>7, <2>3, <3>1
        <4> QED
          BY <4>1, <4>2
      <3> QED
        BY <1>1, <1>2, <2>1, <2>2, <2>3, <3>2 DEF TaskOK
    <2>4. CASE m # n
      <3>1. inbox'[m] = inbox[m] /\ discovered'[m] = discovered[m]
        BY <1>1, <1>5, <2>4 DEF TypeOK
      <3> QED
        BY <1>1, <1>2, <2>1, <2>2, <3>1 DEF TaskOK
    <2> QED
      BY <2>3, <2>4
  <1>10. \A m \in Nodes : \A x : Holds(inbox[m], x) => Holds(inbox'[m], x) \/ (m = n /\ x = p)
    <2> SUFFICES ASSUME NEW m \in Nodes, NEW x, Holds(inbox[m], x)
                 PROVE  Holds(inbox'[m], x) \/ (m = n /\ x = p)
      OBVIOUS
    <2>1. inbox'[m] = IF m = n THEN Tail(inbox[m]) ELSE inbox[m]
      BY <1>1 DEF TypeOK
    <2> QED
      BY <1>1, <1>3, <2>1, HoldsTail DEF p
  <1>11. \A m \in Nodes : \A x :
            Holds(discovered[m], x) \/ (m = n /\ Holds(s, x)) => Holds(discovered'[m], x)
    <2> SUFFICES ASSUME NEW m \in Nodes, NEW x, Holds(discovered[m], x) \/ (m = n /\ Holds(s, x))
                 PROVE  Holds(discovered'[m], x)
      OBVIOUS
    <2>1. discovered'[m] = IF m = n THEN discovered[m] \o s ELSE discovered[m]
      BY <1>5 DEF TypeOK
    <2> QED
      BY <1>3, <1>7, <2>1, HoldsConcat
  <1>12. ASSUME NEW m \in Nodes, NEW r \in Listed(m) PROVE Current(m, r)'
    <2>1. Current(m, r)
      <3>1. Busy
        BY <1>1 DEF Busy
      <3> QED
        BY <3>1, BusyIsCurrent
    <2>2. r \in Records /\ r.peer \in Nodes /\ r.peer # m
      BY DEF AllWell, ListOK, Listed, Records
    <2>3. CASE Underway(m, r)
      <3>1. CASE Holds(inbox[r.peer], Query)
        BY <1>8, <1>10, <2>2, <3>1 DEF Current, Underway
      <3>2. CASE Holds(inbox[m], Answer(r.peer))
        <4>1. CASE m = n /\ Answer(r.peer) = p
          <5>1. r.peer = k
            BY <1>4, <4>1 DEF Answer, Response
          <5>2. r.addr \in Addrs /\ r = [peer |-> k, addr |-> r.addr]
            BY <2>2, <5>1 DEF Records
          <5>3. Holds(s, Fresh(r))
            BY <1>6, <2>2, <4>1, <5>1, <5>2, AnswerBringsAll
          <5> QED
            BY <1>11, <4>1, <5>3 DEF Current, Underway
        <4>2. CASE ~(m = n /\ Answer(r.peer) = p)
          BY <1>10, <3>2, <4>2 DEF Current, Underway
        <4> QED
          BY <4>1, <4>2
      <3>3. CASE Holds(discovered[m], Fresh(r))
        BY <1>11, <3>3 DEF Current, Underway
      <3> QED
        BY <1>1, <2>3, <3>1, <3>2, <3>3 DEF Current, Underway
    <2> QED
      BY <1>1, <2>1, <2>3 DEF Current
  <1>13. \A m \in Nodes : ListOK(m)'
    BY <1>1, <1>12, ListKept
  <1>14. \A m \in Nodes : NothingExpired(m)'
    BY <1>1 DEF AllWell, NothingExpired
  <1> QED
    BY <1>9, <1>13, <1>14 DEF AllWell

-------------------------------------------------------------------------------
(* The steps of the Behaviour and of time.                                   *)

\* A step that changes nothing but the events that are pending, or the rest.
LEMMA BusyUnchanged ==
    ASSUME UNCHANGED <<send_buffer, inbox, discovered>>
    PROVE  Busy' = Busy
  BY DEF Busy

\* An event that is returned leaves the others.
LEMMA EmitWell ==
    ASSUME TypeOK, AllWell, NEW n \in Nodes, Emit(n)
    PROVE  AllWell'
  <1>1. /\ pending_events' = [pending_events EXCEPT ![n] = Tail(@)]
        /\ pending_events[n] # <<>>
        /\ UNCHANGED <<if_task, timeout, probe_state, send_buffer, discovered, query_response,
                       discovered_nodes, closest_expiration, woken, listen_addresses, inbox, faults>>
    BY DEF Emit, ifaceVars
  <1>2. /\ RunningNodes' = RunningNodes
        /\ \A m : Running(m)' = Running(m) /\ FreshOnes(m)' = FreshOnes(m) /\ Listed(m)' = Listed(m)
    BY <1>1, SameTasks DEF Listed
  <1>3. \A m \in Nodes : TaskOK(m)'
    BY <1>1, <1>2 DEF AllWell, TaskOK
  <1>4. \A m, r : Current(m, r)' = Current(m, r) /\ OnTime(m, r)' = OnTime(m, r)
    BY <1>1 DEF Current, Underway, OnTime
  <1>5. \A m \in Nodes : ListOK(m)'
    BY <1>1, <1>2, <1>4, BusyUnchanged DEF AllWell, ListOK
  <1>6. ASSUME NEW m \in Nodes PROVE NothingExpired(m)'
    <2>1. pending_events'[m] = IF m = n THEN Tail(pending_events[m]) ELSE pending_events[m]
      BY <1>1 DEF TypeOK
    <2>2. pending_events[m] \in Seq(Events) /\ NothingExpired(m)
      BY DEF TypeOK, AllWell
    <2>3. CASE m = n
      <3>1. /\ Len(pending_events[m]) >= 1 /\ Len(pending_events[m]) \in Nat
            /\ DOMAIN pending_events[m] = 1 .. Len(pending_events[m])
            /\ DOMAIN Tail(pending_events[m]) = 1 .. (Len(pending_events[m]) - 1)
        BY <1>1, <2>2, <2>3
      <3>2. \A i \in DOMAIN Tail(pending_events[m]) :
                i + 1 \in DOMAIN pending_events[m] /\ Tail(pending_events[m])[i] = pending_events[m][i + 1]
        BY <2>2, <3>1
      <3> QED
        BY <2>1, <2>2, <2>3, <3>2 DEF NothingExpired
    <2>4. CASE m # n
      BY <2>1, <2>2, <2>4 DEF NothingExpired
    <2> QED
      BY <2>3, <2>4
  <1> QED
    BY <1>3, <1>5, <1>6 DEF AllWell

\* A node that comes up has nothing in its list, and is in no other one.
LEMMA IfUpWell ==
    ASSUME TypeOK, AllWell, NEW n \in Nodes, IfUp(n)
    PROVE  AllWell'
  <1>1. /\ if_task[n] = "none"
        /\ if_task' = [if_task EXCEPT ![n] = "running"]
        /\ timeout' = [timeout EXCEPT ![n] = 0]
        /\ probe_state' = [probe_state EXCEPT ![n] =
                [probing |-> TRUE, interval |-> INITIAL_TIMEOUT_INTERVAL]]
        /\ send_buffer' = [send_buffer EXCEPT ![n] = <<>>]
        /\ discovered' = [discovered EXCEPT ![n] = <<>>]
        /\ woken' = [woken EXCEPT ![n] = TRUE]
        /\ UNCHANGED <<query_response, discovered_nodes, closest_expiration, pending_events,
                       listen_addresses, inbox, known, faults>>
    BY DEF IfUp, NewInterface, nodeVars
  <1>2. /\ ~Running(n)
        /\ send_buffer[n] = <<>> /\ discovered[n] = <<>>
        /\ query_response[n] = <<>> /\ inbox[n] = <<>> /\ Listed(n) = {}
    BY <1>1 DEF AllWell, TaskOK, Running
  <1>3. UNCHANGED <<send_buffer, discovered>>
    BY <1>1, <1>2 DEF TypeOK
  <1>4. /\ \A m \in Nodes : Running(m) => Running(m)'
        /\ \A m \in Nodes : m # n => Running(m)' = Running(m) /\ if_task'[m] = if_task[m]
        /\ Running(n)' /\ if_task'[n] = "running"
        /\ \A m \in Nodes : Listed(m)' = Listed(m)
    BY <1>1 DEF Running, Listed, TypeOK
  <1>5. /\ RunningNodes \subseteq RunningNodes'
        /\ \A m \in Nodes : FreshOnes(m) \subseteq FreshOnes(m)'
    BY <1>4 DEF RunningNodes, FreshOnes, Records
  <1>6. ASSUME NEW m \in Nodes PROVE TaskOK(m)'
    <2>1. TaskOK(m)
      BY DEF AllWell
    <2>2. /\ inbox[m] \in Seq(({Query} \cup {Answer(k) : k \in RunningNodes})')
          /\ discovered[m] \in Seq(FreshOnes(m)')
          /\ query_response[m] \in Seq(FreshOnes(m)')
      <3>1. ({Query} \cup {Answer(k) : k \in RunningNodes})
                \subseteq ({Query} \cup {Answer(k) : k \in RunningNodes})'
        BY <1>5
      <3> QED
        BY <1>5, <2>1, <3>1, SeqWidens DEF TaskOK
    <2>3. /\ timeout'[m] <= query_interval
          /\ probe_state'[m].probing \/ probe_state'[m].interval = query_interval
      BY <1>1, <2>1, TimesAssumption DEF TaskOK, TypeOK
    <2>4. woken[m] => woken'[m]
      BY <1>1 DEF TypeOK
    <2>5. if_task'[m] \in {"none", "running"}
      BY <1>4, <2>1 DEF TaskOK
    <2> QED
      BY <1>1, <1>3, <1>4, <2>1, <2>2, <2>3, <2>4, <2>5 DEF TaskOK
  <1>7. ASSUME NEW m \in Nodes PROVE ListOK(m)'
    <2>1. CASE m = n
      BY <1>2, <1>4, <2>1 DEF ListOK
    <2>2. CASE m # n
      <3>1. timeout'[m] = timeout[m]
        BY <1>1, <2>2 DEF TypeOK
      <3>2. \A r : Current(m, r)' = Current(m, r) /\ OnTime(m, r)' = OnTime(m, r)
        BY <1>1, <1>3, <3>1 DEF Current, Underway, OnTime
      <3>3. \A r \in Listed(m) : Running(r.peer)'
        BY <1>4 DEF AllWell, ListOK, Listed, Records
      <3>4. Busy' = Busy
        BY <1>1, <1>3, BusyUnchanged
      <3> QED
        BY <1>1, <1>4, <3>2, <3>3, <3>4 DEF AllWell, ListOK
    <2> QED
      BY <2>1, <2>2
  <1>8. \A m \in Nodes : NothingExpired(m)'
    BY <1>1 DEF AllWell, NothingExpired
  <1> QED
    BY <1>6, <1>7, <1>8 DEF AllWell

\* What the list becomes when only fresh records are in the channel.
LEMMA RefreshedFresh ==
    ASSUME TypeOK, AllWell, NEW n \in Nodes, NEW r \in Records
    PROVE  /\ r \in Arrived(n) => Refreshed(n)[r] = ttl /\ r.peer # n /\ Running(r.peer)
           /\ r \notin Arrived(n) => Refreshed(n)[r] = discovered_nodes[n][r]
           /\ Holds(query_response[n], Fresh(r)) => r \in Arrived(n)
  <1> DEFINE q == query_response[n]
             times == Lefts(n, r) \cup ({discovered_nodes[n][r]} \ {None})
  <1>1. q \in Seq(FreshOnes(n)) /\ discovered_nodes[n][r] \in 0 .. ttl \cup {None}
    <2>1. TaskOK(n) /\ discovered_nodes[n] \in [Records -> 0 .. ttl \cup {None}]
      BY DEF TypeOK, AllWell
    <2> QED
      BY <2>1 DEF TaskOK
  <1>2. \A i \in DOMAIN q : q[i] \in FreshOnes(n)
    BY <1>1
  <1>3. \A i \in DOMAIN q : q[i].left = ttl /\ q[i].record.peer # n /\ Running(q[i].record.peer)
    BY <1>2 DEF FreshOnes, Fresh
  <1>4. Refreshed(n)[r] = IF times = {} THEN None ELSE CHOOSE t \in times : \A u \in times : t >= u
    BY DEF Refreshed
  <1>5. CASE r \in Arrived(n)
    <2>1. PICK i \in DOMAIN q : q[i].record = r
      BY <1>5 DEF Arrived
    <2>2. Lefts(n, r) = {ttl}
      BY <1>3, <2>1 DEF Lefts
    <2>3. times \in SUBSET (0 .. ttl) /\ ttl \in times /\ \A u \in times : ttl >= u
      BY <1>1, <2>2, TimesAssumption
    <2>4. \A t \in times : (\A u \in times : t >= u) => t = ttl
      BY <2>3, TimesAssumption
    <2> HIDE DEF times
    <2>5. Refreshed(n)[r] = ttl
      BY <1>4, <2>3, <2>4
    <2> QED
      BY <1>3, <1>5, <2>1, <2>5
  <1>6. CASE r \notin Arrived(n)
    <2>1. Lefts(n, r) = {}
      BY <1>6 DEF Lefts, Arrived
    <2>2. Refreshed(n)[r] = discovered_nodes[n][r]
      <3>1. CASE discovered_nodes[n][r] = None
        BY <1>4, <2>1, <3>1
      <3>2. CASE discovered_nodes[n][r] # None
        <4>1. times = {discovered_nodes[n][r]}
          BY <2>1, <3>2
        <4>2. discovered_nodes[n][r] >= discovered_nodes[n][r]
          BY <1>1, <3>2, TimesAssumption
        <4> HIDE DEF times
        <4> QED
          BY <1>4, <4>1, <4>2
      <3> QED
        BY <3>1, <3>2
    <2> QED
      BY <1>6, <2>2 DEF Holds, Arrived, Fresh
  <1> QED
    BY <1>5, <1>6 DEF Holds, Arrived, Fresh

\* Reading the channel refreshes; nothing expires.
LEMMA BehaviourPollWell ==
    ASSUME TypeOK, AllWell, NEW n \in Nodes, BehaviourPoll(n)
    PROVE  AllWell'
  <1> DEFINE nodes   == Refreshed(n)
             new     == NewNodes(n)
             expired == {r \in Records : nodes[r] # None /\ nodes[r] = 0}
  <1>1. expired = {}
    <2> SUFFICES ASSUME NEW r \in Records, nodes[r] # None PROVE nodes[r] # 0
      OBVIOUS
    <2>1. CASE r \in Arrived(n)
      BY <2>1, RefreshedFresh, TimesAssumption
    <2>2. CASE r \notin Arrived(n)
      <3>1. nodes[r] = discovered_nodes[n][r]
        BY <2>2, RefreshedFresh
      <3>2. r \in Listed(n)
        BY <3>1 DEF Listed
      <3> QED
        BY <3>1, <3>2 DEF AllWell, ListOK
    <2> QED
      BY <2>1, <2>2
  <1>2. /\ woken[n] /\ pending_events[n] = <<>>
        /\ query_response' = [query_response EXCEPT ![n] = <<>>]
        /\ discovered_nodes' = [discovered_nodes EXCEPT ![n] = nodes]
        /\ \/ pending_events' = [pending_events EXCEPT ![n] =
                    <<Event("Discovered", new), Event("NewExternalAddrOfPeer", new)>>]
           \/ UNCHANGED pending_events
        /\ UNCHANGED woken \/ woken' = [woken EXCEPT ![n] = FALSE]
        /\ UNCHANGED <<if_task, timeout, probe_state, send_buffer, discovered, listen_addresses,
                       inbox, known, faults>>
    BY <1>1 DEF BehaviourPoll, ifaceVars
  <1> HIDE DEF nodes, new, expired
  <1>3. /\ RunningNodes' = RunningNodes
        /\ \A m : Running(m)' = Running(m) /\ FreshOnes(m)' = FreshOnes(m)
    BY <1>2, SameTasks
  <1>4. ASSUME NEW m \in Nodes, m # n
        PROVE  /\ query_response'[m] = query_response[m]
               /\ discovered_nodes'[m] = discovered_nodes[m]
               /\ pending_events'[m] = pending_events[m]
               /\ woken'[m] = woken[m]
    BY <1>2, <1>4 DEF TypeOK
  <1>5. query_response'[n] = <<>> /\ discovered_nodes'[n] = nodes
    BY <1>2 DEF TypeOK
  <1>6. Arrived(n) # {} => Running(n)
    <2>1. TaskOK(n)
      BY DEF AllWell
    <2> QED
      BY <2>1 DEF TaskOK, Arrived
  <1>7. \A r \in Listed(n)' : r \in Records /\ (r \in Arrived(n) \/ r \in Listed(n))
    BY <1>5, RefreshedFresh DEF Listed, nodes
  <1>8. ASSUME NEW m \in Nodes PROVE TaskOK(m)'
    <2>1. TaskOK(m)
      BY DEF AllWell
    <2>2. CASE m = n
      <3>1. ~Running(m) => Listed(m)' = {}
        BY <1>6, <1>7, <2>1, <2>2 DEF TaskOK
      <3> QED
        BY <1>2, <1>3, <1>5, <2>1, <2>2, <3>1 DEF TaskOK
    <2>3. CASE m # n
      <3>1. Listed(m)' = Listed(m)
        BY <1>4, <2>3 DEF Listed
      <3> QED
        BY <1>2, <1>3, <1>4, <2>1, <2>3, <3>1 DEF TaskOK
    <2> QED
      BY <2>2, <2>3
  <1>9. Busy' = Busy
    BY <1>2, BusyUnchanged
  <1>10. \A m, r : Underway(m, r)' = Underway(m, r)
    BY <1>2 DEF Underway
  <1>11. ASSUME NEW m \in Nodes PROVE ListOK(m)'
    <2>1. CASE m # n
      <3>1. \A r : Current(m, r)' = Current(m, r) /\ OnTime(m, r)' = OnTime(m, r)
        BY <1>2, <1>4, <1>10, <2>1 DEF Current, OnTime
      <3>2. Listed(m)' = Listed(m) /\ discovered_nodes'[m] = discovered_nodes[m]
        BY <1>4, <2>1 DEF Listed
      <3> QED
        BY <1>3, <1>9, <3>1, <3>2 DEF AllWell, ListOK
    <2>2. CASE m = n
      <3> SUFFICES ASSUME NEW r \in Listed(n)'
                   PROVE  /\ r.peer # n /\ Running(r.peer)
                          /\ nodes[r] # 0
                          /\ Current(n, r)' \/ (~Busy /\ OnTime(n, r)')
        BY <1>3, <1>5, <1>9, <2>2 DEF ListOK
      <3>1. r \in Records /\ (r \in Arrived(n) \/ r \in Listed(n))
        BY <1>7
      <3>2. CASE r \in Arrived(n)
        <4>1. nodes[r] = ttl /\ r.peer # n /\ Running(r.peer)
          BY <3>1, <3>2, RefreshedFresh DEF nodes
        <4> QED
          BY <1>5, <4>1, TimesAssumption DEF Current
      <3>3. CASE r \notin Arrived(n)
        <4>1. /\ nodes[r] = discovered_nodes[n][r]
              /\ ~Holds(query_response[n], Fresh(r))
          BY <3>1, <3>3, RefreshedFresh DEF nodes
        <4>2. /\ r.peer # n /\ Running(r.peer) /\ discovered_nodes[n][r] # 0
              /\ Current(n, r) \/ (~Busy /\ OnTime(n, r))
          BY <3>1, <3>3 DEF AllWell, ListOK
        <4> QED
          BY <1>2, <1>5, <1>10, <4>1, <4>2 DEF Current, OnTime
      <3> QED
        BY <3>2, <3>3
    <2> QED
      BY <2>1, <2>2
  <1>12. ASSUME NEW m \in Nodes PROVE NothingExpired(m)'
    <2>1. CASE pending_events'[m] = pending_events[m]
      BY <2>1 DEF AllWell, NothingExpired
    <2>2. CASE pending_events'[m] = <<Event("Discovered", new), Event("NewExternalAddrOfPeer", new)>>
      BY <2>2 DEF NothingExpired, Event
    <2> QED
      BY <1>2, <2>1, <2>2 DEF TypeOK
  <1> QED
    BY <1>8, <1>11, <1>12 DEF AllWell

\* Time goes on only when no packet and no address waits, so that each list is as
\* young as its node's timer says.
LEMMA TickWell ==
    ASSUME ttl > query_interval, TypeOK, AllWell, Tick, \A n \in Nodes : ~Urgent(n)
    PROVE  AllWell'
  <1>1. /\ timeout' = [n \in Nodes |-> Less(timeout[n])]
        /\ discovered' = [n \in Nodes |-> Older(discovered[n])]
        /\ query_response' = [n \in Nodes |-> Older(query_response[n])]
        /\ discovered_nodes' = [n \in Nodes |-> [r \in Records |-> Less(discovered_nodes[n][r])]]
        /\ UNCHANGED <<if_task, probe_state, send_buffer, pending_events, listen_addresses, inbox, known>>
    BY DEF Tick
  <1>2. \A n \in Nodes :
            /\ Running(n) => timeout[n] # 0
            /\ send_buffer[n] = <<>> /\ inbox[n] = <<>>
            /\ discovered[n] = <<>> /\ query_response[n] = <<>>
    BY DEF Urgent, AllWell, TaskOK
  <1>3. Older(<<>>) = <<>>
    BY DEF Older
  <1>4. UNCHANGED <<discovered, query_response>>
    BY <1>1, <1>2, <1>3 DEF TypeOK
  <1>5. /\ RunningNodes' = RunningNodes
        /\ \A m : Running(m)' = Running(m) /\ FreshOnes(m)' = FreshOnes(m)
    BY <1>1, SameTasks
  <1>6. ~Busy /\ ~Busy'
    BY <1>1, <1>2, <1>4 DEF Busy
  <1>7. \A n \in Nodes, r \in Records : ~Underway(n, r) /\ ~Holds(query_response[n], Fresh(r))
    BY <1>2, HoldsNone DEF Underway, Records
  <1>8. \A n \in Nodes : Listed(n)' = Listed(n)
    <2>1. \A n \in Nodes, r \in Records :
            discovered_nodes'[n][r] = None <=> discovered_nodes[n][r] = None
      BY <1>1, LessFacts DEF TypeOK
    <2> QED
      BY <2>1 DEF Listed
  <1>9. ASSUME NEW n \in Nodes PROVE TaskOK(n)'
    <2>1. TaskOK(n)
      BY DEF AllWell
    <2>2. timeout'[n] <= query_interval
      <3>1. timeout[n] \in Nat /\ timeout[n] <= query_interval /\ timeout'[n] = Less(timeout[n])
        BY <1>1, <2>1 DEF TaskOK, TypeOK
      <3> QED
        BY <3>1, TimesAssumption DEF Less
    <2> QED
      BY <1>1, <1>2, <1>4, <1>5, <1>8, <2>1, <2>2 DEF TaskOK
  <1>10. ASSUME NEW n \in Nodes PROVE ListOK(n)'
    <2> SUFFICES ASSUME NEW r \in Listed(n)
                 PROVE  /\ r.peer # n /\ Running(r.peer)
                        /\ discovered_nodes'[n][r] # 0
                        /\ OnTime(n, r)'
      BY <1>5, <1>6, <1>8 DEF ListOK
    <2> DEFINE d == discovered_nodes[n][r]
               t == timeout[n]
    <2>1. r \in Records /\ d # None
      BY DEF Listed
    <2>2. d \in 0 .. ttl /\ t \in Nat /\ t <= query_interval /\ t # None
      <3>1. TaskOK(n) /\ timeout[n] \in Nat
        BY DEF AllWell, TypeOK
      <3> QED
        BY <2>1, <3>1, ConstantsAssumption DEF TypeOK, TaskOK
    <2>3. /\ r.peer # n /\ Running(r.peer) /\ d # 0
          /\ Current(n, r) \/ OnTime(n, r)
      BY DEF AllWell, ListOK
    <2>4. d = ttl \/ d >= t + (ttl - query_interval)
      BY <1>7, <2>1, <2>3 DEF Current, OnTime
    <2>5. t # 0
      <3>1. Running(n)
        BY DEF AllWell, TaskOK
      <3> QED
        BY <1>2, <3>1
    <2>6. timeout'[n] = Less(t) /\ discovered_nodes'[n][r] = Less(d)
      BY <1>1, <2>1
    <2> HIDE DEF d, t
    <2>7. Less(t) = t - 1 /\ Less(d) = d - 1
      BY <2>1, <2>2, <2>3, <2>5 DEF Less
    <2>8. d - 1 >= (t - 1) + (ttl - query_interval) /\ d - 1 # 0
      BY <2>2, <2>4, <2>5, TimesAssumption
    <2> QED
      BY <2>3, <2>6, <2>7, <2>8 DEF OnTime
  <1>11. \A n \in Nodes : NothingExpired(n)'
    BY <1>1 DEF AllWell, NothingExpired
  <1> QED
    BY <1>9, <1>10, <1>11 DEF AllWell

-------------------------------------------------------------------------------
(* All steps.                                                                *)

LEMMA FaultlessInit == Init => FaultlessInv
  <1> SUFFICES ASSUME Init PROVE AllWell
    BY DEF FaultlessInv
  <1>1. ASSUME NEW n \in Nodes PROVE TaskOK(n)
    BY TimesAssumption DEF Init, TaskOK, Listed, Running
  <1>2. ASSUME NEW n \in Nodes PROVE ListOK(n) /\ NothingExpired(n)
    BY DEF Init, ListOK, NothingExpired, Listed
  <1> QED
    BY <1>1, <1>2 DEF AllWell

LEMMA FaultlessStep ==
    ASSUME ttl > query_interval
    PROVE  TypeOK /\ FaultlessInv /\ [Next]_vars => FaultlessInv'
  <1> SUFFICES ASSUME TypeOK, FaultlessInv, [Next]_vars, faults' = 0 PROVE AllWell'
    BY DEF FaultlessInv
  <1>0. faults \in Nat
    BY ConstantsAssumption DEF TypeOK
  <1>1. \A kind : ~Fault(kind)
    BY <1>0 DEF Fault
  <1>2. ASSUME UNCHANGED faults PROVE AllWell
    BY <1>2 DEF FaultlessInv
  <1>3. ASSUME NEW n \in Nodes, QueryTick(n) PROVE AllWell'
    BY <1>2, <1>3, QueryTickWell DEF QueryTick
  <1>4. ASSUME NEW n \in Nodes, Send(n) PROVE AllWell'
    BY <1>2, <1>4, SendWell DEF Send
  <1>5. ASSUME NEW n \in Nodes, Return(n) PROVE AllWell'
    BY <1>2, <1>5, ReturnWell DEF Return
  <1>6. ASSUME NEW n \in Nodes, Receive(n) PROVE AllWell'
    <2>1. AllWell
      BY <1>2, <1>6 DEF Receive
    <2>2. Head(inbox[n]).type = "query" \/ Head(inbox[n]).type = "response"
      BY <1>6 DEF Receive
    <2> QED
      BY <1>6, <2>1, <2>2, ReceiveQueryWell, ReceiveAnswerWell
  <1>7. ASSUME NEW n \in Nodes, Emit(n) PROVE AllWell'
    BY <1>2, <1>7, EmitWell DEF Emit
  <1>8. ASSUME NEW n \in Nodes, IfUp(n) PROVE AllWell'
    BY <1>2, <1>8, IfUpWell DEF IfUp
  <1>9. ASSUME NEW n \in Nodes, BehaviourPoll(n) PROVE AllWell'
    BY <1>2, <1>9, BehaviourPollWell DEF BehaviourPoll
  <1>10. ASSUME Tick PROVE AllWell'
    <2>1. UNCHANGED faults /\ \A n \in Nodes : ~Urgent(n)
      BY <1>1, <1>10 DEF Tick
    <2> QED
      BY <1>2, <1>10, <2>1, TickWell
  <1>11. ASSUME UNCHANGED vars PROVE AllWell'
    <2>1. AllWell
      BY <1>2, <1>11 DEF vars
    <2>2. UNCHANGED <<if_task, timeout, probe_state, send_buffer, discovered, query_response,
                      discovered_nodes, pending_events, woken, listen_addresses, inbox>>
      BY <1>11 DEF vars, ifaceVars, nodeVars
    <2>3. /\ RunningNodes' = RunningNodes
          /\ \A m : Running(m)' = Running(m) /\ FreshOnes(m)' = FreshOnes(m) /\ Listed(m)' = Listed(m)
      BY <2>2, SameTasks DEF Listed
    <2>4. \A m \in Nodes : TaskOK(m)'
      BY <2>1, <2>2, <2>3 DEF AllWell, TaskOK
    <2>5. \A m, r : Current(m, r)' = Current(m, r) /\ OnTime(m, r)' = OnTime(m, r)
      BY <2>2 DEF Current, Underway, OnTime
    <2>6. \A m \in Nodes : ListOK(m)'
      BY <2>1, <2>2, <2>3, <2>5, BusyUnchanged DEF AllWell, ListOK
    <2>7. \A m \in Nodes : NothingExpired(m)'
      BY <2>1, <2>2 DEF AllWell, NothingExpired
    <2> QED
      BY <2>4, <2>6, <2>7 DEF AllWell
  <1>12. \A n \in Nodes :
            /\ ~ReadError(n) /\ ~Lose(n) /\ ~IfDown(n)
            /\ \A A \in SUBSET Addrs : ~ListenAddressesChange(n, A)
    BY <1>1 DEF ReadError, Lose, IfDown, ListenAddressesChange
  <1> QED
    BY <1>3, <1>4, <1>5, <1>6, <1>7, <1>8, <1>9, <1>10, <1>11, <1>12 DEF Next

\* With a time to live that is longer than the query interval (six and five minutes
\* in Config::default), no node is reported as expired as long as no packet is lost,
\* no interface fails and no machine stalls: the queries of all nodes keep all lists
\* fresh, however the tasks of the nodes interleave.
THEOREM NoFalseExpiryHolds ==
    ASSUME ttl > query_interval
    PROVE  Spec => []NoFalseExpiry
  <1>1. FaultlessInv => NoFalseExpiry
    BY DEF FaultlessInv, AllWell, NothingExpired, NoFalseExpiry
  <1>2. TypeOK /\ FaultlessInv /\ [Next]_vars => FaultlessInv'
    BY FaultlessStep
  <1> QED
    BY <1>1, <1>2, FaultlessInit, TypeCorrect, PTL DEF Spec
===============================================================================
