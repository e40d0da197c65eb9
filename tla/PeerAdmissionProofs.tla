-------------------------- MODULE PeerAdmissionProofs --------------------------
(* Proofs about PeerAdmission: which processes can be connected at all, for   *)
(* any number of machines, keys, restarts and foreign certificates.          *)
EXTENDS PeerAdmission, RecursionLemmas, SequenceTheorems

-------------------------------------------------------------------------------
(* What the certificates of this program prove.                              *)

\* The extension of a certificate gives its content away under its own key only.
LEMMA ExtensionOpens ==
    ASSUME NEW host, NEW key, NEW psk \in Psks \cup {NoPsk}, NEW q \in Psks \cup {NoPsk},
           NEW content,
           content = ExtensionContent(make_libp2p_extension(host, key, psk), q), content # Nothing,
           content.signature = HostSignature(content.public_key, key)
    PROVE  psk = q /\ content.public_key = host
<1> DEFINE ext == make_libp2p_extension(host, key, psk)
<1>1. ext.key = host
    BY DEF make_libp2p_extension, P2pExt
<1>2. ext.signature = [by |-> host, over |-> key, seal |-> IF psk = NoPsk THEN <<>> ELSE <<psk, host>>]
    BY DEF make_libp2p_extension, P2pExt, encrypt_ext_signature, HostSignature
<1>3. content.public_key = host
    BY <1>1 DEF ExtensionContent
<1>4. CASE q = NoPsk
    <2>1. content.signature = ext.signature
        BY <1>4 DEF ExtensionContent
    <2>2. content.signature.seal = <<>>
        BY DEF HostSignature
    <2>3. psk = NoPsk
        BY <2>1, <2>2, <1>2
    <2> QED BY <2>3, <1>3, <1>4
<1>5. CASE q # NoPsk
    <2>1. decrypt_ext_signature(ext.signature, q, ext.key) # Nothing
        BY <1>5 DEF ExtensionContent
    <2>2. ext.signature.seal = <<q, host>>
        BY <2>1, <1>1 DEF decrypt_ext_signature
    <2>3. psk = q
        BY <2>2, <1>2
    <2> QED BY <2>3, <1>3
<1> QED BY <1>4, <1>5

\* A certificate of this program proves the identity it was made for, and only to a
\* reader with the same pre-shared key.
LEMMA GeneratedProves ==
    ASSUME NEW host, NEW key, NEW psk \in Psks \cup {NoPsk}, NEW q \in Psks \cup {NoPsk}, NEW clock,
           parse(generate(host, key, psk), q, clock) # Nothing
    PROVE  psk = q /\ parse(generate(host, key, psk), q, clock) = host
<1> DEFINE cert == generate(host, key, psk)
           content == parse_unverified(cert, q)
<1>1. cert.extensions = <<make_libp2p_extension(host, key, psk)>> /\ cert.spki.key = key
    BY DEF generate
<1>2. P2pAt(cert) = {1}
    BY <1>1 DEF P2pAt, make_libp2p_extension, P2pExt
<1>3. content # Nothing /\ verify(cert, content, clock) /\ parse(cert, q, clock) = content.public_key
    BY DEF parse
<1>4. content = ExtensionContent(make_libp2p_extension(host, key, psk), q)
    BY <1>1, <1>2, <1>3 DEF parse_unverified
<1>5. content.signature = HostSignature(content.public_key, key)
    BY <1>1, <1>3 DEF verify
<1> HIDE DEF content, cert
<1> QED BY <1>3, <1>4, <1>5, ExtensionOpens DEF cert

\* The identity a certificate proves is the key in one of its extensions.
LEMMA ParsedIsHostKey ==
    ASSUME NEW cert, NEW psk, NEW clock,
           \A i \in P2pAt(cert) : cert.extensions[i].key \in HostKeys
    PROVE  parse(cert, psk, clock) \in HostKeys \cup {Nothing}
<1> DEFINE content == parse_unverified(cert, psk)
           at1 == CHOOSE i \in P2pAt(cert) : TRUE
<1>1. CASE content = Nothing
    BY <1>1 DEF parse
<1>2. CASE content # Nothing
    <2>1. P2pAt(cert) # {} /\ content = ExtensionContent(cert.extensions[at1], psk)
        BY <1>2 DEF parse_unverified
    <2>2. at1 \in P2pAt(cert)
        BY <2>1
    <2>3. content.public_key = cert.extensions[at1].key
        BY <2>1, <1>2 DEF ExtensionContent
    <2> QED BY <2>2, <2>3 DEF parse
<1> QED BY <1>1, <1>2

-------------------------------------------------------------------------------
(* The inductive invariant.                                                  *)

\* Records with all their fields.
IsProcess(x) ==
    /\ x = [running |-> TRUE, psk |-> x.psk, key |-> x.key, aes |-> x.aes, clock |-> x.clock,
            no_mdns |-> x.no_mdns, listen |-> x.listen, life |-> x.life]
    /\ x.key \in HostKeys /\ x.psk \in Psks \cup {NoPsk}
IsConn(k) ==
    /\ k = [client |-> k.client, clife |-> k.clife, suites |-> k.suites,
            server |-> k.server, slife |-> k.slife, intended |-> k.intended, record |-> k.record,
            cside |-> k.cside, sside |-> k.sside, cpeer |-> k.cpeer, speer |-> k.speer,
            cflight |-> k.cflight, sflight |-> k.sflight]
    /\ k.client \in Hosts /\ k.server \in Hosts \ {k.client}
    /\ k.cside \in Sides \ {"sent"} /\ k.sside \in Sides
    /\ k.cpeer \in HostKeys \cup {Nothing} /\ k.speer \in HostKeys \cup {Nothing}
    /\ k.clife \in Nat /\ k.slife \in Nat

ProcessesOK ==
    /\ proc = [n \in Nodes |-> proc[n]]
    /\ lives \in [Nodes -> Nat]
    /\ \A n \in Nodes : lives[n] <= MaxStarts[n]
    /\ \A n \in Nodes : proc[n] = Off \/ (IsProcess(proc[n]) /\ proc[n].life = lives[n])
PlacesOK ==
    /\ at \in [Nodes -> Hosts]
    /\ found = [n \in Nodes |-> found[n]] /\ heard = [n \in Nodes |-> heard[n]]
    /\ \A n \in Nodes : ~Running(n) => found[n] = {} /\ heard[n] = {}
    /\ \A n \in Nodes : \A r \in found[n] : r.slot \in Nodes
    /\ dials \in 0 .. MaxDials /\ moves \in 0 .. MaxMoves

\* A connection is with processes that were started; an end that is not over is held
\* by a process that still runs.
EndsOK(k) ==
    /\ k.client \in Nodes => k.clife <= lives[k.client]
    /\ k.server \in Nodes => k.slife <= lives[k.server]
    /\ k.client \in Nodes /\ ~Over(k.cside) => Current(k.client, k.clife)
    /\ k.server \in Nodes /\ ~Over(k.sside) => Current(k.server, k.slife)

\* What a running process has sent is made with its keys.
FlightsOK(k) ==
    /\ k.sflight # Nothing =>
            /\ NamesHostKeys(k.sflight)
            /\ Current(k.server, k.slife) => k.sflight = Flight(k.server, "server")
    /\ k.cflight # Nothing =>
            /\ NamesHostKeys(k.cflight)
            /\ Current(k.client, k.clife) => k.cflight = Flight(k.client, "client")

\* What an end has accepted it would accept again; it accepts nothing before the
\* other end has sent something.
AcceptedOK(k) ==
    /\ k.sside = "hello" => k.sflight = Nothing
    /\ k.cside = "hello" /\ k.client \in Nodes => k.cflight = Nothing
    /\ k.cside = "done" /\ k.client \in Nodes =>
            /\ k.sflight # Nothing /\ k.cpeer # Nothing
            /\ k.cpeer = AcceptedId(k.client, k.sflight)
            /\ k.intended \in {Nothing, k.cpeer}
    /\ k.sside = "done" /\ k.server \in Nodes =>
            /\ k.cflight # Nothing /\ k.speer # Nothing
            /\ k.speer = AcceptedId(k.server, k.cflight)

ConnOK(k) == IsConn(k) /\ EndsOK(k) /\ FlightsOK(k) /\ AcceptedOK(k)
ConnsOK ==
    /\ conn = [c \in Conns |-> conn[c]]
    /\ \A c \in Conns : conn[c] = NoConn \/ ConnOK(conn[c])

IInv == ProcessesOK /\ PlacesOK /\ ConnsOK

-------------------------------------------------------------------------------
(* It is what the theorems need.                                             *)

LEMMA ProcessOfRunning ==
    ASSUME ProcessesOK, NEW n \in Nodes, Running(n)
    PROVE  IsProcess(proc[n]) /\ proc[n].life = lives[n]
BY DEF ProcessesOK, Running, Off

\* Two running processes that accept one another's flights.
LEMMA AcceptsOwnKind ==
    ASSUME ProcessesOK, NEW n \in Nodes, NEW m \in Nodes, NEW role, Running(n), Running(m),
           AcceptedId(n, Flight(m, role)) # Nothing
    PROVE  proc[n].psk = proc[m].psk /\ AcceptedId(n, Flight(m, role)) = proc[m].key
<1> DEFINE key == <<m, proc[m].life, role>>
           cert == generate(proc[m].key, key, proc[m].psk)
           f == Flight(m, role)
<1>1. f.chain = <<cert>>
    BY DEF Flight
<1>2. verify_presented_certs(f.chain, proc[n].psk, proc[n].clock) = parse(cert, proc[n].psk, proc[n].clock)
    BY <1>1 DEF verify_presented_certs
<1>3. parse(cert, proc[n].psk, proc[n].clock) # Nothing
      /\ AcceptedId(n, f) = parse(cert, proc[n].psk, proc[n].clock)
    BY <1>2 DEF AcceptedId
<1>4. proc[n].psk \in Psks \cup {NoPsk} /\ proc[m].psk \in Psks \cup {NoPsk}
    BY ProcessOfRunning DEF IsProcess
<1> QED BY <1>3, <1>4, GeneratedProves

LEMMA AcceptedIsHostKey ==
    ASSUME NEW n, NEW f, NamesHostKeys(f)
    PROVE  AcceptedId(n, f) \in HostKeys \cup {Nothing}
BY ParsedIsHostKey DEF AcceptedId, verify_presented_certs, NamesHostKeys

LEMMA OwnFlightNames ==
    ASSUME ProcessesOK, NEW n \in Nodes, NEW role, Running(n)
    PROVE  NamesHostKeys(Flight(n, role))
<1>1. proc[n].key \in HostKeys
    BY ProcessOfRunning DEF IsProcess
<1> QED BY <1>1 DEF NamesHostKeys, Flight, generate, make_libp2p_extension, P2pExt, P2pAt

LEMMA InvGivesTypes == IInv => TypeOK
<1> SUFFICES ASSUME IInv PROVE TypeOK OBVIOUS
<1>1. \A n \in Nodes : Running(n) =>
            /\ proc[n].key \in HostKeys /\ proc[n].psk \in Psks \cup {NoPsk}
            /\ proc[n].life = lives[n]
    BY ProcessOfRunning DEF IInv, IsProcess
<1>2. \A n \in Nodes : lives[n] \in 0 .. MaxStarts[n]
    BY NodesAssumption DEF IInv, ProcessesOK
<1>3. \A c \in Live : IsConn(conn[c])
    BY DEF IInv, ConnsOK, ConnOK, Live
<1> QED BY <1>1, <1>2, <1>3 DEF IInv, PlacesOK, TypeOK, IsConn

LEMMA InvGivesProperties == IInv => SamePskOnly /\ Authentic
<1> SUFFICES ASSUME IInv, NEW c \in Live
             PROVE  LET k == conn[c]
                    IN  /\ k.cside = "done" /\ k.client \in Nodes =>
                                /\ k.intended \in {Nothing, k.cpeer}
                                /\ Current(k.server, k.slife) =>
                                        /\ proc[k.client].psk = proc[k.server].psk
                                        /\ k.cpeer = proc[k.server].key
                        /\ k.sside = "done" /\ k.server \in Nodes /\ Current(k.client, k.clife) =>
                                /\ proc[k.server].psk = proc[k.client].psk
                                /\ k.speer = proc[k.client].key
    BY DEF SamePskOnly, Authentic
<1> DEFINE k == conn[c]
<1>1. IsConn(k) /\ EndsOK(k) /\ FlightsOK(k) /\ AcceptedOK(k) /\ ProcessesOK
    BY DEF IInv, ConnsOK, ConnOK, Live
<1> HIDE DEF k
<1>2. ASSUME k.cside = "done", k.client \in Nodes
      PROVE  /\ k.intended \in {Nothing, k.cpeer}
             /\ Current(k.server, k.slife) =>
                    proc[k.client].psk = proc[k.server].psk /\ k.cpeer = proc[k.server].key
    <2>1. k.sflight # Nothing /\ k.cpeer # Nothing /\ k.cpeer = AcceptedId(k.client, k.sflight)
          /\ k.intended \in {Nothing, k.cpeer}
        BY <1>1, <1>2 DEF AcceptedOK
    <2>2. Running(k.client)
        BY <1>1, <1>2 DEF EndsOK, Over, Current
    <2>3. ASSUME Current(k.server, k.slife)
          PROVE  proc[k.client].psk = proc[k.server].psk /\ k.cpeer = proc[k.server].key
        <3>1. k.sflight = Flight(k.server, "server")
            BY <1>1, <2>1, <2>3 DEF FlightsOK
        <3>2. k.server \in Nodes /\ Running(k.server)
            BY <2>3 DEF Current
        <3> QED BY <1>1, <1>2, <2>1, <2>2, <3>1, <3>2, AcceptsOwnKind
    <2> QED BY <2>1, <2>3
<1>3. ASSUME k.sside = "done", k.server \in Nodes, Current(k.client, k.clife)
      PROVE  proc[k.server].psk = proc[k.client].psk /\ k.speer = proc[k.client].key
    <2>1. k.cflight # Nothing /\ k.speer # Nothing /\ k.speer = AcceptedId(k.server, k.cflight)
        BY <1>1, <1>3 DEF AcceptedOK
    <2>2. Running(k.server)
        BY <1>1, <1>3 DEF EndsOK, Over, Current
    <2>3. k.cflight = Flight(k.client, "client")
        BY <1>1, <1>3, <2>1 DEF FlightsOK
    <2>4. k.client \in Nodes /\ Running(k.client)
        BY <1>3 DEF Current
    <2> QED BY <1>1, <1>3, <2>1, <2>2, <2>3, <2>4, AcceptsOwnKind
<1> QED BY <1>2, <1>3 DEF k

-------------------------------------------------------------------------------
(* It is inductive.                                                          *)

LEMMA InitInv == Init => IInv
<1> SUFFICES ASSUME Init PROVE IInv OBVIOUS
<1>1. ProcessesOK
    BY NodesAssumption DEF Init, ProcessesOK
<1>2. PlacesOK
    BY NodesAssumption DEF Init, PlacesOK, Hosts
<1>3. ConnsOK
    BY DEF Init, ConnsOK
<1> QED BY <1>1, <1>2, <1>3 DEF IInv

\* What a node sends and accepts depends on its own process alone.
LEMMA OwnProcess ==
    ASSUME NEW m \in Nodes, proc'[m] = proc[m], NEW f, NEW role, NEW life
    PROVE  /\ Running(m)' = Running(m)
           /\ Current(m, life)' = Current(m, life)
           /\ Flight(m, role)' = Flight(m, role)
           /\ AcceptedId(m, f)' = AcceptedId(m, f)
BY DEF Running, Current, Flight, AcceptedId

\* Steps that leave the processes alone.
LEMMA SameProcesses ==
    ASSUME proc' = proc, lives' = lives, NEW k, ConnOK(k)
    PROVE  ConnOK(k)'
<1>1. EndsOK(k)'
    BY DEF ConnOK, EndsOK, Current, Running
<1>2. FlightsOK(k)'
    BY DEF ConnOK, FlightsOK, Current, Running, Flight
<1>3. AcceptedOK(k)'
    BY DEF ConnOK, AcceptedOK, AcceptedId
<1> QED BY <1>1, <1>2, <1>3 DEF ConnOK, IsConn

LEMMA ConnChanges ==
    ASSUME ConnsOK, NEW c \in Conns, NEW k, ConnOK(k)', conn' = [conn EXCEPT ![c] = k],
           \A j : ConnOK(j) => ConnOK(j)'
    PROVE  ConnsOK'
BY DEF ConnsOK

LEMMA ConnsStay ==
    ASSUME ConnsOK, conn' = conn, \A j : ConnOK(j) => ConnOK(j)'
    PROVE  ConnsOK'
BY DEF ConnsOK

\* Another process at n does not hold the ends of the one before.
LEMMA StartKeepsConn ==
    ASSUME ProcessesOK, NEW n \in Nodes, ~Running(n), lives' = [lives EXCEPT ![n] = @ + 1],
           \A m \in Nodes \ {n} : proc'[m] = proc[m],
           proc'[n] = Off \/ proc'[n].life = lives[n] + 1,
           NEW k, ConnOK(k)
    PROVE  ConnOK(k)'
<1>1. \A m \in Nodes : lives[m] \in Nat /\ lives'[m] = IF m = n THEN lives[m] + 1 ELSE lives[m]
    BY DEF ProcessesOK
<1>2. \A life \in Nat : life <= lives[n] => ~Current(n, life)'
    BY <1>1 DEF Current, Running, Off
<1>3. ~Current(n, k.clife) /\ ~Current(n, k.slife)
    BY DEF Current
<1>4. IsConn(k) /\ IsConn(k)'
    BY DEF ConnOK, IsConn
<1>5. EndsOK(k)'
    <2>1. k.client \in Nodes => k.clife <= lives'[k.client]
        BY <1>1, <1>4 DEF ConnOK, EndsOK, IsConn
    <2>2. k.server \in Nodes => k.slife <= lives'[k.server]
        BY <1>1, <1>4 DEF ConnOK, EndsOK, IsConn
    <2>3. k.client \in Nodes /\ ~Over(k.cside) => Current(k.client, k.clife)'
        BY <1>3, OwnProcess DEF ConnOK, EndsOK
    <2>4. k.server \in Nodes /\ ~Over(k.sside) => Current(k.server, k.slife)'
        BY <1>3, OwnProcess DEF ConnOK, EndsOK
    <2> QED BY <2>1, <2>2, <2>3, <2>4 DEF EndsOK, Over
<1>6. FlightsOK(k)'
    <2>1. k.server = n => ~Current(k.server, k.slife)'
        BY <1>2, <1>4 DEF ConnOK, EndsOK, IsConn
    <2>2. k.client = n => ~Current(k.client, k.clife)'
        BY <1>2, <1>4 DEF ConnOK, EndsOK, IsConn
    <2>3. ASSUME Current(k.server, k.slife)'
          PROVE  Current(k.server, k.slife) /\ Flight(k.server, "server")' = Flight(k.server, "server")
        <3>1. k.server \in Nodes \ {n}
            BY <2>1, <2>3 DEF Current
        <3> QED BY <2>3, <3>1, OwnProcess
    <2>4. ASSUME Current(k.client, k.clife)'
          PROVE  Current(k.client, k.clife) /\ Flight(k.client, "client")' = Flight(k.client, "client")
        <3>1. k.client \in Nodes \ {n}
            BY <2>2, <2>4 DEF Current
        <3> QED BY <2>4, <3>1, OwnProcess
    <2> QED BY <2>3, <2>4 DEF ConnOK, FlightsOK, NamesHostKeys
<1>7. AcceptedOK(k)'
    <2>1. k.client \in Nodes /\ k.cside = "done" => k.client # n
        BY <1>3 DEF ConnOK, EndsOK, Over
    <2>2. k.server \in Nodes /\ k.sside = "done" => k.server # n
        BY <1>3 DEF ConnOK, EndsOK, Over
    <2> QED BY <2>1, <2>2, OwnProcess DEF ConnOK, AcceptedOK
<1> QED BY <1>4, <1>5, <1>6, <1>7 DEF ConnOK

\* A connection between two hosts, both of which are there.
LEMMA NewConnOK ==
    ASSUME NEW client \in Hosts, NEW server \in Hosts \ {client}, NEW clife \in Nat, NEW slife \in Nat,
           client \in Nodes => clife <= lives'[client] /\ Current(client, clife)',
           server \in Nodes => slife <= lives'[server] /\ Current(server, slife)',
           NEW f, NamesHostKeys(f) \/ f = Nothing, client # Foreign => f = Nothing,
           NEW suites, NEW intended, NEW record, NEW k,
           slife = LifeOf(server),
           k = [NewConn(client, clife, suites, server, intended, record) EXCEPT !.cflight = f]
    PROVE  ConnOK(k)'
<1>2. k = [client |-> client, clife |-> clife, suites |-> suites,
           server |-> server, slife |-> slife,
           intended |-> intended, record |-> record,
           cside |-> "hello", sside |-> "hello", cpeer |-> Nothing, speer |-> Nothing,
           cflight |-> f, sflight |-> Nothing]
    BY DEF NewConn
<1>3. IsConn(k)'
    <2>1. /\ k.client = client /\ k.server = server /\ k.clife = clife /\ k.slife = slife
          /\ k.cside = "hello" /\ k.sside = "hello" /\ k.cpeer = Nothing /\ k.speer = Nothing
        BY <1>2
    <2>2. k = [client |-> k.client, clife |-> k.clife, suites |-> k.suites,
            server |-> k.server, slife |-> k.slife, intended |-> k.intended, record |-> k.record,
            cside |-> k.cside, sside |-> k.sside, cpeer |-> k.cpeer, speer |-> k.speer,
            cflight |-> k.cflight, sflight |-> k.sflight]
        BY <1>2
    <2> QED BY <2>1, <2>2 DEF IsConn, Sides
<1>4. EndsOK(k)'
    <2>1. k.client = client /\ k.server = server /\ k.clife = clife /\ k.slife = slife
        BY <1>2
    <2> QED BY <2>1 DEF EndsOK
<1>5. ~Current(Foreign, clife)'
    BY NodesAssumption DEF Current
<1>6. k.sflight = Nothing /\ k.cflight = f /\ k.client = client /\ k.clife = clife
      /\ k.cside # "done" /\ k.sside # "done"
    BY <1>2
<1>7. FlightsOK(k)'
    BY <1>5, <1>6 DEF FlightsOK, NamesHostKeys
<1>8. AcceptedOK(k)'
    BY <1>6, NodesAssumption DEF AcceptedOK
<1> QED BY <1>3, <1>4, <1>7, <1>8 DEF ConnOK

\* Dial, by a client that runs afterwards.
LEMMA DialOK ==
    ASSUME IInv, NEW n \in Nodes, NEW life \in Nat, NEW aes, NEW address \in Nodes,
           NEW intended, NEW record, Dial(n, life, aes, address, intended, record),
           life <= lives'[n], Current(n, life)',
           \A m \in Nodes \ {n} : proc'[m] = proc[m] /\ lives'[m] = lives[m],
           \A j : ConnOK(j) => ConnOK(j)'
    PROVE  ConnsOK' /\ dials' \in 0 .. MaxDials
<1>1. dials' \in 0 .. MaxDials
    BY NodesAssumption DEF Dial, IInv, PlacesOK
<1>2. CASE Reachable(n, at[address])
    <2> PICK server : server = at[address] OBVIOUS
    <2>1. server \in Hosts \ {n} /\ (server # Foreign => Running(server))
        BY <1>2 DEF Reachable, IInv, PlacesOK
    <2> PICK c \in Conns : \E suites :
                conn' = [conn EXCEPT ![c] = NewConn(n, life, suites, server, intended, record)]
        BY <1>2 DEF Dial
    <2> PICK suites, k :
                /\ k = NewConn(n, life, suites, server, intended, record)
                /\ conn' = [conn EXCEPT ![c] = k]
        OBVIOUS
    <2>2. k = [NewConn(n, life, suites, server, intended, record) EXCEPT !.cflight = Nothing]
        BY DEF NewConn
    <2> PICK slife : slife = LifeOf(server) OBVIOUS
    <2>3. slife \in Nat /\ (server \in Nodes => slife = lives[server])
        BY <2>1, NodesAssumption DEF LifeOf, Hosts, IInv, ProcessesOK
    <2>4. server \in Nodes => slife <= lives'[server] /\ Current(server, slife)'
        <3> SUFFICES ASSUME server \in Nodes
                     PROVE  slife <= lives'[server] /\ Current(server, slife)'
            OBVIOUS
        <3>1. Running(server) /\ server \in Nodes \ {n}
            BY <2>1, NodesAssumption
        <3>2. proc[server].life = slife
            BY <2>3, <3>1, ProcessOfRunning DEF IInv
        <3>3. proc'[server] = proc[server] /\ lives'[server] = slife
            BY <2>3, <3>1
        <3> QED BY <2>3, <3>1, <3>2, <3>3 DEF Current, Running
    <2>5. n \in Hosts /\ n # Foreign
        BY NodesAssumption DEF Hosts
    <2>6. ConnOK(k)'
        BY <2>1, <2>2, <2>3, <2>4, <2>5, NewConnOK
    <2> QED BY <1>1, <2>6, ConnChanges DEF IInv
<1>3. CASE ~Reachable(n, at[address])
    BY <1>1, <1>3, ConnsStay DEF Dial, IInv
<1> QED BY <1>2, <1>3

LEMMA StartInv ==
    ASSUME IInv, NEW n \in Nodes, NEW a \in Arguments, Start(n, a)
    PROVE  IInv'
<1>1. lives \in [Nodes -> Nat] /\ lives[n] \in Nat /\ lives' = [lives EXCEPT ![n] = lives[n] + 1]
      /\ ~Running(n) /\ lives[n] < MaxStarts[n]
    BY DEF Start, IInv, ProcessesOK
<1>2. /\ proc' = [m \in Nodes |-> proc'[m]]
      /\ \A m \in Nodes \ {n} : proc'[m] = proc[m]
      /\ Fails(a) => proc'[n] = Off
      /\ ~Fails(a) => proc'[n] = Process(n, a, lives[n] + 1)
    <2>1. proc = [m \in Nodes |-> proc[m]] /\ proc[n] = Off
        BY <1>1 DEF IInv, ProcessesOK, IsProcess, Running
    <2>2. proc' = IF Fails(a) THEN proc ELSE [proc EXCEPT ![n] = Process(n, a, lives[n] + 1)]
        BY DEF Start
    <2> QED BY <2>1, <2>2
<1>3. LET x == Process(n, a, lives[n] + 1)
      IN  IsProcess(x) /\ x.life = lives[n] + 1 /\ x.running = TRUE
    BY NodesAssumption, KeysAssumption DEF Process, IsProcess
<1>4. ProcessesOK'
    <2>1. \A m \in Nodes : lives'[m] <= MaxStarts[m]
        <3>1. \A m \in Nodes : lives[m] \in Nat /\ MaxStarts[m] \in Nat /\ lives[m] <= MaxStarts[m]
            BY NodesAssumption DEF IInv, ProcessesOK
        <3> QED BY <1>1, <3>1
    <2>2. \A m \in Nodes : proc'[m] = Off \/ (IsProcess(proc'[m]) /\ proc'[m].life = lives'[m])
        BY <1>1, <1>2, <1>3 DEF IInv, ProcessesOK
    <2>3. lives' \in [Nodes -> Nat]
        BY <1>1
    <2> QED BY <1>2, <2>1, <2>2, <2>3 DEF ProcessesOK, IsProcess, Off
<1>5. \A j : ConnOK(j) => ConnOK(j)'
    BY <1>1, <1>2, <1>3, StartKeepsConn DEF IInv
<1>6. ConnsOK' /\ dials' \in 0 .. MaxDials
    <2>1. CASE ~Fails(a) /\ a.connect # Nothing /\ parse_ipv4_with_port(a.connect.addr) = "port"
        <3>1. Dial(n, lives[n] + 1, a.aes, a.connect.to, Nothing, Nothing)
            BY <2>1 DEF Start
        <3>2. a.connect.to \in Nodes
            BY <2>1, NodesAssumption
        <3> PICK life \in Nat : life = lives[n] + 1
            BY <1>1
        <3>3. life <= lives'[n] /\ \A m \in Nodes \ {n} : lives'[m] = lives[m]
            BY <1>1
        <3>4. Current(n, life)'
            BY <1>2, <1>3, <2>1 DEF Current, Running
        <3> QED BY <1>2, <1>5, <3>1, <3>2, <3>3, <3>4, DialOK
    <2>2. CASE ~(~Fails(a) /\ a.connect # Nothing /\ parse_ipv4_with_port(a.connect.addr) = "port")
        BY <2>2, <1>5, ConnsStay DEF Start, IInv, PlacesOK
    <2> QED BY <2>1, <2>2
<1>7. PlacesOK'
    <2>1. \A m \in Nodes : ~Running(m)' => ~Running(m)
        BY <1>1, <1>2, <1>3 DEF Running
    <2> QED BY <1>6, <2>1 DEF Start, IInv, PlacesOK
<1> QED BY <1>4, <1>6, <1>7 DEF IInv

LEMMA StopInv ==
    ASSUME IInv, NEW n \in Nodes, Stop(n)
    PROVE  IInv'
<1>1. proc' = [proc EXCEPT ![n] = Off] /\ lives' = lives /\ conn' = CloseEnds(n)
    BY DEF Stop
<1>2. proc'[n] = Off /\ \A m \in Nodes \ {n} : proc'[m] = proc[m]
    BY <1>1 DEF IInv, ProcessesOK
<1>3. ProcessesOK'
    BY <1>1, <1>2 DEF IInv, ProcessesOK, IsProcess, Off
<1>4. PlacesOK'
    <2>1. \A m \in Nodes : m # n => found'[m] = found[m] /\ heard'[m] = heard[m] /\ Running(m)' = Running(m)
        BY <1>2 DEF Stop, IInv, PlacesOK, Running
    <2>2. found'[n] = {} /\ heard'[n] = {}
        BY DEF Stop, IInv, PlacesOK
    <2>3. found' = [m \in Nodes |-> found'[m]] /\ heard' = [m \in Nodes |-> heard'[m]]
        BY DEF Stop, IInv, PlacesOK
    <2>4. at' \in [Nodes -> Hosts] /\ dials' \in 0 .. MaxDials /\ moves' \in 0 .. MaxMoves
        BY DEF Stop, IInv, PlacesOK
    <2> QED BY <2>1, <2>2, <2>3, <2>4 DEF IInv, PlacesOK
<1>5. ASSUME NEW c \in Conns, conn[c] # NoConn, NEW j, j = conn'[c]
      PROVE  ConnOK(j)'
    <2> PICK k : k = conn[c] OBVIOUS
    <2>1. ConnOK(k) /\ IsConn(k)
        BY <1>5 DEF IInv, ConnsOK, ConnOK
    <2>2. j = [k EXCEPT !.cside = IF k.client = n THEN "closed" ELSE @,
                        !.sside = IF k.server = n THEN "closed" ELSE @]
        BY <1>1, <1>5 DEF CloseEnds
    <2>3. /\ j.client = k.client /\ j.server = k.server /\ j.clife = k.clife /\ j.slife = k.slife
          /\ j.cpeer = k.cpeer /\ j.speer = k.speer /\ j.cflight = k.cflight /\ j.sflight = k.sflight
          /\ j.intended = k.intended
          /\ j.cside = IF k.client = n THEN "closed" ELSE k.cside
          /\ j.sside = IF k.server = n THEN "closed" ELSE k.sside
        BY <2>1, <2>2 DEF IsConn
    <2>4. IsConn(j)'
        <3>1. j = [client |-> j.client, clife |-> j.clife, suites |-> j.suites,
                server |-> j.server, slife |-> j.slife, intended |-> j.intended, record |-> j.record,
                cside |-> j.cside, sside |-> j.sside, cpeer |-> j.cpeer, speer |-> j.speer,
                cflight |-> j.cflight, sflight |-> j.sflight]
            BY <2>1, <2>2 DEF IsConn
        <3> QED BY <3>1, <2>1, <2>3 DEF IsConn, Sides
    <2>5. \A m \in Nodes : \A life : Current(m, life)' => m # n /\ Current(m, life)
        BY <1>2, OwnProcess DEF Current, Running, Off
    <2>6. EndsOK(j)'
        <3>1. j.client \in Nodes /\ ~Over(j.cside) => Current(j.client, j.clife)'
            BY <1>2, <2>1, <2>3, OwnProcess DEF ConnOK, EndsOK, Over
        <3>2. j.server \in Nodes /\ ~Over(j.sside) => Current(j.server, j.slife)'
            BY <1>2, <2>1, <2>3, OwnProcess DEF ConnOK, EndsOK, Over
        <3> QED BY <1>1, <2>1, <2>3, <3>1, <3>2 DEF ConnOK, EndsOK, Over
    <2>7. FlightsOK(j)'
        <3>1. ASSUME Current(j.server, j.slife)'
              PROVE  Current(k.server, k.slife) /\ Flight(j.server, "server")' = Flight(k.server, "server")
            <4>1. k.server \in Nodes
                BY <2>3, <3>1 DEF Current
            <4> QED BY <1>2, <2>3, <2>5, <3>1, <4>1, OwnProcess
        <3>2. ASSUME Current(j.client, j.clife)'
              PROVE  Current(k.client, k.clife) /\ Flight(j.client, "client")' = Flight(k.client, "client")
            <4>1. k.client \in Nodes
                BY <2>3, <3>2 DEF Current
            <4> QED BY <1>2, <2>3, <2>5, <3>2, <4>1, OwnProcess
        <3> QED BY <2>1, <2>3, <3>1, <3>2 DEF ConnOK, FlightsOK, NamesHostKeys
    <2>8. AcceptedOK(j)'
        <3>1. j.cside = "done" => k.cside = "done" /\ k.client # n
            BY <2>3
        <3>2. j.sside = "done" => k.sside = "done" /\ k.server # n
            BY <2>3
        <3>3. ASSUME j.cside = "done", j.client \in Nodes
              PROVE  /\ j.sflight # Nothing /\ j.cpeer # Nothing
                     /\ j.cpeer = AcceptedId(j.client, j.sflight)'
                     /\ j.intended \in {Nothing, j.cpeer}
            BY <1>2, <2>1, <2>3, <3>1, <3>3, OwnProcess DEF ConnOK, AcceptedOK
        <3>4. ASSUME j.sside = "done", j.server \in Nodes
              PROVE  /\ j.cflight # Nothing /\ j.speer # Nothing
                     /\ j.speer = AcceptedId(j.server, j.cflight)'
            BY <1>2, <2>1, <2>3, <3>2, <3>4, OwnProcess DEF ConnOK, AcceptedOK
        <3>5. /\ j.sside = "hello" => j.sflight = Nothing
              /\ j.cside = "hello" /\ j.client \in Nodes => j.cflight = Nothing
            BY <2>1, <2>3 DEF ConnOK, AcceptedOK
        <3> QED BY <3>3, <3>4, <3>5 DEF AcceptedOK
    <2> QED BY <2>4, <2>6, <2>7, <2>8 DEF ConnOK
<1>6. ConnsOK'
    <2>1. conn' = [c \in Conns |-> conn'[c]] /\ \A c \in Conns : conn[c] = NoConn => conn'[c] = NoConn
        BY <1>1 DEF CloseEnds
    <2> QED BY <1>5, <2>1 DEF ConnsOK
<1> QED BY <1>3, <1>4, <1>6 DEF IInv

\* Steps of discovery: the processes and connections stay.
LEMMA QuietInv ==
    ASSUME IInv, UNCHANGED <<proc, lives, conn>>, PlacesOK'
    PROVE  IInv'
<1>1. ProcessesOK'
    BY DEF IInv, ProcessesOK, IsProcess, Off
<1>2. ConnsOK'
    BY SameProcesses, ConnsStay DEF IInv
<1> QED BY <1>1, <1>2 DEF IInv

LEMMA DiscoveryInv ==
    ASSUME IInv, NEW n \in Nodes,
           \/ \E h \in Hosts : Move(n, h)
           \/ \E m \in Nodes, l \in NameLengths : Answer(m, n, l)
           \/ \E o \in Discovered(n) : Expire(n, o)
    PROVE  IInv'
<1>1. ASSUME NEW h \in Hosts, Move(n, h) PROVE IInv'
    <2>1. PlacesOK'
        BY <1>1, NodesAssumption DEF Move, IInv, PlacesOK, Running
    <2> QED BY <1>1, <2>1, QuietInv DEF Move
<1>2. ASSUME NEW m \in Nodes, NEW l \in NameLengths, Answer(m, n, l) PROVE IInv'
    <2>1. Running(n) /\ UNCHANGED <<proc, lives, at, conn, dials, moves>>
        BY <1>2 DEF Answer
    <2> PICK A, H : found' = [found EXCEPT ![n] = found[n] \cup A] /\ heard' = [heard EXCEPT ![n] = H]
                    /\ \A r \in A : r.slot \in Nodes
        <3> DEFINE packets == build_query_response(proc[m].listen)
                   read(arrived) == {p \in arrived :
                        IsParsed(packets[p], proc[m].listen, l, proc[m].psk # NoPsk)}
                   new(arrived) == {Record(Self(m), i) : i \in UNION {AddressesIn(packets[p]) : p \in read(arrived)}}
                   next(arrived) == IF arrived = DOMAIN packets THEN heard[n] \cup {Self(m)} ELSE heard[n]
        <3>1. PICK arrived \in SUBSET DOMAIN packets :
                /\ found' = [found EXCEPT ![n] =
                        IF proc[m].key = proc[n].key THEN found[n] ELSE found[n] \cup new(arrived)]
                /\ heard' = [heard EXCEPT ![n] = next(arrived)]
            BY <1>2 DEF Answer
        <3>2. \A r \in new(arrived) : r.slot \in Nodes
            BY DEF Record, Self
        <3> HIDE DEF new, next
        <3>3. CASE proc[m].key = proc[n].key
            <4> PICK A : A = {} OBVIOUS
            <4>1. found' = [found EXCEPT ![n] = found[n] \cup A] /\ \A r \in A : r.slot \in Nodes
                BY <3>1, <3>3
            <4>2. heard' = [heard EXCEPT ![n] = next(arrived)]
                BY <3>1
            <4> QED BY <4>1, <4>2
        <3>4. CASE proc[m].key # proc[n].key
            BY <3>1, <3>2, <3>4
        <3> QED BY <3>3, <3>4
    <2>2. PlacesOK'
        BY <2>1 DEF IInv, PlacesOK, Running
    <2> QED BY <2>1, <2>2, QuietInv
<1>3. ASSUME NEW o \in Discovered(n), Expire(n, o) PROVE IInv'
    <2>1. PlacesOK'
        BY <1>3 DEF Expire, IInv, PlacesOK, Running
    <2> QED BY <1>3, <2>1, QuietInv DEF Expire
<1> QED BY <1>1, <1>2, <1>3

-------------------------------------------------------------------------------
(* Connections.                                                              *)

LEMMA DialFoundInv ==
    ASSUME IInv, NEW n \in Nodes, NEW o \in Discovered(n), DialFound(n, o)
    PROVE  IInv'
<1>1. Running(n) /\ UNCHANGED <<proc, lives, at, found, heard, moves>>
    BY DEF DialFound
<1>2. o.slot \in Nodes
    BY DEF Discovered, Origin, IInv, PlacesOK
<1> PICK life : life = lives[n] OBVIOUS
<1>3. life \in Nat /\ life <= lives'[n] /\ Current(n, life)'
    BY <1>1, ProcessOfRunning DEF IInv, ProcessesOK, Current, Running
<1>4. Dial(n, life, proc[n].aes, o.slot, o.peer, o)
    BY DEF DialFound
<1> PICK aes : aes = proc[n].aes OBVIOUS
<1>5. \A j : ConnOK(j) => ConnOK(j)'
    BY <1>1, SameProcesses
<1>6. ConnsOK' /\ dials' \in 0 .. MaxDials
    BY <1>1, <1>2, <1>3, <1>4, <1>5, DialOK
<1>7. ProcessesOK' /\ PlacesOK'
    BY <1>1, <1>6 DEF IInv, ProcessesOK, PlacesOK, Running, IsProcess, Off
<1> QED BY <1>6, <1>7 DEF IInv

\* A step that changes one connection, between the processes there are.
LEMMA ConnInv ==
    ASSUME IInv, UNCHANGED <<proc, lives, at, found, heard, moves>>, dials' \in 0 .. MaxDials,
           NEW c \in Conns, NEW k, ConnOK(k), conn' = [conn EXCEPT ![c] = k]
    PROVE  IInv'
<1>1. ConnsOK'
    BY SameProcesses, ConnChanges DEF IInv
<1>2. ProcessesOK' /\ PlacesOK'
    BY DEF IInv, ProcessesOK, PlacesOK, Running, IsProcess, Off
<1> QED BY <1>1, <1>2 DEF IInv

LEMMA ForeignNames ==
    ASSUME NEW n, NEW f \in ForeignPresents(n)
    PROVE  NamesHostKeys(f)
BY ForeignAssumption, NodesAssumption DEF ForeignPresents

LEMMA ForeignDialsInv ==
    ASSUME IInv, NEW n \in Nodes, ForeignDials(n)
    PROVE  IInv'
<1>1. Running(n) /\ UNCHANGED <<proc, lives, at, found, heard, moves>>
    BY DEF ForeignDials
<1>2. dials' \in 0 .. MaxDials
    BY NodesAssumption DEF ForeignDials, IInv, PlacesOK
<1> PICK c \in Conns, f \in ForeignPresents(n) :
            \E suites, k :
                /\ k = [NewConn(Foreign, 0, suites, n, Nothing, Nothing) EXCEPT !.cflight = f]
                /\ conn' = [conn EXCEPT ![c] = k]
    BY DEF ForeignDials
<1> PICK suites, k :
            /\ k = [NewConn(Foreign, 0, suites, n, Nothing, Nothing) EXCEPT !.cflight = f]
            /\ conn' = [conn EXCEPT ![c] = k]
    OBVIOUS
<1> PICK slife : slife = LifeOf(n) OBVIOUS
<1>3. slife \in Nat /\ slife <= lives'[n] /\ Current(n, slife)'
    BY <1>1, ProcessOfRunning, NodesAssumption DEF LifeOf, IInv, ProcessesOK, Current, Running
<1>4. Foreign \in Hosts /\ Foreign \notin Nodes /\ n \in Hosts \ {Foreign}
    BY NodesAssumption DEF Hosts
<1>5. NamesHostKeys(f)
    BY ForeignNames
<1>6. ConnOK(k)'
    BY <1>3, <1>4, <1>5, NewConnOK
<1>7. \A j : ConnOK(j) => ConnOK(j)'
    BY <1>1, SameProcesses
<1>8. ConnsOK'
    BY <1>6, <1>7, ConnChanges DEF IInv
<1>9. ProcessesOK' /\ PlacesOK'
    BY <1>1, <1>2 DEF IInv, ProcessesOK, PlacesOK, Running, IsProcess, Off
<1> QED BY <1>8, <1>9 DEF IInv

\* A connection of which sides, peers and flights have changed.
Changed(k, cside, sside, cpeer, speer, cflight, sflight) ==
    [k EXCEPT !.cside = cside, !.sside = sside, !.cpeer = cpeer, !.speer = speer,
              !.cflight = cflight, !.sflight = sflight]

HasFields(j, k, cside, sside, cpeer, speer, cflight, sflight) ==
    /\ IsConn(j)
    /\ j.client = k.client /\ j.server = k.server /\ j.clife = k.clife /\ j.slife = k.slife
    /\ j.suites = k.suites /\ j.intended = k.intended /\ j.record = k.record
    /\ j.cside = cside /\ j.sside = sside /\ j.cpeer = cpeer /\ j.speer = speer
    /\ j.cflight = cflight /\ j.sflight = sflight

LEMMA Updated ==
    \A k, cside, sside, cpeer, speer, cflight, sflight :
        /\ IsConn(k) /\ cside \in Sides \ {"sent"} /\ sside \in Sides
        /\ cpeer \in HostKeys \cup {Nothing} /\ speer \in HostKeys \cup {Nothing}
        => HasFields(Changed(k, cside, sside, cpeer, speer, cflight, sflight),
                     k, cside, sside, cpeer, speer, cflight, sflight)
<1> SUFFICES ASSUME NEW k, IsConn(k), NEW cside \in Sides \ {"sent"}, NEW sside \in Sides,
                    NEW cpeer \in HostKeys \cup {Nothing}, NEW speer \in HostKeys \cup {Nothing},
                    NEW cflight, NEW sflight, NEW j,
                    j = Changed(k, cside, sside, cpeer, speer, cflight, sflight)
             PROVE  HasFields(j, k, cside, sside, cpeer, speer, cflight, sflight)
    OBVIOUS
<1>1. /\ j.client = k.client /\ j.server = k.server /\ j.clife = k.clife /\ j.slife = k.slife
      /\ j.suites = k.suites /\ j.intended = k.intended /\ j.record = k.record
      /\ j.cside = cside /\ j.sside = sside /\ j.cpeer = cpeer /\ j.speer = speer
      /\ j.cflight = cflight /\ j.sflight = sflight
    BY DEF IsConn, Changed
<1>2. j = [client |-> j.client, clife |-> j.clife, suites |-> j.suites,
           server |-> j.server, slife |-> j.slife, intended |-> j.intended, record |-> j.record,
           cside |-> j.cside, sside |-> j.sside, cpeer |-> j.cpeer, speer |-> j.speer,
           cflight |-> j.cflight, sflight |-> j.sflight]
    BY DEF IsConn, Changed
<1>3. IsConn(j)
    BY <1>1, <1>2 DEF IsConn
<1> QED BY <1>1, <1>3 DEF HasFields

LEMMA ServerHelloInv ==
    ASSUME IInv, NEW c \in Conns, ServerHello(c)
    PROVE  IInv'
<1> PICK k : k = conn[c] OBVIOUS
<1>1. ConnOK(k) /\ IsConn(k) /\ k.sside = "hello"
    BY DEF ServerHello, IInv, ConnsOK, ConnOK, NoConn
<1>2. k.sflight = Nothing /\ ~(k.cside = "done" /\ k.client \in Nodes)
    BY <1>1 DEF ConnOK, AcceptedOK
<1>3. k.server \in Nodes => Current(k.server, k.slife)
    BY <1>1 DEF ConnOK, EndsOK, Over
<1> PICK f \in IF k.server = Foreign THEN ForeignPresents(k.client) ELSE {Flight(k.server, "server")} :
        \E j : /\ conn' = [conn EXCEPT ![c] = j]
               /\ \/ j = [k EXCEPT !.sside = "refused"]
                  \/ j = [k EXCEPT !.sside = "sent", !.sflight = f]
    BY DEF ServerHello, IInv, ConnsOK
<1> PICK j :
        /\ conn' = [conn EXCEPT ![c] = j]
        /\ \/ j = [k EXCEPT !.sside = "refused"]
           \/ j = [k EXCEPT !.sside = "sent", !.sflight = f]
    OBVIOUS
<1>4. NamesHostKeys(f) /\ (k.server \in Nodes => f = Flight(k.server, "server"))
    <2>1. CASE k.server = Foreign
        BY <2>1, ForeignNames, NodesAssumption
    <2>2. CASE k.server # Foreign
        <3>1. k.server \in Nodes /\ Running(k.server) /\ f = Flight(k.server, "server")
            BY <1>1, <1>3, <2>2 DEF IsConn, Hosts, Current
        <3> QED BY <3>1, OwnFlightNames DEF IInv
    <2> QED BY <2>1, <2>2
<1>5. k.cside \in Sides \ {"sent"} /\ k.cpeer \in HostKeys \cup {Nothing} /\ k.speer \in HostKeys \cup {Nothing}
    BY <1>1 DEF IsConn
<1>6. /\ IsConn(j)
      /\ j.client = k.client /\ j.server = k.server /\ j.clife = k.clife /\ j.slife = k.slife
      /\ j.intended = k.intended
      /\ j.cside = k.cside /\ j.sside \in {"refused", "sent"} /\ j.cpeer = k.cpeer /\ j.speer = k.speer
      /\ j.cflight = k.cflight /\ j.sflight \in {f, Nothing}
    <2> DEFINE changed(sside, sflight) == Changed(k, k.cside, sside, k.cpeer, k.speer, k.cflight, sflight)
    <2>1. [k EXCEPT !.sside = "refused"] = changed("refused", k.sflight)
        BY <1>1 DEF IsConn, Changed
    <2>2. [k EXCEPT !.sside = "sent", !.sflight = f] = changed("sent", f)
        BY <1>1 DEF IsConn, Changed
    <2>3. "refused" \in Sides /\ "sent" \in Sides
        BY DEF Sides
    <2>4. CASE j = [k EXCEPT !.sside = "refused"]
        <3>1. j = changed("refused", k.sflight)
            BY <2>1, <2>4
        <3>2. HasFields(j, k, k.cside, "refused", k.cpeer, k.speer, k.cflight, k.sflight)
            BY <1>1, <1>5, <2>3, <3>1, Updated
        <3> QED BY <1>2, <3>2 DEF HasFields
    <2>5. CASE j = [k EXCEPT !.sside = "sent", !.sflight = f]
        <3>1. j = changed("sent", f)
            BY <2>2, <2>5
        <3>2. HasFields(j, k, k.cside, "sent", k.cpeer, k.speer, k.cflight, f)
            BY <1>1, <1>5, <2>3, <3>1, Updated
        <3> QED BY <3>2 DEF HasFields
    <2> QED BY <2>4, <2>5
<1>7. EndsOK(j)
    BY <1>1, <1>3, <1>6 DEF ConnOK, EndsOK
<1>8. FlightsOK(j)
    BY <1>1, <1>4, <1>6 DEF ConnOK, FlightsOK, Current
<1>9. AcceptedOK(j)
    BY <1>1, <1>2, <1>6 DEF ConnOK, AcceptedOK
<1>10. UNCHANGED <<proc, lives, at, found, heard, moves>> /\ dials' \in 0 .. MaxDials
    BY DEF ServerHello, IInv, PlacesOK
<1> QED BY <1>6, <1>7, <1>8, <1>9, <1>10, ConnInv DEF ConnOK

LEMMA ClientFinishesInv ==
    ASSUME IInv, NEW c \in Conns, ClientFinishes(c)
    PROVE  IInv'
<1> PICK k : k = conn[c] OBVIOUS
<1>1. ConnOK(k) /\ IsConn(k) /\ k.cside = "hello" /\ k.client # Foreign /\ k.sflight # Nothing
    BY DEF ClientFinishes, IInv, ConnsOK, ConnOK, NoConn
<1>2. k.client \in Nodes /\ Current(k.client, k.clife) /\ Running(k.client)
    BY <1>1 DEF ConnOK, EndsOK, Over, IsConn, Hosts, Current
<1>3. k.cflight = Nothing /\ ~(k.sside = "done" /\ k.server \in Nodes)
    BY <1>1, <1>2 DEF ConnOK, AcceptedOK
<1> PICK id : id = AcceptedId(k.client, k.sflight) OBVIOUS
<1> PICK f : f = Flight(k.client, "client") OBVIOUS
<1>4. id \in HostKeys \cup {Nothing}
    BY <1>1, AcceptedIsHostKey DEF ConnOK, FlightsOK
<1>5. NamesHostKeys(f)
    BY <1>2, OwnFlightNames DEF IInv
<1> PICK j :
        /\ conn' = [conn EXCEPT ![c] = j]
        /\ \/ j = [k EXCEPT !.cside = "refused"]
           \/ /\ id # Nothing /\ k.intended \in {Nothing, id}
              /\ j = [k EXCEPT !.cside = "done", !.cpeer = id, !.cflight = f]
           \/ /\ id # Nothing
              /\ j = [k EXCEPT !.cside = "wrong_peer", !.cpeer = id, !.cflight = f]
    <2>1. CASE id = Nothing
        <3>1. conn' = [conn EXCEPT ![c] = [k EXCEPT !.cside = "refused"]]
            BY <2>1 DEF ClientFinishes, IInv, ConnsOK
        <3> QED BY <3>1
    <2>2. CASE id # Nothing
        <3> DEFINE right == RightPeer(k.client, k.intended, id)
        <3>1. conn' = [conn EXCEPT ![c] =
                            [k EXCEPT !.cside = IF right THEN "done" ELSE "wrong_peer",
                                      !.cpeer = id, !.cflight = f]]
            BY <2>2 DEF ClientFinishes, IInv, ConnsOK
        <3>2. right => k.intended \in {Nothing, id}
            BY DEF RightPeer
        <3> HIDE DEF right
        <3> QED BY <2>2, <3>1, <3>2
    <2> QED BY <2>1, <2>2
<1>6. k.sside \in Sides /\ k.cpeer \in HostKeys \cup {Nothing} /\ k.speer \in HostKeys \cup {Nothing}
    BY <1>1 DEF IsConn
<1> DEFINE changed(side, cpeer, cflight) == Changed(k, side, k.sside, cpeer, k.speer, cflight, k.sflight)
<1>7. /\ [k EXCEPT !.cside = "refused"] = changed("refused", k.cpeer, Nothing)
      /\ [k EXCEPT !.cside = "done", !.cpeer = id, !.cflight = f] = changed("done", id, f)
      /\ [k EXCEPT !.cside = "wrong_peer", !.cpeer = id, !.cflight = f] = changed("wrong_peer", id, f)
    BY <1>1, <1>3 DEF IsConn, Changed
<1> HIDE DEF changed
<1>8. PICK side \in {"refused", "done", "wrong_peer"}, cpeer \in HostKeys \cup {Nothing}, cflight \in {f, Nothing} :
        /\ j = changed(side, cpeer, cflight)
        /\ side = "done" => cpeer = id /\ id # Nothing /\ k.intended \in {Nothing, id}
    BY <1>4, <1>6, <1>7
<1>9. side \in Sides \ {"sent"} /\ side # "hello"
    BY DEF Sides
<1>10. /\ IsConn(j)
       /\ j.client = k.client /\ j.server = k.server /\ j.clife = k.clife /\ j.slife = k.slife
       /\ j.intended = k.intended
       /\ j.cside = side /\ j.sside = k.sside /\ j.cpeer = cpeer /\ j.speer = k.speer
       /\ j.cflight = cflight /\ j.sflight = k.sflight
    <2>1. HasFields(j, k, side, k.sside, cpeer, k.speer, cflight, k.sflight)
        BY <1>1, <1>6, <1>8, <1>9, Updated DEF changed
    <2> QED BY <2>1 DEF HasFields
<1>11. EndsOK(j)
    BY <1>1, <1>2, <1>10 DEF ConnOK, EndsOK
<1>12. FlightsOK(j)
    BY <1>1, <1>5, <1>8, <1>10 DEF ConnOK, FlightsOK
<1>13. AcceptedOK(j)
    BY <1>1, <1>3, <1>8, <1>9, <1>10 DEF ConnOK, AcceptedOK
<1>14. UNCHANGED <<proc, lives, at, found, heard, moves>> /\ dials' \in 0 .. MaxDials
    BY DEF ClientFinishes, IInv, PlacesOK
<1> QED BY <1>10, <1>11, <1>12, <1>13, <1>14, ConnInv DEF ConnOK

LEMMA ServerFinishesInv ==
    ASSUME IInv, NEW c \in Conns, ServerFinishes(c)
    PROVE  IInv'
<1> PICK k : k = conn[c] OBVIOUS
<1>1. ConnOK(k) /\ IsConn(k) /\ k.sside = "sent" /\ k.server # Foreign /\ k.cflight # Nothing
    BY DEF ServerFinishes, IInv, ConnsOK, ConnOK, NoConn
<1>2. k.server \in Nodes /\ Current(k.server, k.slife)
    BY <1>1 DEF ConnOK, EndsOK, Over, IsConn, Hosts
<1> PICK id : id = AcceptedId(k.server, k.cflight) OBVIOUS
<1>3. id \in HostKeys \cup {Nothing}
    BY <1>1, AcceptedIsHostKey DEF ConnOK, FlightsOK
<1> PICK j :
        /\ conn' = [conn EXCEPT ![c] = j]
        /\ \/ j = [k EXCEPT !.sside = "refused"]
           \/ id # Nothing /\ j = [k EXCEPT !.sside = "done", !.speer = id]
           \/ id # Nothing /\ j = [k EXCEPT !.sside = "wrong_peer", !.speer = id]
    BY DEF ServerFinishes, IInv, ConnsOK
<1>4. k.cside \in Sides \ {"sent"} /\ k.cpeer \in HostKeys \cup {Nothing} /\ k.speer \in HostKeys \cup {Nothing}
    BY <1>1 DEF IsConn
<1> DEFINE changed(side, speer) == Changed(k, k.cside, side, k.cpeer, speer, k.cflight, k.sflight)
<1>5. /\ [k EXCEPT !.sside = "refused"] = changed("refused", k.speer)
      /\ [k EXCEPT !.sside = "done", !.speer = id] = changed("done", id)
      /\ [k EXCEPT !.sside = "wrong_peer", !.speer = id] = changed("wrong_peer", id)
    BY <1>1 DEF IsConn, Changed
<1> HIDE DEF changed
<1>6. PICK side \in {"refused", "done", "wrong_peer"}, speer \in HostKeys \cup {Nothing} :
        /\ j = changed(side, speer)
        /\ side = "done" => speer = id /\ id # Nothing
    BY <1>3, <1>4, <1>5
<1>7. side \in Sides /\ side # "hello"
    BY DEF Sides
<1>8. /\ IsConn(j)
      /\ j.client = k.client /\ j.server = k.server /\ j.clife = k.clife /\ j.slife = k.slife
      /\ j.intended = k.intended
      /\ j.cside = k.cside /\ j.sside = side /\ j.cpeer = k.cpeer /\ j.speer = speer
      /\ j.cflight = k.cflight /\ j.sflight = k.sflight
    <2>1. HasFields(j, k, k.cside, side, k.cpeer, speer, k.cflight, k.sflight)
        BY <1>1, <1>4, <1>6, <1>7, Updated DEF changed
    <2> QED BY <2>1 DEF HasFields
<1>9. EndsOK(j)
    BY <1>1, <1>2, <1>8 DEF ConnOK, EndsOK
<1>10. FlightsOK(j)
    BY <1>1, <1>8 DEF ConnOK, FlightsOK
<1>11. AcceptedOK(j)
    BY <1>1, <1>6, <1>7, <1>8 DEF ConnOK, AcceptedOK
<1>12. UNCHANGED <<proc, lives, at, found, heard, moves>> /\ dials' \in 0 .. MaxDials
    BY DEF ServerFinishes, IInv, PlacesOK
<1> QED BY <1>8, <1>9, <1>10, <1>11, <1>12, ConnInv DEF ConnOK

\* The other program has done its part, or an end is closed.
LEMMA SideInv ==
    ASSUME IInv, NEW c \in Conns, ForeignFinishes(c) \/ Close(c)
    PROVE  IInv'
<1> PICK k : k = conn[c] OBVIOUS
<1>1. ConnOK(k) /\ IsConn(k)
    BY DEF ForeignFinishes, Close, IInv, ConnsOK, ConnOK, NoConn, Over
<1>2. k.cside \in Sides \ {"sent"} /\ k.sside \in Sides
      /\ k.cpeer \in HostKeys \cup {Nothing} /\ k.speer \in HostKeys \cup {Nothing}
    BY <1>1 DEF IsConn
<1> PICK j :
        /\ conn' = [conn EXCEPT ![c] = j]
        /\ \/ j = [k EXCEPT !.cside = "closed"]
           \/ j = [k EXCEPT !.sside = "closed"]
           \/ k.client = Foreign /\ j = [k EXCEPT !.cside = "done"]
           \/ k.server = Foreign /\ j = [k EXCEPT !.sside = "done"]
    BY DEF ForeignFinishes, Close, IInv, ConnsOK
<1> DEFINE changed(cside, sside) == Changed(k, cside, sside, k.cpeer, k.speer, k.cflight, k.sflight)
<1>3. /\ [k EXCEPT !.cside = "closed"] = changed("closed", k.sside)
      /\ [k EXCEPT !.sside = "closed"] = changed(k.cside, "closed")
      /\ [k EXCEPT !.cside = "done"] = changed("done", k.sside)
      /\ [k EXCEPT !.sside = "done"] = changed(k.cside, "done")
    BY <1>1 DEF IsConn, Changed
<1> HIDE DEF changed
<1>4. PICK cside \in {k.cside, "closed", "done"}, sside \in {k.sside, "closed", "done"} :
        /\ j = changed(cside, sside)
        /\ cside = "done" => cside = k.cside \/ k.client = Foreign
        /\ sside = "done" => sside = k.sside \/ k.server = Foreign
    BY <1>3
<1>5. cside \in Sides \ {"sent"} /\ sside \in Sides
    BY <1>2 DEF Sides
<1>6. /\ IsConn(j)
      /\ j.client = k.client /\ j.server = k.server /\ j.clife = k.clife /\ j.slife = k.slife
      /\ j.intended = k.intended
      /\ j.cside = cside /\ j.sside = sside /\ j.cpeer = k.cpeer /\ j.speer = k.speer
      /\ j.cflight = k.cflight /\ j.sflight = k.sflight
    <2>1. HasFields(j, k, cside, sside, k.cpeer, k.speer, k.cflight, k.sflight)
        BY <1>1, <1>2, <1>4, <1>5, Updated DEF changed
    <2> QED BY <2>1 DEF HasFields
<1>7. EndsOK(j)
    BY <1>1, <1>4, <1>6, NodesAssumption DEF ConnOK, EndsOK, Over
<1>8. FlightsOK(j)
    BY <1>1, <1>6 DEF ConnOK, FlightsOK
<1>9. AcceptedOK(j)
    BY <1>1, <1>4, <1>6, NodesAssumption DEF ConnOK, AcceptedOK
<1>10. UNCHANGED <<proc, lives, at, found, heard, moves>> /\ dials' \in 0 .. MaxDials
    BY DEF ForeignFinishes, Close, IInv, PlacesOK
<1> QED BY <1>6, <1>7, <1>8, <1>9, <1>10, ConnInv DEF ConnOK

-------------------------------------------------------------------------------
(* The theorems.                                                             *)

LEMMA NextInv == IInv /\ [Next]_vars => IInv'
<1> SUFFICES ASSUME IInv, [Next]_vars PROVE IInv' OBVIOUS
<1>1. ASSUME NEW n \in Nodes, NEW a \in Arguments, Start(n, a) PROVE IInv'
    BY <1>1, StartInv
<1>2. ASSUME NEW n \in Nodes, Stop(n) PROVE IInv'
    BY <1>2, StopInv
<1>3. ASSUME NEW n \in Nodes, NEW h \in Hosts, Move(n, h) PROVE IInv'
    BY <1>3, DiscoveryInv
<1>4. ASSUME NEW n \in Nodes, NEW m \in Nodes, NEW l \in NameLengths, Answer(m, n, l) PROVE IInv'
    BY <1>4, DiscoveryInv
<1>5. ASSUME NEW n \in Nodes, NEW o \in Discovered(n), DialFound(n, o) PROVE IInv'
    BY <1>5, DialFoundInv
<1>6. ASSUME NEW n \in Nodes, NEW o \in Discovered(n), Expire(n, o) PROVE IInv'
    BY <1>6, DiscoveryInv
<1>7. ASSUME NEW n \in Nodes, ForeignDials(n) PROVE IInv'
    BY <1>7, ForeignDialsInv
<1>8. ASSUME NEW c \in Conns, ServerHello(c) PROVE IInv'
    BY <1>8, ServerHelloInv
<1>9. ASSUME NEW c \in Conns, ClientFinishes(c) PROVE IInv'
    BY <1>9, ClientFinishesInv
<1>10. ASSUME NEW c \in Conns, ServerFinishes(c) PROVE IInv'
    BY <1>10, ServerFinishesInv
<1>11. ASSUME NEW c \in Conns, ForeignFinishes(c) \/ Close(c) PROVE IInv'
    BY <1>11, SideInv
<1>12. CASE UNCHANGED vars
    <2>1. PlacesOK'
        BY <1>12 DEF vars, IInv, PlacesOK, Running
    <2> QED BY <1>12, <2>1, QuietInv DEF vars
<1> QED BY <1>1, <1>2, <1>3, <1>4, <1>5, <1>6, <1>7, <1>8, <1>9, <1>10, <1>11, <1>12 DEF Next

LEMMA InvHolds == Spec => []IInv
BY InitInv, NextInv, PTL DEF Spec

\* Processes have the keys of their machine or of their arguments, addresses lead to
\* hosts, and connections are between two different ones (start_network, Config).
THEOREM TypeCorrect == Spec => []TypeOK
BY InvHolds, InvGivesTypes, PTL

\* However many machines there are, and however often they are started with other keys
\* and addresses: a node reports a connection only with a process that has the same
\* pre-shared key, or has none as well (generate, parse, Config::new_with_psk).
THEOREM PskIsRequired == Spec => []SamePskOnly
BY InvHolds, InvGivesProperties, PTL

\* The PeerId of a connection is that of the process at its other end, and the one that
\* was dialled if the address had one (upgrade_inbound, upgrade_outbound).
THEOREM PeersAreAuthentic == Spec => []Authentic
BY InvHolds, InvGivesProperties, PTL

-------------------------------------------------------------------------------
(* Proofs about PeerAdmission: what the two ends of a handshake decide, for   *)
(* any number of machines, keys, restarts and foreign certificates.          *)

-------------------------------------------------------------------------------
(* The inductive invariant, on top of IInv.                                  *)

FlightOf(host, key, psk) ==
    [chain |-> <<generate(host, key, psk)>>, alpn |-> "ours",
     scheme |-> P2P_SIGNATURE_ALGORITHM, signature |-> Signature(key, P2P_SIGNATURE_ALGORITHM)]

\* An end that has turned the other away still runs, and would decide the same again.
DecidedOK(k) ==
    /\ "chacha20" \in k.suites
    /\ k.cside \in {"refused", "wrong_peer"} => Current(k.client, k.clife) /\ k.sflight # Nothing
    /\ k.cside = "refused" => AcceptedId(k.client, k.sflight) = Nothing
    /\ k.cside = "wrong_peer" =>
            /\ k.cpeer = AcceptedId(k.client, k.sflight) /\ k.cpeer # Nothing
            /\ k.intended \notin {Nothing, k.cpeer} \/ k.cpeer = proc[k.client].key
    /\ k.cside = "done" /\ k.client \in Nodes => k.cpeer # proc[k.client].key
    /\ k.sside \in {"refused", "wrong_peer"} => Current(k.server, k.slife) /\ k.cflight # Nothing
    /\ k.sside = "refused" => AcceptedId(k.server, k.cflight) = Nothing
    /\ k.sside = "wrong_peer" => AcceptedId(k.server, k.cflight) = proc[k.server].key

\* A connection to a process that was found is with one of the same pre-shared key
\* and another identity, and so is what the two have sent, even if one is gone.
SameKeys(k) ==
    /\ Current(k.client, k.clife) => proc[k.client].key # k.record.peer
    /\ Current(k.client, k.clife) /\ Current(k.server, k.slife) =>
            proc[k.client].psk = proc[k.server].psk /\ proc[k.server].key = k.record.peer
    /\ Current(k.client, k.clife) /\ k.sflight # Nothing =>
            /\ k.record.peer \in HostKeys
            /\ k.sflight = FlightOf(k.record.peer, <<k.server, k.slife, "server">>, proc[k.client].psk)
    /\ Current(k.server, k.slife) /\ k.cflight # Nothing =>
            \E host \in HostKeys \ {proc[k.server].key} :
                k.cflight = FlightOf(host, <<k.client, k.clife, "client">>, proc[k.server].psk)
RecordOK(k) ==
    k.record # Nothing =>
        /\ k.client \in Nodes /\ k.record.slot \in Nodes /\ k.intended = k.record.peer
        /\ k.server = k.record.slot /\ k.slife = k.record.life => SameKeys(k)

\* What the other program presents is one of its certificates.
ForeignOK(k) ==
    /\ k.server = Foreign /\ k.sflight # Nothing => \E j \in ForeignKinds : k.sflight = ForeignFlight(j)
    /\ k.client = Foreign => \E j \in ForeignKinds : k.cflight = ForeignFlight(j)

\* The process that a record is of, if it still runs, has the key of the name it was
\* found under.
FoundOK(n, r) ==
    /\ r.life \in Nat /\ r.life <= lives[r.slot]
    /\ r.peer # proc[n].key
    /\ Current(r.slot, r.life) => proc[r.slot].key = r.peer /\ proc[r.slot].psk = proc[n].psk

Decision(k) == DecidedOK(k) /\ RecordOK(k) /\ ForeignOK(k)
DInv ==
    /\ \A n \in Nodes : \A r \in found[n] : FoundOK(n, r)
    /\ \A c \in Conns : conn[c] = NoConn \/ Decision(conn[c])

-------------------------------------------------------------------------------
(* A certificate of this program is accepted by a process with the same      *)
(* pre-shared key, if its clock is right.                                    *)

\* What a certificate says of its host key is not taken for an error.
Decodes(host, key) ==
    Nothing \notin {HostSignature(host, key),
                    [public_key |-> host, signature |-> HostSignature(host, key)]}

LEMMA GeneratedIsRead ==
    ASSUME NEW host \in HostKeys, NEW key, NEW psk,
           Decodes(host, key)
    PROVE  parse_unverified(generate(host, key, psk), psk)
                = [public_key |-> host, signature |-> HostSignature(host, key)]
  <1> DEFINE ext == make_libp2p_extension(host, key, psk)
             cert == generate(host, key, psk)
             content == [public_key |-> host, signature |-> HostSignature(host, key)]
  <1>1. ext.key = host /\ ext.decodes = TRUE /\ ext.oid = "p2p"
    BY DEF make_libp2p_extension, P2pExt
  <1>2. ext.signature = [by |-> host, over |-> key, seal |-> IF psk = NoPsk THEN <<>> ELSE <<psk, host>>]
    BY DEF make_libp2p_extension, P2pExt, encrypt_ext_signature, HostSignature
  <1>3. (IF psk = NoPsk THEN ext.signature ELSE decrypt_ext_signature(ext.signature, psk, ext.key))
            = HostSignature(host, key)
    BY <1>1, <1>2 DEF decrypt_ext_signature, HostSignature
  <1>4. ExtensionContent(ext, psk) = content /\ content # Nothing
    BY <1>1, <1>3 DEF ExtensionContent, Decodes
  <1>5. cert.extensions = <<ext>>
    BY DEF generate
  <1> HIDE DEF ext, content
  <1>6. P2pAt(cert) = {1} /\ DOMAIN cert.extensions = {1} /\ cert.extensions[1] = ext
    BY <1>1, <1>5 DEF P2pAt
  <1> HIDE DEF cert
  <1>7. parse_unverified(cert, psk) = ExtensionContent(ext, psk)
    BY <1>1, <1>4, <1>6 DEF parse_unverified
  <1> QED
    BY <1>4, <1>7 DEF cert, content

LEMMA GeneratedScheme ==
    \A host, key, psk : signature_scheme(generate(host, key, psk)) = P2P_SIGNATURE_ALGORITHM
  <1> SUFFICES ASSUME NEW host, NEW key, NEW psk
               PROVE  signature_scheme(generate(host, key, psk)) = P2P_SIGNATURE_ALGORITHM
    OBVIOUS
  <1> DEFINE cert == generate(host, key, psk)
  <1>1. /\ cert.spki.alg = "ec" /\ cert.spki.curve = "p256"
        /\ cert.sigalg.alg = "ecdsa" /\ cert.sigalg.hash = "sha256"
    BY DEF generate
  <1> HIDE DEF cert
  <1>2. signature_scheme(cert) = <<"p256", "sha256">>
    BY <1>1 DEF signature_scheme
  <1> QED
    BY <1>2 DEF cert, P2P_SIGNATURE_ALGORITHM

LEMMA GeneratedParses ==
    \A host \in HostKeys, clock \in 1975 .. 4096 : \A key, psk : Decodes(host, key) =>
        /\ parse(generate(host, key, psk), psk, clock) = host
        /\ verify_signature(generate(host, key, psk), P2P_SIGNATURE_ALGORITHM,
                            Signature(key, P2P_SIGNATURE_ALGORITHM))
  <1> SUFFICES ASSUME NEW host \in HostKeys, NEW clock \in 1975 .. 4096, NEW key, NEW psk,
                      Decodes(host, key)
               PROVE  /\ parse(generate(host, key, psk), psk, clock) = host
                      /\ verify_signature(generate(host, key, psk), P2P_SIGNATURE_ALGORITHM,
                                          Signature(key, P2P_SIGNATURE_ALGORITHM))
    OBVIOUS
  <1> DEFINE cert == generate(host, key, psk)
             content == [public_key |-> host, signature |-> HostSignature(host, key)]
  <1>1. parse_unverified(cert, psk) = content /\ content # Nothing
    BY GeneratedIsRead DEF Decodes
  <1>2. /\ cert.not_before = 1975 /\ cert.not_after = 4096 /\ cert.spki.key = key
        /\ cert.signature = Signature(key, P2P_SIGNATURE_ALGORITHM)
    BY DEF generate
  <1>3. signature_scheme(cert) = P2P_SIGNATURE_ALGORITHM /\ P2P_SIGNATURE_ALGORITHM \in RingSchemes
    BY GeneratedScheme DEF P2P_SIGNATURE_ALGORITHM, RingSchemes
  <1> HIDE DEF cert
  <1>4. verify_signature(cert, P2P_SIGNATURE_ALGORITHM, Signature(key, P2P_SIGNATURE_ALGORITHM))
    BY <1>2, <1>3 DEF verify_signature, public_key
  <1>5. content.public_key = host /\ content.signature = HostSignature(host, key)
    OBVIOUS
  <1> HIDE DEF content
  <1>6. verify(cert, content, clock)
    BY <1>2, <1>3, <1>4, <1>5 DEF verify
  <1>7. parse(cert, psk, clock) = host
    BY <1>1, <1>5, <1>6 DEF parse
  <1> QED
    BY <1>4, <1>7 DEF cert

LEMMA OwnAccepted ==
    ASSUME ProcessesOK
    PROVE  \A n \in Nodes, m \in Nodes, life \in Nat, role \in {"client", "server"}, host \in HostKeys :
                ClockIsRight(n) /\ life <= lives[m]
                    => AcceptedId(n, FlightOf(host, <<m, life, role>>, proc[n].psk)) = host
  <1> SUFFICES ASSUME NEW n \in Nodes, NEW m \in Nodes, NEW life \in Nat,
                      NEW role \in {"client", "server"}, NEW host \in HostKeys,
                      ClockIsRight(n), life <= lives[m]
               PROVE  AcceptedId(n, FlightOf(host, <<m, life, role>>, proc[n].psk)) = host
    OBVIOUS
  <1> DEFINE key == <<m, life, role>>
             psk == proc[n].psk
             clock == proc[n].clock
             cert == generate(host, key, psk)
             f == FlightOf(host, key, psk)
  <1>1. lives[m] \in Nat /\ MaxStarts[m] \in Nat /\ lives[m] <= MaxStarts[m]
    BY NodesAssumption DEF ProcessesOK
  <1>2. life \in 0 .. MaxStarts[m]
    BY <1>1
  <1>3. Decodes(host, key)
    BY <1>2, NothingAssumption DEF Decodes
  <1>4. /\ f.chain = <<cert>> /\ f.alpn = "ours" /\ f.scheme = P2P_SIGNATURE_ALGORITHM
        /\ f.signature = Signature(key, P2P_SIGNATURE_ALGORITHM)
    BY DEF FlightOf
  <1>5. clock \in 1975 .. 4096
    BY DEF ClockIsRight
  <1> HIDE DEF f, clock, psk, key
  <1>6. /\ parse(cert, psk, clock) = host
        /\ verify_signature(cert, P2P_SIGNATURE_ALGORITHM, Signature(key, P2P_SIGNATURE_ALGORITHM))
    BY <1>3, <1>5, GeneratedParses
  <1>7. host # Nothing /\ P2P_SIGNATURE_ALGORITHM \in verification_schemes
    BY KeysAssumption DEF P2P_SIGNATURE_ALGORITHM, verification_schemes
  <1> HIDE DEF cert
  <1>8. f.chain[1] = cert /\ Len(f.chain) = 1
    BY <1>4
  <1>9. verify_presented_certs(f.chain, psk, clock) = host
    BY <1>6, <1>8 DEF verify_presented_certs
  <1>10. verify_tls13_signature(f.chain, f.scheme, f.signature, psk, clock)
    BY <1>4, <1>6, <1>7, <1>8 DEF verify_tls13_signature
  <1>11. AcceptedId(n, f) = host
    BY <1>4, <1>7, <1>9, <1>10 DEF AcceptedId, psk, clock
  <1> QED
    BY <1>11 DEF f, key, psk

LEMMA FlightIsOwn ==
    \A n, role : Flight(n, role) = FlightOf(proc[n].key, <<n, proc[n].life, role>>, proc[n].psk)
  BY DEF Flight, FlightOf

-------------------------------------------------------------------------------
(* It is what the theorems need.                                             *)

LEMMA DecisionsGiveAdmission ==
    ASSUME IInv, DInv PROVE NoHalfOpen /\ DiscoveredIsAdmitted
  <1>1. ASSUME NEW c \in Live, NEW k, k = conn[c]
        PROVE  /\ ConnOK(k) /\ Decision(k) /\ ProcessesOK
               /\ k.clife \in Nat /\ k.slife \in Nat
               /\ Current(k.client, k.clife) =>
                        /\ k.client \in Nodes /\ Running(k.client)
                        /\ k.clife <= lives[k.client] /\ proc[k.client].life = k.clife
               /\ Current(k.server, k.slife) =>
                        /\ k.server \in Nodes /\ Running(k.server)
                        /\ k.slife <= lives[k.server] /\ proc[k.server].life = k.slife
    BY <1>1 DEF IInv, DInv, ConnsOK, Live, ConnOK, IsConn, EndsOK, Current
  <1>2. ASSUME NEW c \in Live, conn[c].cside = "done", conn[c].client \in Nodes,
               conn[c].sside \in {"refused", "wrong_peer"}, ClockIsRight(conn[c].server)
        PROVE  FALSE
    <2> PICK k : k = conn[c]
      OBVIOUS
    <2> DEFINE n == k.client
               m == k.server
    <2>1. Current(n, k.clife) /\ Current(m, k.slife)
      BY <1>1, <1>2 DEF ConnOK, EndsOK, Over, Decision, DecidedOK
    <2>2. k.cpeer # proc[n].key /\ k.cpeer # Nothing /\ k.cpeer = AcceptedId(n, k.sflight) /\ k.sflight # Nothing
      BY <1>1, <1>2 DEF ConnOK, AcceptedOK, Decision, DecidedOK
    <2>3. k.sflight = Flight(m, "server")
      BY <1>1, <2>1, <2>2 DEF ConnOK, FlightsOK
    <2>4. proc[n].psk = proc[m].psk /\ k.cpeer = proc[m].key
      BY <1>1, <2>1, <2>2, <2>3, AcceptsOwnKind
    <2>5. k.cflight # Nothing /\ k.cflight = Flight(n, "client")
      BY <1>1, <1>2, <2>1 DEF ConnOK, FlightsOK, Decision, DecidedOK
    <2>6. k.cflight = FlightOf(proc[n].key, <<n, k.clife, "client">>, proc[m].psk)
      BY <1>1, <2>1, <2>4, <2>5, FlightIsOwn
    <2>7. proc[n].key \in HostKeys
      BY <1>1, <2>1, ProcessOfRunning DEF IsProcess
    <2>8. AcceptedId(m, k.cflight) = proc[n].key
      <3>1. /\ ProcessesOK /\ m \in Nodes /\ Running(m) /\ ClockIsRight(m)
            /\ n \in Nodes /\ k.clife \in Nat /\ k.clife <= lives[n]
        BY <1>1, <1>2, <2>1
      <3>2. AcceptedId(m, FlightOf(proc[n].key, <<n, k.clife, "client">>, proc[m].psk)) = proc[n].key
        BY <2>7, <3>1, OwnAccepted
      <3> QED
        BY <2>6, <3>2
    <2>9. AcceptedId(m, k.cflight) \in {Nothing, proc[m].key}
      BY <1>1, <1>2 DEF Decision, DecidedOK
    <2> QED
      BY <2>2, <2>4, <2>7, <2>8, <2>9, KeysAssumption
  <1>3. ASSUME NEW c \in Live, NEW k, k = conn[c], k.record # Nothing,
               k.server = k.record.slot, k.slife = k.record.life
        PROVE  /\ k.cside \in {"refused", "wrong_peer"} => ~ClockIsRight(k.client)
               /\ k.sside \in {"refused", "wrong_peer"} => ~ClockIsRight(k.server)
    <2>0. k.client \in Nodes /\ k.intended = k.record.peer /\ SameKeys(k)
      BY <1>1, <1>3 DEF Decision, RecordOK
    <2>1. ASSUME k.cside \in {"refused", "wrong_peer"}, ClockIsRight(k.client) PROVE FALSE
      <3>1. Current(k.client, k.clife) /\ k.sflight # Nothing
        BY <1>1, <1>3, <2>1 DEF Decision, DecidedOK
      <3>2. /\ k.record.peer \in HostKeys /\ k.record.peer # proc[k.client].key
            /\ k.sflight = FlightOf(k.record.peer, <<k.server, k.slife, "server">>, proc[k.client].psk)
        BY <2>0, <3>1 DEF SameKeys
      <3>3. k.server \in Nodes /\ k.slife <= lives[k.server]
        <4>1. k.record.slot \in Nodes
          BY <1>1, <1>3 DEF Decision, RecordOK
        <4> QED
          BY <1>1, <1>3, <4>1 DEF ConnOK, EndsOK
      <3>4. AcceptedId(k.client, k.sflight) = k.record.peer
        <4>1. ProcessesOK /\ k.client \in Nodes /\ Running(k.client) /\ k.slife \in Nat
          BY <1>1, <1>3, <3>1
        <4>2. AcceptedId(k.client, FlightOf(k.record.peer, <<k.server, k.slife, "server">>, proc[k.client].psk))
                = k.record.peer
          BY <2>1, <3>2, <3>3, <4>1, OwnAccepted
        <4> QED
          BY <3>2, <4>2
      <3> QED
        BY <1>1, <1>3, <2>0, <2>1, <3>2, <3>4, KeysAssumption DEF Decision, DecidedOK
    <2>2. ASSUME k.sside \in {"refused", "wrong_peer"}, ClockIsRight(k.server) PROVE FALSE
      <3>1. Current(k.server, k.slife) /\ k.cflight # Nothing
        BY <1>1, <1>3, <2>2 DEF Decision, DecidedOK
      <3>2. PICK host \in HostKeys \ {proc[k.server].key} :
                k.cflight = FlightOf(host, <<k.client, k.clife, "client">>, proc[k.server].psk)
        BY <2>0, <3>1 DEF SameKeys
      <3>3. k.clife <= lives[k.client]
        BY <1>1, <1>3, <2>0 DEF ConnOK, EndsOK
      <3>4. AcceptedId(k.server, k.cflight) = host
        <4>1. ProcessesOK /\ k.server \in Nodes /\ Running(k.server) /\ k.clife \in Nat
          BY <1>1, <1>3, <3>1
        <4>2. AcceptedId(k.server, FlightOf(host, <<k.client, k.clife, "client">>, proc[k.server].psk)) = host
          BY <2>0, <2>2, <3>2, <3>3, <4>1, OwnAccepted
        <4> QED
          BY <3>2, <4>2
      <3> QED
        BY <1>1, <1>3, <2>2, <3>2, <3>4, KeysAssumption DEF Decision, DecidedOK
    <2> QED
      BY <2>1, <2>2
  <1> QED
    BY <1>2, <1>3 DEF NoHalfOpen, DiscoveredIsAdmitted

-------------------------------------------------------------------------------
(* What changes of processes leave as it was.                                *)

LEMMA InitDecision == Init => DInv
  BY DEF Init, DInv

LEMMA SameDecision ==
    ASSUME proc' = proc, NEW k, Decision(k)
    PROVE  Decision(k)'
  <1>1. DecidedOK(k)'
    BY DEF Decision, DecidedOK, Current, Running, AcceptedId
  <1>2. SameKeys(k) => SameKeys(k)'
    BY DEF SameKeys, Current, Running, FlightOf
  <1>3. RecordOK(k)'
    BY <1>2 DEF Decision, RecordOK
  <1> QED
    BY <1>1, <1>3 DEF Decision, ForeignOK

\* The same connection, of which an end may have been closed, or another program done.
Closes(j, k) ==
    /\ j.client = k.client /\ j.server = k.server /\ j.clife = k.clife /\ j.slife = k.slife
    /\ j.suites = k.suites /\ j.intended = k.intended /\ j.record = k.record
    /\ j.cpeer = k.cpeer /\ j.cflight = k.cflight /\ j.sflight = k.sflight
    /\ j.cside \in {k.cside, "closed"} \/ (k.client = Foreign /\ j.cside = "done")
    /\ j.sside \in {k.sside, "closed"} \/ (k.server = Foreign /\ j.sside = "done")

\* Decisions of processes that run on are kept, and others are closed.
LEMMA DecisionKept ==
    ASSUME NEW k, EndsOK(k), Decision(k), NEW j, Closes(j, k),
           Current(k.client, k.clife)' => proc'[k.client] = proc[k.client],
           Current(k.server, k.slife)' => proc'[k.server] = proc[k.server],
           Current(k.client, k.clife) /\ j.cside # "closed" => proc'[k.client] = proc[k.client],
           Current(k.server, k.slife) /\ j.sside # "closed" => proc'[k.server] = proc[k.server]
    PROVE  Decision(j)'
  <1>0. Foreign \notin Nodes
    BY NodesAssumption
  <1>1. ASSUME Current(k.client, k.clife)'
        PROVE  Current(k.client, k.clife) /\ proc'[k.client] = proc[k.client]
    BY <1>1 DEF Current, Running
  <1>2. ASSUME Current(k.server, k.slife)'
        PROVE  Current(k.server, k.slife) /\ proc'[k.server] = proc[k.server]
    BY <1>2 DEF Current, Running
  <1>3. ASSUME j.cside # "closed", Current(k.client, k.clife)
        PROVE  /\ Current(k.client, k.clife)' /\ proc'[k.client] = proc[k.client]
               /\ \A f : AcceptedId(k.client, f)' = AcceptedId(k.client, f)
    BY <1>3 DEF Current, Running, AcceptedId
  <1>4. ASSUME j.sside # "closed", Current(k.server, k.slife)
        PROVE  /\ Current(k.server, k.slife)' /\ proc'[k.server] = proc[k.server]
               /\ \A f : AcceptedId(k.server, f)' = AcceptedId(k.server, f)
    BY <1>4 DEF Current, Running, AcceptedId
  <1>5. k.client \in Nodes /\ k.cside = "done" => Current(k.client, k.clife)
    BY DEF EndsOK, Over
  <1>6. DecidedOK(j)'
    <2>1. /\ j.cside \in {"refused", "wrong_peer"} => j.cside = k.cside
          /\ j.sside \in {"refused", "wrong_peer"} => j.sside = k.sside
          /\ j.cside = "done" /\ j.client \in Nodes => k.cside = "done"
      BY <1>0 DEF Closes
    <2>2. "chacha20" \in j.suites
      BY DEF Closes, Decision, DecidedOK
    <2>3. ASSUME j.cside \in {"refused", "wrong_peer"}
          PROVE  /\ Current(j.client, j.clife)' /\ j.sflight # Nothing
                 /\ j.cside = "refused" => AcceptedId(j.client, j.sflight)' = Nothing
                 /\ j.cside = "wrong_peer" =>
                        /\ j.cpeer = AcceptedId(j.client, j.sflight)' /\ j.cpeer # Nothing
                        /\ j.intended \notin {Nothing, j.cpeer} \/ j.cpeer = proc'[j.client].key
      BY <1>3, <2>1, <2>3 DEF Closes, Decision, DecidedOK
    <2>4. ASSUME j.sside \in {"refused", "wrong_peer"}
          PROVE  /\ Current(j.server, j.slife)' /\ j.cflight # Nothing
                 /\ j.sside = "refused" => AcceptedId(j.server, j.cflight)' = Nothing
                 /\ j.sside = "wrong_peer" => AcceptedId(j.server, j.cflight)' = proc'[j.server].key
      BY <1>4, <2>1, <2>4 DEF Closes, Decision, DecidedOK
    <2>5. ASSUME j.cside = "done", j.client \in Nodes
          PROVE  j.cpeer # proc'[j.client].key
      BY <1>3, <1>5, <2>1, <2>5 DEF Closes, Decision, DecidedOK
    <2> QED
      BY <2>2, <2>3, <2>4, <2>5 DEF DecidedOK
  <1>7. SameKeys(k) => SameKeys(j)'
    BY <1>1, <1>2 DEF Closes, SameKeys, FlightOf
  <1>8. RecordOK(j)'
    BY <1>7 DEF Closes, Decision, RecordOK
  <1>9. ForeignOK(j)'
    BY DEF Closes, Decision, ForeignOK
  <1> QED
    BY <1>6, <1>8, <1>9 DEF Decision

\* What was found of a process that runs on is as it was.
LEMMA FoundKept ==
    ASSUME NEW n, NEW r, FoundOK(n, r), r.slot \in Nodes, proc'[n] = proc[n],
           lives[r.slot] \in Nat, lives'[r.slot] \in Nat, lives[r.slot] <= lives'[r.slot],
           Current(r.slot, r.life)' => proc'[r.slot] = proc[r.slot]
    PROVE  FoundOK(n, r)'
  <1>1. ASSUME Current(r.slot, r.life)'
        PROVE  Current(r.slot, r.life) /\ proc'[r.slot] = proc[r.slot]
    BY <1>1 DEF Current, Running
  <1> QED
    BY <1>1 DEF FoundOK

-------------------------------------------------------------------------------
(* Steps that change no process.                                             *)

\* One connection changes.
LEMMA ConnDecision ==
    ASSUME IInv, DInv, UNCHANGED <<proc, lives, found>>,
           NEW c \in Conns, NEW j, Decision(j), conn' = [conn EXCEPT ![c] = j]
    PROVE  DInv'
  <1>1. \A k : Decision(k) => Decision(k)'
    BY SameDecision
  <1>2. (\A d \in Conns : conn[d] = NoConn \/ Decision(conn[d]))'
    BY <1>1 DEF DInv, IInv, ConnsOK
  <1>3. \A n \in Nodes : \A r \in found'[n] : FoundOK(n, r)'
    BY DEF DInv, FoundOK, Current, Running
  <1> QED
    BY <1>2, <1>3 DEF DInv

\* No connection changes.
LEMMA QuietDecision ==
    ASSUME IInv, DInv, UNCHANGED <<proc, lives, conn>>,
           \A n \in Nodes : \A r \in found'[n] : FoundOK(n, r)
    PROVE  DInv'
  <1>1. \A k : Decision(k) => Decision(k)'
    BY SameDecision
  <1>2. \A n \in Nodes : \A r \in found'[n] : FoundOK(n, r)'
    BY DEF FoundOK, Current, Running
  <1> QED
    BY <1>1, <1>2 DEF DInv

\* A node that answers under the same service name has the same pre-shared key.
LEMMA AnswerDecision ==
    ASSUME IInv, DInv, NEW n \in Nodes, NEW m \in Nodes, NEW l \in NameLengths, Answer(m, n, l)
    PROVE  DInv'
  <1> DEFINE packets == build_query_response(proc[m].listen)
             read(arrived) == {p \in arrived :
                    IsParsed(packets[p], proc[m].listen, l, proc[m].psk # NoPsk)}
             indices(arrived) == UNION {AddressesIn(packets[p]) : p \in read(arrived)}
  <1>1. /\ Running(m) /\ Running(n) /\ UNCHANGED <<proc, lives, conn>>
        /\ service_name(proc[m].psk) = service_name(proc[n].psk)
    BY DEF Answer
  <1>2. PICK arrived :
            found' = [found EXCEPT ![n] =
                IF proc[m].key = proc[n].key THEN found[n]
                ELSE found[n] \cup {Record(Self(m), i) : i \in indices(arrived)}]
    BY DEF Answer
  <1> HIDE DEF indices
  <1>3. proc[m].psk = proc[n].psk
    BY <1>1, KeysAssumption DEF service_name
  <1>4. proc[m].life = lives[m] /\ lives[m] \in Nat
    BY <1>1, ProcessOfRunning DEF IInv, ProcessesOK
  <1>5. ASSUME NEW i, proc[m].key # proc[n].key, NEW r, r = Record(Self(m), i)
        PROVE  FoundOK(n, r)
    <2>1. r.peer = proc[m].key /\ r.slot = m /\ r.life = lives[m]
      BY <1>5 DEF Record, Self
    <2> QED
      BY <1>3, <1>4, <1>5, <2>1 DEF FoundOK
  <1>6. ASSUME NEW h \in Nodes, NEW r \in found'[h] PROVE FoundOK(h, r)
    <2>1. CASE r \in found[h]
      BY <2>1 DEF DInv
    <2>2. CASE r \notin found[h]
      <3>1. h = n /\ proc[m].key # proc[n].key /\ r \in {Record(Self(m), i) : i \in indices(arrived)}
        BY <1>2, <1>6, <2>2 DEF IInv, PlacesOK
      <3> QED
        BY <1>5, <3>1
    <2> QED
      BY <2>1, <2>2
  <1> QED
    BY <1>1, <1>6, QuietDecision

LEMMA ExpireDecision ==
    ASSUME IInv, DInv, NEW n \in Nodes, NEW o, Expire(n, o)
    PROVE  DInv'
  <1>1. \A h \in Nodes : found'[h] \subseteq found[h]
    BY DEF Expire, IInv, PlacesOK
  <1> QED
    BY <1>1, QuietDecision DEF Expire, DInv

\* The process that is dialled, if it is the one that was found.
RecordFits(client, clife, server, intended, record) ==
    record # Nothing =>
        /\ record.slot \in Nodes /\ intended = record.peer
        /\ server = record.slot /\ LifeOf(server) = record.life =>
                /\ Current(client, clife) => proc[client].key # record.peer
                /\ Current(client, clife) /\ Current(server, record.life) =>
                        proc[client].psk = proc[server].psk /\ proc[server].key = record.peer

\* Another connection, before anything is sent by a node.
LEMMA NewDecision ==
    \A client \in Hosts : \A clife, aes, server, intended, record, f, k :
        /\ client = Foreign => (\E i \in ForeignKinds : f = ForeignFlight(i)) /\ record = Nothing
        /\ client # Foreign => f = Nothing
        /\ k = [NewConn(client, clife, cipher_suites(aes), server, intended, record) EXCEPT !.cflight = f]
        /\ RecordFits(client, clife, server, intended, record)
        => Decision(k)
  <1> SUFFICES ASSUME NEW client \in Hosts, NEW clife, NEW aes, NEW server, NEW intended, NEW record, NEW f,
                      client = Foreign => (\E i \in ForeignKinds : f = ForeignFlight(i)) /\ record = Nothing,
                      client # Foreign => f = Nothing,
                      NEW k,
                      k = [NewConn(client, clife, cipher_suites(aes), server, intended, record) EXCEPT !.cflight = f],
                      RecordFits(client, clife, server, intended, record)
               PROVE  Decision(k)
    OBVIOUS
  <1>1. /\ k.client = client /\ k.clife = clife /\ k.suites = cipher_suites(aes) /\ k.server = server
        /\ k.slife = LifeOf(server) /\ k.intended = intended /\ k.record = record
        /\ k.cside = "hello" /\ k.sside = "hello" /\ k.cflight = f /\ k.sflight = Nothing
    BY DEF NewConn
  <1>2. "chacha20" \in cipher_suites(aes)
    BY DEF cipher_suites
  <1>3. DecidedOK(k)
    BY <1>1, <1>2 DEF DecidedOK
  <1>4. ASSUME record # Nothing PROVE f = Nothing /\ client \in Nodes
    BY <1>4 DEF Hosts
  <1>5. RecordOK(k)
    <2> SUFFICES ASSUME record # Nothing
                 PROVE  RecordOK(k)
      BY <1>1 DEF RecordOK
    <2>1. ASSUME server = record.slot, LifeOf(server) = record.life PROVE SameKeys(k)
      BY <1>1, <1>4, <2>1 DEF SameKeys, RecordFits
    <2> QED
      BY <1>1, <1>4, <2>1 DEF RecordOK, RecordFits
  <1>6. ForeignOK(k)
    BY <1>1 DEF ForeignOK
  <1> QED
    BY <1>3, <1>5, <1>6 DEF Decision

LEMMA DialDecision ==
    \A client \in Nodes : \A clife, aes, server, intended, record :
        RecordFits(client, clife, server, intended, record)
            => Decision(NewConn(client, clife, cipher_suites(aes), server, intended, record))
  <1> SUFFICES ASSUME NEW client \in Nodes, NEW clife, NEW aes, NEW server, NEW intended, NEW record,
                      RecordFits(client, clife, server, intended, record),
                      NEW k, k = NewConn(client, clife, cipher_suites(aes), server, intended, record)
               PROVE  Decision(k)
    OBVIOUS
  <1>1. k = [NewConn(client, clife, cipher_suites(aes), server, intended, record) EXCEPT !.cflight = Nothing]
    BY DEF NewConn
  <1>2. client \in Hosts /\ client # Foreign
    BY NodesAssumption DEF Hosts
  <1> QED
    BY <1>1, <1>2, NewDecision

LEMMA DialFoundDecision ==
    ASSUME IInv, DInv, NEW n \in Nodes, NEW o \in Discovered(n), DialFound(n, o)
    PROVE  DInv'
  <1>1. UNCHANGED <<proc, lives, found>> /\ Dial(n, lives[n], proc[n].aes, o.slot, o.peer, o)
    BY DEF DialFound
  <1> PICK r \in found[n] : o = Origin(r)
    BY DEF Discovered
  <1>2. o.peer = r.peer /\ o.slot = r.slot /\ o.life = r.life
    BY DEF Origin
  <1>3. FoundOK(n, r) /\ r.slot \in Nodes
    BY DEF DInv, IInv, PlacesOK
  <1>4. CASE Reachable(n, at[o.slot])
    <2> PICK server : server = at[o.slot]
      OBVIOUS
    <2> PICK c \in Conns : \E k :
            /\ k = NewConn(n, lives[n], cipher_suites(proc[n].aes), server, o.peer, o)
            /\ conn' = [conn EXCEPT ![c] = k]
      BY <1>1, <1>4 DEF Dial
    <2> PICK k :
            /\ k = NewConn(n, lives[n], cipher_suites(proc[n].aes), server, o.peer, o)
            /\ conn' = [conn EXCEPT ![c] = k]
      OBVIOUS
    <2>1. /\ o.slot \in Nodes
          /\ proc[n].key # o.peer
          /\ server = o.slot /\ Current(server, o.life) =>
                proc[n].psk = proc[server].psk /\ proc[server].key = o.peer
      BY <1>2, <1>3 DEF FoundOK
    <2>2. RecordFits(n, lives[n], server, o.peer, o)
      BY <2>1 DEF RecordFits
    <2>3. Decision(k)
      BY <2>2, DialDecision
    <2> QED
      BY <1>1, <2>3, ConnDecision
  <1>5. CASE ~Reachable(n, at[o.slot])
    <2>1. conn' = conn
      BY <1>1, <1>5 DEF Dial
    <2> QED
      BY <1>1, <2>1, QuietDecision DEF DInv
  <1> QED
    BY <1>4, <1>5

LEMMA ForeignIsKind ==
    ASSUME NEW n, NEW f \in ForeignPresents(n)
    PROVE  \E i \in ForeignKinds : f = ForeignFlight(i)
  BY NodesAssumption DEF ForeignPresents

LEMMA ForeignDialsDecision ==
    ASSUME IInv, DInv, NEW n \in Nodes, ForeignDials(n)
    PROVE  DInv'
  <1> PICK c \in Conns, f \in ForeignPresents(n) :
            conn' = [conn EXCEPT ![c] =
                [NewConn(Foreign, 0, cipher_suites(TRUE), n, Nothing, Nothing) EXCEPT !.cflight = f]]
    BY DEF ForeignDials
  <1> PICK k : k = [NewConn(Foreign, 0, cipher_suites(TRUE), n, Nothing, Nothing) EXCEPT !.cflight = f]
    OBVIOUS
  <1>1. UNCHANGED <<proc, lives, found>>
    BY DEF ForeignDials
  <1>2. (\E i \in ForeignKinds : f = ForeignFlight(i)) /\ Foreign \in Hosts
    BY ForeignIsKind DEF Hosts
  <1>3. RecordFits(Foreign, 0, n, Nothing, Nothing)
    BY DEF RecordFits
  <1>4. Decision(k)
    BY <1>2, <1>3, NewDecision
  <1> QED
    BY <1>1, <1>4, ConnDecision

-------------------------------------------------------------------------------
(* The handshake.                                                            *)

\* A server has a cipher suite in common with every client.
LEMMA ServerHelloDecision ==
    ASSUME IInv, DInv, NEW c \in Conns, ServerHello(c)
    PROVE  DInv'
  <1> PICK k : k = conn[c]
    OBVIOUS
  <1>1. ConnOK(k) /\ IsConn(k) /\ Decision(k) /\ k.sside = "hello"
    BY DEF ServerHello, IInv, DInv, ConnsOK, ConnOK, NoConn
  <1>2. k.sflight = Nothing /\ k.cside \notin {"refused", "wrong_peer"}
    BY <1>1 DEF ConnOK, AcceptedOK, Decision, DecidedOK
  <1>3. k.suites \cap SuitesOf(k.server) # {}
    BY <1>1 DEF Decision, DecidedOK, SuitesOf, cipher_suites
  <1> PICK f \in IF k.server = Foreign THEN ForeignPresents(k.client) ELSE {Flight(k.server, "server")} :
            conn' = [conn EXCEPT ![c] = [k EXCEPT !.sside = "sent", !.sflight = f]]
    BY <1>3 DEF ServerHello, IInv, ConnsOK
  <1> PICK j : j = [k EXCEPT !.sside = "sent", !.sflight = f]
    OBVIOUS
  <1>4. HasFields(j, k, k.cside, "sent", k.cpeer, k.speer, k.cflight, f)
    <2>1. j = Changed(k, k.cside, "sent", k.cpeer, k.speer, k.cflight, f)
      BY <1>1 DEF IsConn, Changed
    <2>2. /\ k.cside \in Sides \ {"sent"} /\ "sent" \in Sides
          /\ k.cpeer \in HostKeys \cup {Nothing} /\ k.speer \in HostKeys \cup {Nothing}
      BY <1>1 DEF IsConn, Sides
    <2> QED
      BY <1>1, <2>1, <2>2, Updated
  <1>5. DecidedOK(j)
    BY <1>1, <1>2, <1>4 DEF HasFields, Decision, DecidedOK
  <1>6. ASSUME k.record # Nothing, k.server = k.record.slot, k.slife = k.record.life
        PROVE  SameKeys(j)
    <2>1. SameKeys(k) /\ k.client \in Nodes /\ k.server \in Nodes /\ k.server # Foreign
      BY <1>1, <1>6, NodesAssumption DEF Decision, RecordOK
    <2>2. Current(k.server, k.slife) /\ proc[k.server].life = k.slife
      BY <1>1, <2>1 DEF ConnOK, EndsOK, Over, Current
    <2>3. f = FlightOf(proc[k.server].key, <<k.server, k.slife, "server">>, proc[k.server].psk)
      BY <2>1, <2>2, FlightIsOwn
    <2>4. proc[k.server].key \in HostKeys
      BY <2>2, ProcessOfRunning DEF IInv, Current, IsProcess
    <2>5. Current(k.client, k.clife) =>
            /\ k.record.peer \in HostKeys
            /\ f = FlightOf(k.record.peer, <<k.server, k.slife, "server">>, proc[k.client].psk)
      BY <2>1, <2>2, <2>3, <2>4 DEF SameKeys
    <2> QED
      BY <1>4, <2>1, <2>5 DEF HasFields, SameKeys
  <1>7. RecordOK(j)
    BY <1>1, <1>4, <1>6 DEF HasFields, Decision, RecordOK
  <1>8. ForeignOK(j)
    <2>1. k.server = Foreign => \E i \in ForeignKinds : f = ForeignFlight(i)
      BY ForeignIsKind
    <2> QED
      BY <1>1, <1>4, <2>1 DEF HasFields, Decision, ForeignOK
  <1> QED
    BY <1>5, <1>7, <1>8, ConnDecision DEF ServerHello, Decision

LEMMA ClientFinishesDecision ==
    ASSUME IInv, DInv, NEW c \in Conns, ClientFinishes(c)
    PROVE  DInv'
  <1> PICK k : k = conn[c]
    OBVIOUS
  <1>1. ConnOK(k) /\ IsConn(k) /\ Decision(k) /\ k.cside = "hello" /\ k.client # Foreign /\ k.sflight # Nothing
    BY DEF ClientFinishes, IInv, DInv, ConnsOK, ConnOK, NoConn
  <1>2. k.client \in Nodes /\ Current(k.client, k.clife) /\ Running(k.client) /\ proc[k.client].life = k.clife
    BY <1>1 DEF ConnOK, EndsOK, Over, IsConn, Hosts, Current
  <1>3. k.cflight = Nothing /\ k.sside \notin {"refused", "wrong_peer"}
    BY <1>1, <1>2 DEF ConnOK, AcceptedOK, Decision, DecidedOK
  <1> PICK id : id = AcceptedId(k.client, k.sflight)
    OBVIOUS
  <1> PICK f : f = Flight(k.client, "client")
    OBVIOUS
  <1>4. id \in HostKeys \cup {Nothing}
    BY <1>1, AcceptedIsHostKey DEF ConnOK, FlightsOK
  <1>5. k.sside \in Sides /\ k.cpeer \in HostKeys \cup {Nothing} /\ k.speer \in HostKeys \cup {Nothing}
    BY <1>1 DEF IsConn
  <1>6. UNCHANGED <<proc, lives, found>>
    BY DEF ClientFinishes
  <1>7. CASE id = Nothing
    <2> PICK j : j = [k EXCEPT !.cside = "refused"]
      OBVIOUS
    <2>1. conn' = [conn EXCEPT ![c] = j]
      BY <1>7 DEF ClientFinishes, IInv, ConnsOK
    <2>2. HasFields(j, k, "refused", k.sside, k.cpeer, k.speer, Nothing, k.sflight)
      <3>1. j = Changed(k, "refused", k.sside, k.cpeer, k.speer, Nothing, k.sflight)
        BY <1>1, <1>3 DEF IsConn, Changed
      <3>2. "refused" \in Sides \ {"sent"}
        BY DEF Sides
      <3> QED
        BY <1>1, <1>5, <3>1, <3>2, Updated
    <2>3. DecidedOK(j)
      BY <1>1, <1>2, <1>3, <1>7, <2>2 DEF HasFields, Decision, DecidedOK
    <2>4. SameKeys(k) => SameKeys(j)
      BY <1>3, <2>2 DEF HasFields, SameKeys
    <2>5. RecordOK(j) /\ ForeignOK(j)
      BY <1>1, <1>3, <2>2, <2>4 DEF HasFields, Decision, RecordOK, ForeignOK
    <2> QED
      BY <1>6, <2>1, <2>3, <2>5, ConnDecision DEF Decision
  <1>8. CASE id # Nothing
    <2> DEFINE right == RightPeer(k.client, k.intended, id)
    <2> PICK side : side = IF right THEN "done" ELSE "wrong_peer"
      OBVIOUS
    <2> PICK j : j = [k EXCEPT !.cside = side, !.cpeer = id, !.cflight = f]
      OBVIOUS
    <2>1. conn' = [conn EXCEPT ![c] = j]
      BY <1>8 DEF ClientFinishes, IInv, ConnsOK
    <2>2. /\ side = "done" => id # proc[k.client].key
          /\ side = "wrong_peer" => k.intended \notin {Nothing, id} \/ id = proc[k.client].key
      BY DEF RightPeer
    <2>3. side \in {"done", "wrong_peer"} /\ side \in Sides \ {"sent"}
      BY DEF Sides
    <2> HIDE DEF right
    <2>4. HasFields(j, k, side, k.sside, id, k.speer, f, k.sflight)
      <3>1. j = Changed(k, side, k.sside, id, k.speer, f, k.sflight)
        BY <1>1 DEF IsConn, Changed
      <3> QED
        BY <1>1, <1>4, <1>5, <2>3, <3>1, Updated
    <2>5. DecidedOK(j)
      BY <1>1, <1>2, <1>3, <1>8, <2>2, <2>3, <2>4 DEF HasFields, Decision, DecidedOK
    <2>6. ASSUME SameKeys(k), Current(k.server, k.slife)
          PROVE  \E host \in HostKeys \ {proc[k.server].key} :
                    f = FlightOf(host, <<k.client, k.clife, "client">>, proc[k.server].psk)
      <3>1. /\ proc[k.client].psk = proc[k.server].psk
            /\ proc[k.client].key # proc[k.server].key
        BY <1>2, <2>6 DEF SameKeys
      <3>2. proc[k.client].key \in HostKeys
        BY <1>2, ProcessOfRunning DEF IInv, IsProcess
      <3>3. f = FlightOf(proc[k.client].key, <<k.client, k.clife, "client">>, proc[k.server].psk)
        BY <1>2, <3>1, FlightIsOwn
      <3> QED
        BY <3>1, <3>2, <3>3
    <2>7. SameKeys(k) => SameKeys(j)
      BY <2>4, <2>6 DEF HasFields, SameKeys
    <2>8. RecordOK(j) /\ ForeignOK(j)
      BY <1>1, <2>4, <2>7 DEF HasFields, Decision, RecordOK, ForeignOK
    <2> QED
      BY <1>6, <2>1, <2>5, <2>8, ConnDecision DEF Decision
  <1> QED
    BY <1>7, <1>8

LEMMA ServerFinishesDecision ==
    ASSUME IInv, DInv, NEW c \in Conns, ServerFinishes(c)
    PROVE  DInv'
  <1> PICK k : k = conn[c]
    OBVIOUS
  <1>1. ConnOK(k) /\ IsConn(k) /\ Decision(k) /\ k.sside = "sent" /\ k.server # Foreign /\ k.cflight # Nothing
    BY DEF ServerFinishes, IInv, DInv, ConnsOK, ConnOK, NoConn
  <1>2. k.server \in Nodes /\ Current(k.server, k.slife)
    BY <1>1 DEF ConnOK, EndsOK, Over, IsConn, Hosts
  <1> PICK id : id = AcceptedId(k.server, k.cflight)
    OBVIOUS
  <1>3. id \in HostKeys \cup {Nothing}
    BY <1>1, AcceptedIsHostKey DEF ConnOK, FlightsOK
  <1>4. k.cside \in Sides \ {"sent"} /\ k.cpeer \in HostKeys \cup {Nothing} /\ k.speer \in HostKeys \cup {Nothing}
    BY <1>1 DEF IsConn
  <1> PICK j :
        /\ conn' = [conn EXCEPT ![c] = j]
        /\ \/ id = Nothing /\ j = [k EXCEPT !.sside = "refused"]
           \/ j = [k EXCEPT !.sside = "done", !.speer = id]
           \/ id = proc[k.server].key /\ j = [k EXCEPT !.sside = "wrong_peer", !.speer = id]
    BY DEF ServerFinishes, IInv, ConnsOK, RightPeer
  <1> DEFINE changed(side, speer) == Changed(k, k.cside, side, k.cpeer, speer, k.cflight, k.sflight)
  <1>5. /\ [k EXCEPT !.sside = "refused"] = changed("refused", k.speer)
        /\ [k EXCEPT !.sside = "done", !.speer = id] = changed("done", id)
        /\ [k EXCEPT !.sside = "wrong_peer", !.speer = id] = changed("wrong_peer", id)
    BY <1>1 DEF IsConn, Changed
  <1> HIDE DEF changed
  <1>6. PICK side \in {"refused", "done", "wrong_peer"}, speer \in HostKeys \cup {Nothing} :
            /\ j = changed(side, speer)
            /\ side = "refused" => id = Nothing
            /\ side = "wrong_peer" => id = proc[k.server].key
    BY <1>3, <1>4, <1>5
  <1>7. side \in Sides
    BY DEF Sides
  <1>8. HasFields(j, k, k.cside, side, k.cpeer, speer, k.cflight, k.sflight)
    BY <1>1, <1>4, <1>6, <1>7, Updated DEF changed
  <1>9. DecidedOK(j)
    BY <1>1, <1>2, <1>6, <1>8 DEF HasFields, Decision, DecidedOK
  <1>10. SameKeys(k) => SameKeys(j)
    BY <1>8 DEF HasFields, SameKeys
  <1>11. RecordOK(j) /\ ForeignOK(j)
    BY <1>1, <1>8, <1>10 DEF HasFields, Decision, RecordOK, ForeignOK
  <1> QED
    BY <1>9, <1>11, ConnDecision DEF ServerFinishes, Decision

LEMMA SideDecision ==
    ASSUME IInv, DInv, NEW c \in Conns, ForeignFinishes(c) \/ Close(c)
    PROVE  DInv'
  <1> PICK k : k = conn[c]
    OBVIOUS
  <1>1. ConnOK(k) /\ IsConn(k) /\ Decision(k)
    BY DEF ForeignFinishes, Close, IInv, DInv, ConnsOK, ConnOK, NoConn, Over
  <1>2. proc' = proc /\ lives' = lives /\ found' = found
    BY DEF ForeignFinishes, Close
  <1> PICK j :
        /\ conn' = [conn EXCEPT ![c] = j]
        /\ \/ j = [k EXCEPT !.cside = "closed"]
           \/ j = [k EXCEPT !.sside = "closed"]
           \/ k.client = Foreign /\ j = [k EXCEPT !.cside = "done"]
           \/ k.server = Foreign /\ j = [k EXCEPT !.sside = "done"]
    BY DEF ForeignFinishes, Close, IInv, ConnsOK
  <1>3. Closes(j, k)
    BY <1>1 DEF IsConn, Closes
  <1>4. Foreign \notin Nodes
    BY NodesAssumption
  <1>5. DecidedOK(j)
    BY <1>1, <1>3, <1>4 DEF Closes, Decision, DecidedOK, Current
  <1>6. SameKeys(k) => SameKeys(j)
    BY <1>3 DEF Closes, SameKeys
  <1>7. RecordOK(j) /\ ForeignOK(j)
    BY <1>1, <1>3, <1>6 DEF Closes, Decision, RecordOK, ForeignOK
  <1> QED
    BY <1>2, <1>5, <1>7, ConnDecision DEF Decision

-------------------------------------------------------------------------------
(* A process is started or stopped.                                          *)

\* The process that is started has another number than those before.
LEMMA StartDecision ==
    ASSUME IInv, IInv', DInv, NEW n \in Nodes, NEW a \in Arguments, Start(n, a)
    PROVE  DInv'
  <1>1. /\ lives \in [Nodes -> Nat] /\ lives[n] \in Nat /\ lives'[n] = lives[n] + 1 /\ ~Running(n)
        /\ \A m \in Nodes \ {n} : lives'[m] = lives[m]
        /\ found' = found /\ found[n] = {}
    BY DEF Start, IInv, ProcessesOK, PlacesOK
  <1>2. \A m \in Nodes \ {n} : proc'[m] = proc[m]
    BY DEF Start, IInv, ProcessesOK
  <1>3. \A life \in Nat : life <= lives[n] => ~Current(n, life)'
    <2>1. Running(n)' => proc'[n].life = lives'[n]
      BY ProcessOfRunning DEF IInv, ProcessesOK, Running, Off
    <2> QED
      BY <1>1, <2>1 DEF Current
  <1>4. \A m \in Nodes : \A life \in Nat : life <= lives[m] /\ Current(m, life)' => proc'[m] = proc[m]
    BY <1>2, <1>3
  <1>5. \A m : \A life : Current(m, life) => m \in Nodes \ {n}
    BY <1>1 DEF Current
  <1>6. ASSUME NEW k, ConnOK(k), Decision(k) PROVE Decision(k)'
    <2>1. k.clife \in Nat /\ k.slife \in Nat /\ EndsOK(k)
      BY <1>6 DEF ConnOK, IsConn
    <2>2. /\ Current(k.client, k.clife)' => proc'[k.client] = proc[k.client]
          /\ Current(k.server, k.slife)' => proc'[k.server] = proc[k.server]
      BY <1>4, <2>1 DEF EndsOK, Current
    <2>3. /\ Current(k.client, k.clife) => proc'[k.client] = proc[k.client]
          /\ Current(k.server, k.slife) => proc'[k.server] = proc[k.server]
      BY <1>2, <1>5
    <2>4. Closes(k, k)
      BY DEF Closes
    <2> QED
      BY <1>6, <2>1, <2>2, <2>3, <2>4, DecisionKept
  <1>7. ASSUME NEW m \in Nodes, NEW r \in found[m] PROVE FoundOK(m, r)'
    <2>1. m # n /\ r.slot \in Nodes /\ FoundOK(m, r)
      BY <1>1, <1>7 DEF DInv, IInv, PlacesOK
    <2>2. /\ lives[r.slot] \in Nat /\ lives'[r.slot] \in Nat /\ lives[r.slot] <= lives'[r.slot]
      BY <1>1, <2>1
    <2>3. Current(r.slot, r.life)' => proc'[r.slot] = proc[r.slot]
      BY <1>4, <2>1 DEF FoundOK
    <2>4. proc'[m] = proc[m]
      BY <1>2, <2>1
    <2> QED
      BY <2>1, <2>2, <2>3, <2>4, FoundKept
  <1>8. (\A m \in Nodes : \A r \in found[m] : FoundOK(m, r))'
    BY <1>1, <1>7
  <1>9. CASE conn' = conn
    <2>1. (\A c \in Conns : conn[c] = NoConn \/ Decision(conn[c]))'
      BY <1>6, <1>9 DEF DInv, IInv, ConnsOK
    <2> QED
      BY <1>8, <2>1 DEF DInv
  <1>10. CASE conn' # conn
    <2> PICK c \in Conns : \E life, server : conn' = [conn EXCEPT ![c] =
            NewConn(n, life, cipher_suites(a.aes), server, Nothing, Nothing)]
      BY <1>10 DEF Start, Dial
    <2> PICK life, server : conn' = [conn EXCEPT ![c] =
            NewConn(n, life, cipher_suites(a.aes), server, Nothing, Nothing)]
      OBVIOUS
    <2> PICK k : k = NewConn(n, life, cipher_suites(a.aes), server, Nothing, Nothing)
      OBVIOUS
    <2>1. /\ k.client = n /\ k.suites = cipher_suites(a.aes) /\ k.record = Nothing
          /\ k.cside = "hello" /\ k.sside = "hello" /\ k.cflight = Nothing /\ k.sflight = Nothing
      BY DEF NewConn
    <2>2. "chacha20" \in k.suites /\ n # Foreign
      BY <2>1, NodesAssumption DEF cipher_suites
    <2>3. Decision(k)'
      BY <2>1, <2>2 DEF Decision, DecidedOK, RecordOK, ForeignOK
    <2>4. (\A d \in Conns : conn[d] = NoConn \/ Decision(conn[d]))'
      BY <1>6, <2>3 DEF DInv, IInv, ConnsOK
    <2> QED
      BY <1>8, <2>4 DEF DInv
  <1> QED
    BY <1>9, <1>10

LEMMA StopDecision ==
    ASSUME IInv, DInv, NEW n \in Nodes, Stop(n)
    PROVE  DInv'
  <1>1. /\ lives' = lives /\ lives \in [Nodes -> Nat] /\ conn' = CloseEnds(n)
        /\ proc'[n] = Off /\ \A m \in Nodes \ {n} : proc'[m] = proc[m]
    BY DEF Stop, IInv, ProcessesOK
  <1>2. found'[n] = {} /\ \A m \in Nodes \ {n} : found'[m] = found[m]
    BY DEF Stop, IInv, PlacesOK
  <1>3. \A m, life : Current(m, life)' => m \in Nodes /\ proc'[m] = proc[m]
    BY <1>1 DEF Current, Running, Off
  <1>4. ASSUME NEW c \in Conns, conn[c] # NoConn, NEW j, j = conn'[c]
        PROVE  Decision(j)'
    <2> PICK k : k = conn[c]
      OBVIOUS
    <2>1. IsConn(k) /\ EndsOK(k) /\ Decision(k)
      BY <1>4 DEF IInv, DInv, ConnsOK, ConnOK
    <2>2. j = [k EXCEPT !.cside = IF k.client = n THEN "closed" ELSE @,
                        !.sside = IF k.server = n THEN "closed" ELSE @]
      BY <1>1, <1>4 DEF CloseEnds
    <2>3. /\ Closes(j, k)
          /\ k.client = n => j.cside = "closed"
          /\ k.server = n => j.sside = "closed"
      BY <2>1, <2>2 DEF IsConn, Closes
    <2>4. /\ Current(k.client, k.clife) /\ j.cside # "closed" => proc'[k.client] = proc[k.client]
          /\ Current(k.server, k.slife) /\ j.sside # "closed" => proc'[k.server] = proc[k.server]
      BY <1>1, <2>3 DEF Current
    <2>5. /\ Current(k.client, k.clife)' => proc'[k.client] = proc[k.client]
          /\ Current(k.server, k.slife)' => proc'[k.server] = proc[k.server]
      BY <1>3
    <2> QED
      BY <2>1, <2>3, <2>4, <2>5, DecisionKept
  <1>5. (\A c \in Conns : conn[c] = NoConn \/ Decision(conn[c]))'
    <2>1. \A c \in Conns : conn[c] = NoConn => conn'[c] = NoConn
      BY <1>1 DEF CloseEnds
    <2> QED
      BY <1>4, <2>1
  <1>6. ASSUME NEW m \in Nodes, NEW r \in found'[m] PROVE FoundOK(m, r)'
    <2>1. m # n /\ r \in found[m] /\ r.slot \in Nodes /\ FoundOK(m, r)
      BY <1>2, <1>6 DEF DInv, IInv, PlacesOK
    <2>2. lives[r.slot] \in Nat /\ lives'[r.slot] \in Nat /\ lives[r.slot] <= lives'[r.slot]
      BY <1>1, <2>1
    <2>3. proc'[m] = proc[m] /\ (Current(r.slot, r.life)' => proc'[r.slot] = proc[r.slot])
      BY <1>1, <1>3, <2>1
    <2> QED
      BY <2>1, <2>2, <2>3, FoundKept
  <1>7. (\A m \in Nodes : \A r \in found[m] : FoundOK(m, r))'
    BY <1>6
  <1> QED
    BY <1>5, <1>7 DEF DInv

-------------------------------------------------------------------------------
(* Certificates of other programs.                                           *)

\* The extension that is read is the one that the rules ask for.
LEMMA HostKeyIsRead ==
    ASSUME NEW cert, NEW psk, HasParts(cert.extensions)
    PROVE  HasHostKey(cert, psk) <=>
                /\ parse_unverified(cert, psk) # Nothing
                /\ parse_unverified(cert, psk).signature
                        = HostSignature(parse_unverified(cert, psk).public_key, cert.spki.key)
  <1> DEFINE seal(ext) == IF psk = NoPsk THEN <<>> ELSE <<psk, ext.key>>
             content == parse_unverified(cert, psk)
  <1>1. ASSUME NEW i \in P2pAt(cert), NEW ext, ext = cert.extensions[i]
        PROVE  /\ ExtensionContent(ext, psk) # Nothing =>
                        ExtensionContent(ext, psk).public_key = ext.key
               /\ (/\ ExtensionContent(ext, psk) # Nothing
                   /\ ExtensionContent(ext, psk).signature = HostSignature(ext.key, cert.spki.key))
                  <=> (/\ ext.decodes /\ ext.signature.seal = seal(ext)
                       /\ ext.signature.by = ext.key /\ ext.signature.over = cert.spki.key)
    <2> PICK by, over, sealed : by = ext.signature.by /\ over = ext.signature.over /\ sealed = ext.signature.seal
      OBVIOUS
    <2> DEFINE signature == [by |-> by, over |-> over, seal |-> sealed]
               opened == [by |-> by, over |-> over, seal |-> <<>>]
    <2>1. /\ ext.signature = signature
          /\ Nothing # signature /\ Nothing # opened
          /\ Nothing # [public_key |-> ext.key, signature |-> signature]
          /\ Nothing # [public_key |-> ext.key, signature |-> opened]
      BY <1>1 DEF HasParts, P2pAt
    <2>2. CASE psk = NoPsk
      <3>1. ExtensionContent(ext, psk)
                = IF ext.decodes THEN [public_key |-> ext.key, signature |-> signature] ELSE Nothing
        BY <2>1, <2>2 DEF ExtensionContent
      <3>2. signature = HostSignature(ext.key, cert.spki.key) <=>
                sealed = <<>> /\ by = ext.key /\ over = cert.spki.key
        BY DEF HostSignature
      <3> HIDE DEF signature
      <3> QED
        BY <2>1, <2>2, <3>1, <3>2
    <2>3. CASE psk # NoPsk
      <3>1. decrypt_ext_signature(ext.signature, psk, ext.key)
                = IF sealed = <<psk, ext.key>> THEN opened ELSE Nothing
        BY <2>1 DEF decrypt_ext_signature
      <3>2. opened = HostSignature(ext.key, cert.spki.key) <=> by = ext.key /\ over = cert.spki.key
        BY DEF HostSignature
      <3> HIDE DEF signature, opened
      <3>3. ExtensionContent(ext, psk)
                = IF ext.decodes /\ sealed = <<psk, ext.key>>
                  THEN [public_key |-> ext.key, signature |-> opened] ELSE Nothing
        BY <2>1, <2>3, <3>1 DEF ExtensionContent
      <3> QED
        BY <2>1, <2>3, <3>2, <3>3
    <2> QED
      BY <2>2, <2>3
  <1>2. ASSUME HasHostKey(cert, psk)
        PROVE  content # Nothing /\ content.signature = HostSignature(content.public_key, cert.spki.key)
    <2> PICK i \in DOMAIN cert.extensions :
            LET ext == cert.extensions[i]
            IN  /\ ext.oid = "p2p" /\ ext.decodes
                /\ ext.signature.by = ext.key /\ ext.signature.over = cert.spki.key
                /\ ext.signature.seal = seal(ext)
                /\ \A j \in DOMAIN cert.extensions \ {i} :
                        cert.extensions[j].oid # "p2p" /\ ~cert.extensions[j].critical
      BY <1>2 DEF HasHostKey
    <2> PICK ext : ext = cert.extensions[i]
      OBVIOUS
    <2>1. P2pAt(cert) = {i}
      BY DEF P2pAt
    <2>2. /\ ExtensionContent(ext, psk) # Nothing
          /\ ExtensionContent(ext, psk).public_key = ext.key
          /\ ExtensionContent(ext, psk).signature = HostSignature(ext.key, cert.spki.key)
      BY <1>1, <2>1
    <2>3. ~ \E j \in DOMAIN cert.extensions :
                IF cert.extensions[j].oid = "p2p"
                THEN \/ \E m \in P2pAt(cert) : m < j
                     \/ ExtensionContent(cert.extensions[j], psk) = Nothing
                ELSE cert.extensions[j].critical
      BY <2>1, <2>2 DEF P2pAt, HasParts
    <2>4. (CHOOSE j \in P2pAt(cert) : TRUE) = i
      BY <2>1
    <2>5. content = ExtensionContent(ext, psk)
      BY <2>1, <2>3, <2>4 DEF parse_unverified
    <2> QED
      BY <2>2, <2>5
  <1>3. ASSUME content # Nothing, content.signature = HostSignature(content.public_key, cert.spki.key)
        PROVE  HasHostKey(cert, psk)
    <2>1. /\ P2pAt(cert) # {}
          /\ \A j \in DOMAIN cert.extensions :
                IF cert.extensions[j].oid = "p2p"
                THEN (\A m \in P2pAt(cert) : ~(m < j)) /\ ExtensionContent(cert.extensions[j], psk) # Nothing
                ELSE ~cert.extensions[j].critical
          /\ content = ExtensionContent(cert.extensions[CHOOSE j \in P2pAt(cert) : TRUE], psk)
      BY <1>3 DEF parse_unverified
    <2> PICK i : i = CHOOSE j \in P2pAt(cert) : TRUE
      OBVIOUS
    <2>2. i \in P2pAt(cert)
      BY <2>1
    <2> PICK ext : ext = cert.extensions[i]
      OBVIOUS
    <2>3. /\ ext.decodes /\ ext.signature.seal = seal(ext)
          /\ ext.signature.by = ext.key /\ ext.signature.over = cert.spki.key
      BY <1>1, <1>3, <2>1, <2>2
    <2>4. \A j \in DOMAIN cert.extensions \ {i} :
                cert.extensions[j].oid # "p2p" /\ ~cert.extensions[j].critical
      BY <2>1, <2>2 DEF P2pAt, HasParts
    <2>5. i \in DOMAIN cert.extensions /\ ext.oid = "p2p"
      BY <2>2 DEF P2pAt
    <2>6. LET e == cert.extensions[i]
          IN  /\ e.oid = "p2p" /\ e.decodes
              /\ e.signature.by = e.key /\ e.signature.over = cert.spki.key
              /\ e.signature.seal = IF psk = NoPsk THEN <<>> ELSE <<psk, e.key>>
              /\ \A j \in DOMAIN cert.extensions \ {i} :
                        cert.extensions[j].oid # "p2p" /\ ~cert.extensions[j].critical
      BY <2>3, <2>4, <2>5
    <2> QED
      BY <2>5, <2>6, Zenon DEF HasHostKey
  <1> QED
    BY <1>2, <1>3

\* The scheme that the algorithms of a certificate stand for is the declared one, if
\* ring knows it, and no other.
LEMMA SchemeIsDeclared ==
    ASSUME NEW cert
    PROVE  signature_scheme(cert) \in RingSchemes => signature_scheme(cert) = DeclaredScheme(cert)
  <1> PICK pki, curve, sig, hash :
            pki = cert.spki.alg /\ curve = cert.spki.curve /\ sig = cert.sigalg.alg /\ hash = cert.sigalg.hash
    OBVIOUS
  <1>1. /\ sig = "ecdsa" => DeclaredScheme(cert) = <<curve, hash>>
        /\ sig \in {"ed25519", "ed448"} => DeclaredScheme(cert) = <<sig, "none">>
        /\ sig \in {"pkcs1", "pss"} => DeclaredScheme(cert) = <<sig, hash>>
    BY DEF DeclaredScheme
  <1>2. CASE pki = "rsa" /\ sig \in {"pkcs1", "pss"} /\ hash \in Sha2
    <2>1. signature_scheme(cert) = <<sig, hash>>
      BY <1>2 DEF signature_scheme
    <2> QED
      BY <1>1, <1>2, <2>1
  <1>3. CASE pki = "ec" /\ sig = "ecdsa"
             /\ <<curve, hash>> \in {<<"p256", "sha256">>, <<"p384", "sha384">>, <<"p521", "sha512">>}
    <2>1. signature_scheme(cert) = <<curve, hash>>
      BY <1>3 DEF signature_scheme
    <2> QED
      BY <1>1, <1>3, <2>1
  <1>4. CASE pki # "ec" /\ sig \in {"ed25519", "ed448"}
    <2>1. signature_scheme(cert) = <<sig, "none">>
      BY <1>4 DEF signature_scheme
    <2>2. <<"ed448", "none">> \notin RingSchemes
      BY DEF RingSchemes, Sha2
    <2> QED
      BY <1>1, <1>4, <2>1, <2>2
  <1>5. CASE /\ ~(pki = "rsa" /\ sig \in {"pkcs1", "pss"} /\ hash \in Sha2)
             /\ ~(pki = "ec" /\ sig = "ecdsa"
                  /\ <<curve, hash>> \in {<<"p256", "sha256">>, <<"p384", "sha384">>, <<"p521", "sha512">>})
             /\ ~(pki # "ec" /\ sig \in {"ed25519", "ed448"})
    <2>1. signature_scheme(cert) = Nothing
      BY <1>5 DEF signature_scheme
    <2> QED
      BY <2>1, NothingAssumption
  <1> QED
    BY <1>2, <1>3, <1>4, <1>5

\* A key and a signature that ring can verify are of a supported kind.
LEMMA AlgorithmsAgree ==
    ASSUME NEW cert, NEW scheme
    PROVE  (/\ signature_scheme(cert) \in RingSchemes
            /\ cert.signature = Signature(cert.spki.key, signature_scheme(cert))
            /\ scheme = signature_scheme(cert) /\ scheme \in verification_schemes)
           <=> (/\ UsesStrongHash(cert) /\ UsesNamedCurve(cert) /\ IsSelfSigned(cert)
                /\ Supported(cert) /\ scheme = DeclaredScheme(cert))
  <1> PICK pki, curve, sig, hash :
            pki = cert.spki.alg /\ curve = cert.spki.curve /\ sig = cert.sigalg.alg /\ hash = cert.sigalg.hash
    OBVIOUS
  <1>1. /\ sig = "ecdsa" => DeclaredScheme(cert) = <<curve, hash>>
        /\ sig \in {"ed25519", "ed448"} => DeclaredScheme(cert) = <<sig, "none">>
        /\ sig \in {"pkcs1", "pss"} => DeclaredScheme(cert) = <<sig, hash>>
    BY DEF DeclaredScheme
  <1>2. ASSUME signature_scheme(cert) \in RingSchemes,
               cert.signature = Signature(cert.spki.key, signature_scheme(cert)),
               scheme = signature_scheme(cert)
        PROVE  /\ UsesStrongHash(cert) /\ UsesNamedCurve(cert) /\ IsSelfSigned(cert)
               /\ Supported(cert) /\ scheme = DeclaredScheme(cert)
    <2>1. scheme = DeclaredScheme(cert) /\ IsSelfSigned(cert)
      BY <1>2, SchemeIsDeclared DEF IsSelfSigned
    <2>2. signature_scheme(cert) # Nothing
      BY <1>2, NothingAssumption
    <2>3. CASE pki = "ec"
      <3>1. sig = "ecdsa" /\ <<curve, hash>> \in {<<"p256", "sha256">>, <<"p384", "sha384">>, <<"p521", "sha512">>}
        BY <2>2, <2>3 DEF signature_scheme
      <3>2. <<curve, hash>> # <<"p521", "sha512">>
        BY <1>1, <1>2, <2>1, <3>1 DEF RingSchemes, Sha2
      <3>3. <<curve, hash>> \in {<<"p256", "sha256">>, <<"p384", "sha384">>}
        BY <3>1, <3>2
      <3>4. curve \in {"p256", "p384"} /\ hash \in Sha2
        BY <3>3 DEF Sha2
      <3> QED
        BY <2>1, <2>3, <3>1, <3>3, <3>4 DEF UsesStrongHash, UsesNamedCurve, Supported
    <2>4. CASE pki # "ec" /\ sig \in {"ed25519", "ed448"}
      <3>1. scheme = <<sig, "none">>
        BY <1>1, <2>1, <2>4
      <3>2. sig = "ed25519"
        BY <1>2, <2>4, <3>1 DEF RingSchemes, Sha2
      <3> QED
        BY <2>1, <2>4, <3>2 DEF UsesStrongHash, UsesNamedCurve, Supported
    <2>5. CASE pki # "ec" /\ sig \notin {"ed25519", "ed448"}
      <3>1. pki = "rsa" /\ sig \in {"pkcs1", "pss"} /\ hash \in Sha2
        BY <2>2, <2>5 DEF signature_scheme
      <3> QED
        BY <2>1, <3>1 DEF UsesStrongHash, UsesNamedCurve, Supported
    <2> QED
      BY <2>3, <2>4, <2>5
  <1>3. ASSUME UsesStrongHash(cert), UsesNamedCurve(cert), IsSelfSigned(cert), Supported(cert),
               scheme = DeclaredScheme(cert)
        PROVE  /\ signature_scheme(cert) \in RingSchemes
               /\ cert.signature = Signature(cert.spki.key, signature_scheme(cert))
               /\ scheme = signature_scheme(cert) /\ scheme \in verification_schemes
    <2>1. CASE pki = "ec"
      <3>1. sig = "ecdsa" /\ <<curve, hash>> \in {<<"p256", "sha256">>, <<"p384", "sha384">>}
        BY <1>3, <2>1 DEF Supported
      <3>2. signature_scheme(cert) = <<curve, hash>>
        BY <2>1, <3>1 DEF signature_scheme
      <3>3. <<curve, hash>> \in RingSchemes /\ <<curve, hash>> \in verification_schemes
        BY <3>1 DEF RingSchemes, verification_schemes
      <3> QED
        BY <1>1, <1>3, <3>1, <3>2, <3>3 DEF IsSelfSigned
    <2>2. CASE pki # "ec" /\ sig = "ed25519"
      <3>1. signature_scheme(cert) = <<"ed25519", "none">>
        BY <2>2 DEF signature_scheme
      <3>2. <<"ed25519", "none">> \in RingSchemes /\ <<"ed25519", "none">> \in verification_schemes
        BY DEF RingSchemes, verification_schemes
      <3> QED
        BY <1>1, <1>3, <2>2, <3>1, <3>2 DEF IsSelfSigned
    <2>3. CASE pki # "ec" /\ sig # "ed25519"
      <3>1. pki = "rsa" /\ sig \in {"pkcs1", "pss"} /\ hash \in Sha2
        BY <1>3, <2>3 DEF Supported, UsesStrongHash
      <3>2. signature_scheme(cert) = <<sig, hash>>
        BY <3>1 DEF signature_scheme
      <3>3. <<sig, hash>> \in RingSchemes /\ <<sig, hash>> \in verification_schemes
        BY <3>1 DEF RingSchemes, verification_schemes
      <3> QED
        BY <1>1, <1>3, <3>1, <3>2, <3>3 DEF IsSelfSigned
    <2> QED
      BY <2>1, <2>2, <2>3
  <1> QED
    BY <1>2, <1>3

\* What is accepted of another program is what the rules allow.
LEMMA AcceptedIsAdmissible ==
    ASSUME NEW n, NEW f, NamesHostKeys(f), Len(f.chain) = 1 => HasParts(f.chain[1].extensions)
    PROVE  AcceptedId(n, f) # Nothing <=> Admissible(n, f)
  <1> PICK psk, clock, cert : psk = proc[n].psk /\ clock = proc[n].clock /\ cert = f.chain[1]
    OBVIOUS
  <1> DEFINE content == parse_unverified(cert, psk)
             scheme == signature_scheme(cert)
             Read == content # Nothing /\ content.signature = HostSignature(content.public_key, cert.spki.key)
             InTime == cert.not_before <= clock /\ clock <= cert.not_after
             Signed == scheme \in RingSchemes /\ cert.signature = Signature(cert.spki.key, scheme)
             Handshake == /\ f.scheme = scheme /\ f.scheme \in verification_schemes
                          /\ f.signature = Signature(cert.spki.key, f.scheme)
  <1>1. CASE Len(f.chain) # 1
    BY <1>1 DEF AcceptedId, verify_presented_certs, Admissible, Conforms
  <1>2. CASE Len(f.chain) = 1
    <2>1. Read => content.public_key \in HostKeys
      <3> SUFFICES ASSUME content # Nothing
                   PROVE  content.public_key \in HostKeys
        OBVIOUS
      <3>1. P2pAt(cert) # {} /\ content = ExtensionContent(cert.extensions[CHOOSE i \in P2pAt(cert) : TRUE], psk)
        BY DEF parse_unverified
      <3> PICK i \in P2pAt(cert) : content = ExtensionContent(cert.extensions[i], psk)
        BY <3>1
      <3>2. content.public_key = cert.extensions[i].key
        BY DEF ExtensionContent
      <3> QED
        BY <1>2, <3>2 DEF NamesHostKeys
    <2>2. verify(cert, content, clock) <=>
                InTime /\ Signed /\ content.signature = HostSignature(content.public_key, cert.spki.key)
      BY DEF verify, verify_signature, public_key
    <2>3. parse(cert, psk, clock) # Nothing <=> Read /\ InTime /\ Signed
      <3> HIDE DEF content, InTime, Signed
      <3> QED
        BY <2>1, <2>2, KeysAssumption DEF parse, content
    <2>4. AcceptedId(n, f) # Nothing <=>
                /\ parse(cert, psk, clock) # Nothing /\ f.alpn # "other"
                /\ verify_tls13_signature(f.chain, f.scheme, f.signature, psk, clock)
      BY <1>2 DEF AcceptedId, verify_presented_certs
    <2>5. verify_tls13_signature(f.chain, f.scheme, f.signature, psk, clock) <=>
                Handshake /\ scheme \in RingSchemes /\ parse(cert, psk, clock) # Nothing
      BY DEF verify_tls13_signature, verify_signature, public_key
    <2>6. AcceptedId(n, f) # Nothing <=> Read /\ InTime /\ Signed /\ Handshake /\ f.alpn # "other"
      <3> HIDE DEF content, InTime, scheme, Handshake
      <3> QED
        BY <2>3, <2>4, <2>5
    <2>7. Admissible(n, f) <=>
                /\ InTime /\ UsesStrongHash(cert) /\ UsesNamedCurve(cert) /\ IsSelfSigned(cert)
                /\ HasHostKey(cert, psk) /\ Supported(cert)
                /\ f.scheme = DeclaredScheme(cert)
                /\ f.signature = Signature(cert.spki.key, f.scheme)
                /\ f.alpn # "other"
      BY <1>2 DEF Admissible, Conforms
    <2>8. HasHostKey(cert, psk) <=> Read
      <3>1. HasParts(cert.extensions)
        BY <1>2
      <3> QED
        BY <3>1, HostKeyIsRead
    <2>9. Signed /\ Handshake <=>
                /\ UsesStrongHash(cert) /\ UsesNamedCurve(cert) /\ IsSelfSigned(cert)
                /\ Supported(cert)
                /\ f.scheme = DeclaredScheme(cert)
                /\ f.signature = Signature(cert.spki.key, f.scheme)
      BY AlgorithmsAgree
    <2> HIDE DEF content, InTime, scheme, Handshake, Read, Signed
    <2> QED
      BY <2>6, <2>7, <2>8, <2>9
  <1> QED
    BY <1>1, <1>2

\* What the other program presents was decided by the rules.
LEMMA DecisionsGiveRules ==
    ASSUME IInv, DInv PROVE ForeignByTheRules
  <1> SUFFICES ASSUME NEW c \in Live, NEW k, k = conn[c]
               PROVE  /\ k.server = Foreign =>
                            /\ k.cside \in {"done", "wrong_peer"} => Admissible(k.client, k.sflight)
                            /\ k.cside = "refused" => ~Admissible(k.client, k.sflight)
                      /\ k.client = Foreign =>
                            /\ k.sside \in {"done", "wrong_peer"} => Admissible(k.server, k.cflight)
                            /\ k.sside = "refused" => ~Admissible(k.server, k.cflight)
    BY DEF ForeignByTheRules
  <1>1. ConnOK(k) /\ Decision(k)
    BY DEF IInv, DInv, ConnsOK, Live
  <1>2. \A i \in ForeignKinds : \A n :
            AcceptedId(n, ForeignFlight(i)) # Nothing <=> Admissible(n, ForeignFlight(i))
    BY ForeignAssumption, PresentedAssumption, AcceptedIsAdmissible
  <1>3. ASSUME k.server = Foreign, k.cside \in {"done", "wrong_peer", "refused"}
        PROVE  /\ k.cside \in {"done", "wrong_peer"} => Admissible(k.client, k.sflight)
               /\ k.cside = "refused" => ~Admissible(k.client, k.sflight)
    <2>1. k.client \in Nodes
      BY <1>1, <1>3 DEF ConnOK, IsConn, Hosts
    <2>2. /\ k.sflight # Nothing
          /\ k.cside = "refused" <=> AcceptedId(k.client, k.sflight) = Nothing
      BY <1>1, <1>3, <2>1 DEF ConnOK, AcceptedOK, Decision, DecidedOK
    <2>3. PICK i \in ForeignKinds : k.sflight = ForeignFlight(i)
      BY <1>1, <1>3, <2>2 DEF Decision, ForeignOK
    <2> QED
      BY <1>2, <1>3, <2>2, <2>3
  <1>4. ASSUME k.client = Foreign, k.sside \in {"done", "wrong_peer", "refused"}
        PROVE  /\ k.sside \in {"done", "wrong_peer"} => Admissible(k.server, k.cflight)
               /\ k.sside = "refused" => ~Admissible(k.server, k.cflight)
    <2>1. k.server \in Nodes
      BY <1>1, <1>4 DEF ConnOK, IsConn, Hosts
    <2>2. k.sside = "wrong_peer" => AcceptedId(k.server, k.cflight) # Nothing
      <3> SUFFICES ASSUME k.sside = "wrong_peer"
                   PROVE  AcceptedId(k.server, k.cflight) # Nothing
        OBVIOUS
      <3>1. Running(k.server) /\ AcceptedId(k.server, k.cflight) = proc[k.server].key
        BY <1>1 DEF Decision, DecidedOK, Current
      <3>2. proc[k.server].key \in HostKeys
        BY <2>1, <3>1, ProcessOfRunning DEF IInv, IsProcess
      <3> QED
        BY <3>1, <3>2, KeysAssumption
    <2>3. k.sside = "refused" <=> AcceptedId(k.server, k.cflight) = Nothing
      BY <1>1, <1>4, <2>1, <2>2 DEF ConnOK, AcceptedOK, Decision, DecidedOK
    <2>4. PICK i \in ForeignKinds : k.cflight = ForeignFlight(i)
      BY <1>1, <1>4 DEF Decision, ForeignOK
    <2> QED
      BY <1>2, <1>4, <2>3, <2>4
  <1> QED
    BY <1>3, <1>4

-------------------------------------------------------------------------------
(* The theorems.                                                             *)

LEMMA NextDecision == IInv /\ IInv' /\ DInv /\ [Next]_vars => DInv'
  <1> SUFFICES ASSUME IInv, IInv', DInv, [Next]_vars
               PROVE  DInv'
    OBVIOUS
  <1>1. ASSUME NEW n \in Nodes, NEW a \in Arguments, Start(n, a) PROVE DInv'
    BY <1>1, StartDecision
  <1>2. ASSUME NEW n \in Nodes, Stop(n) PROVE DInv'
    BY <1>2, StopDecision
  <1>3. ASSUME NEW n \in Nodes, NEW h \in Hosts, Move(n, h) PROVE DInv'
    BY <1>3, QuietDecision DEF Move, DInv
  <1>4. ASSUME NEW n \in Nodes, NEW m \in Nodes, NEW l \in NameLengths, Answer(m, n, l) PROVE DInv'
    BY <1>4, AnswerDecision
  <1>5. ASSUME NEW n \in Nodes, NEW o \in Discovered(n), DialFound(n, o) PROVE DInv'
    BY <1>5, DialFoundDecision
  <1>6. ASSUME NEW n \in Nodes, NEW o \in Discovered(n), Expire(n, o) PROVE DInv'
    BY <1>6, ExpireDecision
  <1>7. ASSUME NEW n \in Nodes, ForeignDials(n) PROVE DInv'
    BY <1>7, ForeignDialsDecision
  <1>8. ASSUME NEW c \in Conns, ServerHello(c) PROVE DInv'
    BY <1>8, ServerHelloDecision
  <1>9. ASSUME NEW c \in Conns, ClientFinishes(c) PROVE DInv'
    BY <1>9, ClientFinishesDecision
  <1>10. ASSUME NEW c \in Conns, ServerFinishes(c) PROVE DInv'
    BY <1>10, ServerFinishesDecision
  <1>11. ASSUME NEW c \in Conns, ForeignFinishes(c) \/ Close(c) PROVE DInv'
    BY <1>11, SideDecision
  <1>12. CASE UNCHANGED vars
    BY <1>12, QuietDecision DEF vars, DInv
  <1> QED
    BY <1>1, <1>2, <1>3, <1>4, <1>5, <1>6, <1>7, <1>8, <1>9, <1>10, <1>11, <1>12 DEF Next

LEMMA DecisionsHold == Spec => []DInv
  <1>1. Init /\ []IInv /\ [][Next]_vars => []DInv
    BY InitDecision, NextDecision, PTL
  <1> QED
    BY <1>1, InvHolds, PTL DEF Spec

\* A client that has reported a connection is not turned away by a server with a right
\* clock afterwards, although upgrade_outbound returns before upgrade_inbound has seen
\* the client's certificate: whoever accepts a certificate of this program has the same
\* pre-shared key, and then so does the other end accept, whatever their arguments and
\* however often either was started before.
THEOREM NoHalfOpenHolds == Spec => []NoHalfOpen
  BY InvHolds, DecisionsHold, DecisionsGiveAdmission, PTL

\* Whoever is found by mDNS passes the TLS handshake: the service name
\* (create_mdns_behavior) and the seal of the certificates (make_libp2p_extension) come
\* from the same pre-shared key, and every two processes have a cipher suite in common.
THEOREM DiscoveredIsAdmittedHolds == Spec => []DiscoveredIsAdmitted
  BY InvHolds, DecisionsHold, DecisionsGiveAdmission, PTL

\* Another program is admitted exactly if its one certificate follows the rules of the
\* libp2p TLS specification for this pre-shared key and clock, with algorithms that ring
\* has, and its handshake is signed alike (parse_unverified, signature_scheme,
\* public_key, verify, verify_presented_certs, verify_tls13_signature), whatever the
\* algorithms, keys, dates, extensions and signatures that it presents.
THEOREM ForeignByTheRulesHolds == Spec => []ForeignByTheRules
  BY InvHolds, DecisionsHold, DecisionsGiveRules, PTL

-------------------------------------------------------------------------------
(* The packets of an answer.                                                 *)

\* The addresses of a process, as the lengths of their values.
Listens == Seq(0 .. MAX_VALUE)

LEMMA SequenceValues ==
    ASSUME NEW D, NEW s \in Seq(D)
    PROVE  Len(s) \in Nat /\ DOMAIN s = 1 .. Len(s) /\ \A i \in 1 .. Len(s) : s[i] \in D
  OBVIOUS

LEMMA ListenValues ==
    ASSUME NEW listen \in Listens
    PROVE  Len(listen) \in Nat /\ DOMAIN listen = 1 .. Len(listen)
           /\ \A i \in 1 .. Len(listen) : listen[i] \in 0 .. 95
<1>0. PICK D : D = 0 .. MAX_VALUE
  OBVIOUS
<1>1. listen \in Seq(D)
  BY <1>0 DEF Listens
<1>2. Len(listen) \in Nat /\ DOMAIN listen = 1 .. Len(listen) /\ \A i \in 1 .. Len(listen) : listen[i] \in D
  BY <1>1, SequenceValues
<1> QED BY <1>0, <1>2 DEF MAX_VALUE

LEMMA DivideBy29 ==
    ASSUME NEW x \in Nat
    PROVE  x \div 29 \in Nat /\ x % 29 \in 0 .. 28 /\ x = 29 * (x \div 29) + (x % 29)
<1>1. x \div 29 \in Nat
  OBVIOUS
<1>2. x % 29 \in 0 .. 28
  OBVIOUS
<1>3. x = 29 * (x \div 29) + (x % 29)
  OBVIOUS
<1> QED BY <1>1, <1>2, <1>3

LEMMA TakenValues ==
    ASSUME NEW listen \in Listens
    PROVE  /\ Taken(listen) \in Nat
           /\ 1 .. Taken(listen) = {i \in DOMAIN listen : i <= MAX_ADDRESSES}
<1>1. Len(listen) \in Nat /\ DOMAIN listen = 1 .. Len(listen)
  BY ListenValues
<1> QED BY <1>1 DEF Taken, MAX_ADDRESSES

\* No address of this program is too long for a record.
LEMMA AllAnswered ==
    ASSUME NEW listen \in Listens
    PROVE  Answered(listen) = [i \in 1 .. Taken(listen) |-> i]
<1> DEFINE n == Taken(listen)
           Def(f) == f = [i \in 0 .. n |->
                IF i = 0 THEN <<>>
                ELSE IF listen[i] <= MAX_TXT_VALUE_LENGTH THEN Append(f[i - 1], i) ELSE f[i - 1]]
           kept == CHOOSE f : Def(f)
           u == [i \in 0 .. n |-> [j \in 1 .. i |-> j]]
<1>1. Answered(listen) = kept[n]
  BY DEF Answered
<1>2. n \in Nat /\ \A i \in 1 .. n : listen[i] <= MAX_TXT_VALUE_LENGTH
  <2>1. n \in Nat /\ \A i \in 1 .. n : listen[i] \in 0 .. 95
    BY ListenValues, TakenValues
  <2> HIDE DEF n
  <2> QED BY <2>1 DEF MAX_TXT_VALUE_LENGTH
<1> HIDE DEF n
<1>3. ASSUME NEW i \in 1 .. n PROVE u[i] = Append(u[i - 1], i)
  <2>1. i - 1 \in 0 .. n /\ i - 1 \in Nat /\ i \in Nat
    BY <1>2
  <2> DEFINE s == [j \in 1 .. i - 1 |-> j]
  <2>2. s \in Seq(Nat) /\ Len(s) = i - 1
    BY <2>1
  <2>3. /\ Append(s, i) \in Seq(Nat) /\ Len(Append(s, i)) = i
        /\ \A j \in 1 .. i : Append(s, i)[j] = IF j <= i - 1 THEN s[j] ELSE i
    <3> HIDE DEF s
    <3> QED BY <2>1, <2>2, AppendProperties
  <2>4. [j \in 1 .. i |-> j] \in Seq(Nat) /\ Len([j \in 1 .. i |-> j]) = i
    BY <2>1
  <2>5. \A j \in 1 .. i : Append(s, i)[j] = [l \in 1 .. i |-> l][j]
    BY <2>1, <2>3
  <2>6. Append(s, i) = [j \in 1 .. i |-> j]
    <3> DEFINE w == [j \in 1 .. i |-> j]
    <3>1. w \in Seq(Nat) /\ Len(w) = i /\ \A j \in 1 .. i : Append(s, i)[j] = w[j]
      BY <2>4, <2>5
    <3> HIDE DEF w
    <3>2. Append(s, i) = w
      BY <2>3, <3>1, SeqEqual
    <3> QED BY <3>2 DEF w
  <2> QED BY <2>1, <2>6
<1>4. u[0] = <<>>
  BY <1>2
<1>5. Def(u)
  <2> DEFINE v == [i \in 0 .. n |->
                IF i = 0 THEN <<>>
                ELSE IF listen[i] <= MAX_TXT_VALUE_LENGTH THEN Append(u[i - 1], i) ELSE u[i - 1]]
  <2>1. \A i \in 0 .. n : u[i] = v[i]
    <3> HIDE DEF u
    <3>1. \A i \in 0 .. n : i = 0 \/ i \in 1 .. n
      BY <1>2
    <3> QED BY <1>2, <1>3, <1>4, <3>1
  <2>2. u = v
    BY <2>1
  <2> QED BY <2>2
<1>6. Def(kept)
  <2> HIDE DEF Def, u
  <2> QED BY <1>5
<1>7. \A k \in 0 .. n : kept[k] = u[k]
  <2> HIDE DEF kept
  <2>1. kept[0] = u[0]
    BY <1>2, <1>4, <1>6
  <2>2. ASSUME NEW k \in 1 .. n, kept[k - 1] = u[k - 1] PROVE kept[k] = u[k]
    <3>1. k \in 0 .. n /\ k # 0
      BY <1>2
    <3>2. kept[k] = Append(kept[k - 1], k)
      BY <1>2, <1>6, <3>1
    <3> QED BY <1>3, <2>2, <3>2
  <2>3. \A k \in 1 .. n : kept[k - 1] = u[k - 1] => kept[k] = u[k]
    BY <2>2
  <2> HIDE DEF u
  <2> QED BY <1>2, <2>1, <2>3, SameValues
<1>8. kept[n] = [i \in 1 .. n |-> i]
  <2>1. n \in 0 .. n
    BY <1>2
  <2> HIDE DEF kept
  <2> QED BY <1>7, <2>1
<1> QED
  <2> HIDE DEF kept
  <2> QED BY <1>1, <1>8 DEF n

Follow(f, u, bound) ==
    f[0] = u[0] /\ \A k \in 1 .. bound : f[k - 1] = u[k - 1] => f[k] = u[k]

LEMMA SameSums ==
    ASSUME NEW bound \in Nat, NEW f, NEW u, Follow(f, u, bound)
    PROVE  \A k \in 0 .. bound : f[k] = u[k]
  BY SameValues DEF Follow

\* A packet of few records is not cut off by recv_buffer.
LEMMA FewRecordsFit ==
    ASSUME NEW listen \in Listens, NEW packet \in Seq(DOMAIN listen), Len(packet) <= SafeRecords,
           NEW nameLength \in PeerNameLengths, NEW hasPsk \in BOOLEAN
    PROVE  IsParsed(packet, listen, nameLength, hasPsk)
<1> DEFINE n == Len(packet)
           first == 12 + append_qname(ServiceNameLength(hasPsk)) + 10 + append_qname(nameLength)
           record(i) == TxtRecordSize(nameLength, listen[packet[i]])
           Def(f) == f = [i \in 0 .. n |-> IF i = 0 THEN first ELSE f[i - 1] + record(i)]
           size == CHOOSE f : Def(f)
           step == [i \in 1 .. n |-> [x \in Int |-> x + record(i)]]
<1>1. PacketSize(packet, listen, nameLength, hasPsk) = size[n]
  BY DEF PacketSize
<1>2. n \in Nat /\ first \in Int /\ first <= 141
  BY DEF append_qname, ServiceNameLength, PeerNameLengths
<1>3. \A i \in 1 .. n : record(i) \in Int /\ record(i) <= 171
  <2>1. \A j \in DOMAIN listen : listen[j] \in 0 .. 95
    BY ListenValues
  <2>2. \A i \in 1 .. n : packet[i] \in DOMAIN listen
    OBVIOUS
  <2>3. \A i \in 1 .. n : listen[packet[i]] \in 0 .. 95
    BY <2>1, <2>2
  <2>4. \A v \in 0 .. 95 : LET r == TxtRecordSize(nameLength, v) IN r \in Int /\ r <= 171
    BY DEF TxtRecordSize, append_qname, PeerNameLengths
  <2> QED BY <2>3, <2>4
<1> HIDE DEF n, first, record
<1>4. step \in [1 .. n -> [Int -> Int]]
  BY <1>3
<1>5. PICK u \in [0 .. n -> Int] : u[0] = first /\ \A k \in 1 .. n : u[k] = step[k][u[k - 1]]
  <2> DEFINE T == Int
  <2>1. n \in Nat /\ first \in T /\ step \in [1 .. n -> [T -> T]]
    BY <1>2, <1>4
  <2> HIDE DEF step, T
  <2>2. \E u : Follows(u, T, first, n, step)
    BY <2>1, RecursionExists
  <2> QED BY <2>2 DEF T, Follows
<1>6. \A k \in 1 .. n : u[k] = u[k - 1] + record(k) /\ u[k - 1] \in Int
  <2>1. \A k \in 1 .. n : k - 1 \in 0 .. n
    BY <1>2
  <2> QED BY <1>5, <2>1
<1>7. Def(u)
  <2> DEFINE v == [i \in 0 .. n |-> IF i = 0 THEN first ELSE u[i - 1] + record(i)]
  <2>1. \A i \in 0 .. n : u[i] = v[i]
    <3>1. \A i \in 0 .. n : i = 0 \/ i \in 1 .. n
      BY <1>2
    <3> QED BY <1>5, <1>6, <3>1
  <2>2. u = v
    BY <2>1
  <2> QED BY <2>2
<1>8. Def(size)
  <2> HIDE DEF Def
  <2> QED BY <1>7
<1> HIDE DEF size
<1>9. \A k \in 0 .. n : size[k] = u[k]
  <2>1. size[0] = u[0]
    BY <1>2, <1>5, <1>8
  <2>2. \A k \in 1 .. n : size[k - 1] = u[k - 1] => size[k] = u[k]
    <3>1. \A k \in 1 .. n : k \in 0 .. n /\ k # 0
      BY <1>2
    <3> QED BY <1>6, <1>8, <3>1
  <2>3. PICK w, g, b : w = u /\ g = size /\ b = n
    OBVIOUS
  <2>4. Follow(g, w, b)
    BY <2>1, <2>2, <2>3 DEF Follow
  <2>5. b \in Nat
    BY <1>2, <2>3
  <2>6. \A k \in 0 .. b : g[k] = w[k]
    BY <2>4, <2>5, SameSums
  <2> QED BY <2>3, <2>6
<1>10. n \in {k \in 0 .. n : u[k] <= 141 + 171 * k}
  <2> DEFINE S == {k \in 0 .. n : u[k] <= 141 + 171 * k}
  <2>1. 0 \in S
    BY <1>2, <1>5
  <2>2. \A k \in 0 .. n - 1 : k \in S => k + 1 \in S
    <3>1. SUFFICES ASSUME NEW k \in 0 .. n - 1, k \in S PROVE k + 1 \in S
      OBVIOUS
    <3>2. k + 1 \in 1 .. n /\ (k + 1) - 1 = k /\ k \in Int
      BY <1>2
    <3>3. u[k + 1] = u[k] + record(k + 1) /\ u[k] \in Int
      BY <1>6, <3>2
    <3>4. record(k + 1) \in Int /\ record(k + 1) <= 171
      BY <1>3, <3>2
    <3>5. u[k] <= 141 + 171 * k
      BY <3>1
    <3> QED BY <3>2, <3>3, <3>4, <3>5
  <2>3. n \in 0 .. n
    BY <1>2
  <2> HIDE DEF S
  <2>4. \A k \in 0 .. n : k \in S
    BY <1>2, <2>1, <2>2, InductionUpTo
  <2>5. n \in S
    BY <2>3, <2>4
  <2> QED BY <2>5 DEF S
<1>11. n <= 23
  BY DEF SafeRecords, RECV_BUFFER, MAX_VALUE, n
<1>12. size[n] <= 4096
  <2>1. size[n] = u[n] /\ u[n] \in Int
    BY <1>2, <1>5, <1>9
  <2> QED BY <1>2, <1>10, <1>11, <2>1
<1> QED BY <1>1, <1>12 DEF IsParsed, RECV_BUFFER

\* Every address, of the first MAX_ADDRESSES, is in some packet of the answer.
LEMMA PacketsCover ==
    ASSUME NEW listen \in Listens, NEW packets, packets = build_query_response(listen)
    PROVE  /\ \A p \in DOMAIN packets : packets[p] \in Seq(DOMAIN listen)
           /\ \A i \in DOMAIN listen :
                i > MAX_ADDRESSES \/ \E p \in DOMAIN packets : i \in AddressesIn(packets[p])
<1> DEFINE n == Taken(listen)
           records == [i \in 1 .. n |-> i]
           full == n \div 29
           rest == n % 29
           number == IF full = 0 \/ rest # 0 THEN full + 1 ELSE full
           last(p) == IF p <= full THEN p * 29 ELSE n
<1>1. n \in Nat /\ records \in Seq(1 .. n) /\ Len(records) = n
  <2>1. n \in Nat
    BY TakenValues
  <2> HIDE DEF n
  <2> QED BY <2>1
<1>2. MAX_RECORDS_PER_PACKET = 29
  BY DEF MAX_RECORDS_PER_PACKET, MAX_PACKET_SIZE, MAX_TXT_RECORD_SIZE, MAX_TXT_VALUE_LENGTH
<1>3. Answered(listen) = records /\ Len(Answered(listen)) = n
  BY <1>1, AllAnswered
<1>4. packets = [p \in 1 .. number |-> SubSeq(records, (p - 1) * 29 + 1, last(p))]
  BY <1>2, <1>3 DEF build_query_response
<1>5. full \in Nat /\ rest \in 0 .. 28 /\ n = 29 * full + rest
  BY <1>1, DivideBy29
<1> HIDE DEF full, rest, n
<1>6. ASSUME NEW p \in 1 .. number
      PROVE  /\ packets[p] \in Seq(1 .. n) /\ DOMAIN packets[p] = 1 .. last(p) - ((p - 1) * 29 + 1) + 1
             /\ \A j \in 1 .. last(p) - ((p - 1) * 29 + 1) + 1 : packets[p][j] = ((p - 1) * 29 + 1) + j - 1
  <2> DEFINE f == (p - 1) * 29 + 1
             l == last(p)
  <2>1. f \in Nat \ {0} /\ l \in 0 .. n /\ f <= l + 1
    BY <1>1, <1>5
  <2>2. packets[p] = SubSeq(records, f, l)
    BY <1>4
  <2> HIDE DEF f, l, records
  <2>3. /\ SubSeq(records, f, l) \in Seq(1 .. n) /\ Len(SubSeq(records, f, l)) = l - f + 1
        /\ \A j \in 1 .. l - f + 1 : SubSeq(records, f, l)[j] = records[f + j - 1]
    <3>1. l - f + 1 \in Nat /\ \A j \in f .. l : j \in 1 .. n
      BY <1>1, <2>1
    <3> QED BY <1>1, <2>1, <3>1
  <2>4. \A j \in 1 .. l - f + 1 : f + j - 1 \in 1 .. n
    BY <1>1, <2>1
  <2>5. \A j \in 1 .. l - f + 1 : packets[p][j] = f + j - 1
    BY <2>2, <2>3, <2>4 DEF records
  <2>6. DOMAIN packets[p] = 1 .. l - f + 1
    BY <2>2, <2>3
  <2> QED BY <2>1, <2>2, <2>3, <2>5, <2>6 DEF f, l
<1>7. ASSUME NEW i \in 1 .. n PROVE \E p \in 1 .. number : i \in AddressesIn(packets[p])
  <2> DEFINE p == (i - 1) \div 29 + 1
             j == ((i - 1) % 29) + 1
  <2>1. p \in Nat \ {0} /\ j \in 1 .. 29 /\ i = (p - 1) * 29 + j
    BY <1>1
  <2> HIDE DEF p, j
  <2>2. p \in 1 .. number
    BY <1>1, <1>5, <2>1
  <2>3. j \in 1 .. last(p) - ((p - 1) * 29 + 1) + 1
    BY <1>1, <1>5, <2>1, <2>2
  <2>4. j \in DOMAIN packets[p] /\ packets[p][j] = i
    <3>1. j \in DOMAIN packets[p] /\ packets[p][j] = ((p - 1) * 29 + 1) + j - 1
      <4> HIDE DEF number, last
      <4> QED BY <1>6, <2>2, <2>3
    <3> QED BY <2>1, <3>1
  <2> QED BY <2>2, <2>4 DEF AddressesIn
<1> QED
  <2>1. DOMAIN packets = 1 .. number
    BY <1>4
  <2>2. 1 .. n = {i \in DOMAIN listen : i <= MAX_ADDRESSES} /\ DOMAIN listen \subseteq Nat
    BY ListenValues, TakenValues DEF n
  <2>3. MAX_ADDRESSES \in Nat
    BY DEF MAX_ADDRESSES
  <2> HIDE DEF number, last
  <2>4. ASSUME NEW i \in DOMAIN listen PROVE i > MAX_ADDRESSES \/ i \in 1 .. n
    BY <2>2, <2>3
  <2>5. ASSUME NEW p \in DOMAIN packets PROVE packets[p] \in Seq(DOMAIN listen)
    <3>1. packets[p] \in Seq(1 .. n) /\ 1 .. n \subseteq DOMAIN listen
      BY <1>6, <2>1, <2>2
    <3>2. PICK s, A, B : s = packets[p] /\ A = 1 .. n /\ B = DOMAIN listen
      OBVIOUS
    <3>3. s \in Seq(A) /\ A \subseteq B
      BY <3>1, <3>2
    <3>4. s \in Seq(B)
      BY <3>3
    <3> QED BY <3>2, <3>4
  <2> QED BY <1>7, <2>1, <2>4, <2>5

-------------------------------------------------------------------------------
(* The addresses that are found.                                             *)

\* Whoever was heard is a process of the past or the present, and the addresses of a
\* process that still runs have been found.
HeardOK(n, h) ==
    /\ h = [peer |-> h.peer, slot |-> h.slot, life |-> h.life]
    /\ h.slot \in Nodes /\ h.life \in Nat /\ h.life <= lives[h.slot]
    /\ Current(h.slot, h.life) /\ proc[h.slot].key # proc[n].key =>
            LET packets == build_query_response(proc[h.slot].listen)
            IN  \A i \in DOMAIN proc[h.slot].listen :
                    \/ i > MAX_ADDRESSES \/ Record(h, i) \in found[n]
                    \/ \E p \in DOMAIN packets :
                            i \in AddressesIn(packets[p]) /\ Len(packets[p]) > SafeRecords
HInv ==
    /\ \A n \in Nodes : Running(n) => proc[n].listen \in Listens
    /\ \A n \in Nodes : \A h \in heard[n] : HeardOK(n, h)

LEMMA InvGivesFound == HInv => AddressesFound
  BY DEF HInv, HeardOK, AddressesFound

LEMMA InitHeard == Init => HInv
  BY DEF Init, HInv, Running, Off

\* What was heard stays so as long as the two processes run and nothing expires.
LEMMA HeardKept ==
    ASSUME NEW n, NEW h, HeardOK(n, h), proc'[n] = proc[n],
           Current(h.slot, h.life)' => Current(h.slot, h.life) /\ proc'[h.slot] = proc[h.slot],
           lives[h.slot] \in Nat, lives'[h.slot] \in Nat, lives[h.slot] <= lives'[h.slot],
           \A i : Record(h, i) \in found[n] => Record(h, i) \in found'[n]
    PROVE  HeardOK(n, h)'
<1> DEFINE packets == build_query_response(proc[h.slot].listen)
           Had(i) == \/ i > MAX_ADDRESSES \/ Record(h, i) \in found[n]
                     \/ \E p \in DOMAIN packets :
                            i \in AddressesIn(packets[p]) /\ Len(packets[p]) > SafeRecords
<1>1. (h.slot \in Nodes /\ h.life \in Nat /\ h.life <= lives[h.slot])'
  BY DEF HeardOK
<1>2. ASSUME Current(h.slot, h.life)', proc'[h.slot].key # proc'[n].key,
             NEW i \in DOMAIN proc'[h.slot].listen
      PROVE  Had(i)'
  <2>1. proc'[h.slot] = proc[h.slot] /\ Current(h.slot, h.life)
    BY <1>2
  <2>2. Had(i)
    BY <1>2, <2>1 DEF HeardOK
  <2>3. packets' = packets
    BY <2>1
  <2> HIDE DEF packets
  <2> QED BY <2>2, <2>3
<1> QED BY <1>1, <1>2 DEF HeardOK

LEMMA QuietHeard ==
    ASSUME HInv, UNCHANGED <<proc, lives, found, heard>>
    PROVE  HInv'
<1>1. ASSUME NEW n \in Nodes, NEW h \in heard[n] PROVE HeardOK(n, h)'
  BY <1>1 DEF HInv, HeardOK, Current, Running
<1> QED BY <1>1 DEF HInv, Running

LEMMA StartHeard ==
    ASSUME IInv, HInv, NEW n \in Nodes, NEW a \in Arguments, Start(n, a)
    PROVE  HInv'
<1>1. lives \in [Nodes -> Nat] /\ lives' = [lives EXCEPT ![n] = lives[n] + 1]
      /\ ~Running(n) /\ UNCHANGED <<found, heard>>
  BY DEF Start, IInv, ProcessesOK
<1>2. /\ \A m \in Nodes \ {n} : proc'[m] = proc[m]
      /\ proc'[n] = Off \/ proc'[n] = Process(n, a, lives[n] + 1)
  <2>1. proc = [m \in Nodes |-> proc[m]] /\ proc[n] = Off
    BY <1>1 DEF IInv, ProcessesOK, IsProcess, Running
  <2>2. proc' = IF Fails(a) THEN proc ELSE [proc EXCEPT ![n] = Process(n, a, lives[n] + 1)]
    BY DEF Start
  <2> QED BY <2>1, <2>2
<1>3. ASSUME NEW m \in Nodes, Running(m)' PROVE proc'[m].listen \in Listens
  <2>1. CASE m # n
    BY <1>2, <1>3, <2>1 DEF HInv, Running
  <2>2. CASE m = n
    BY <1>2, <1>3, <2>2, NodesAssumption DEF Running, Off, Process, Listens
  <2> QED BY <2>1, <2>2
<1>4. ASSUME NEW m \in Nodes, NEW h \in heard'[m] PROVE HeardOK(m, h)'
  <2>1. h \in heard[m] /\ HeardOK(m, h) /\ m # n
    BY <1>1, <1>4 DEF HInv, IInv, PlacesOK
  <2>2. h.slot \in Nodes /\ h.life \in Nat /\ h.life <= lives[h.slot]
    BY <2>1 DEF HeardOK
  <2>3. lives[h.slot] \in Nat /\ lives'[h.slot] \in Nat /\ lives[h.slot] <= lives'[h.slot]
    BY <1>1, <2>2
  <2>4. ASSUME Current(h.slot, h.life)' PROVE h.slot # n
    <3> SUFFICES ASSUME h.slot = n PROVE FALSE
      OBVIOUS
    <3>1. proc'[n] = Process(n, a, lives[n] + 1) /\ proc'[n].life = h.life
      BY <1>2, <2>4 DEF Current, Running, Off
    <3>2. h.life = lives[n] + 1
      BY <3>1 DEF Process
    <3> QED BY <2>2, <2>3, <3>2
  <2>5. Current(h.slot, h.life)' => Current(h.slot, h.life) /\ proc'[h.slot] = proc[h.slot]
    BY <1>2, <2>2, <2>4 DEF Current, Running
  <2>6. proc'[m] = proc[m] /\ found'[m] = found[m]
    BY <1>1, <1>2, <2>1
  <2> QED BY <2>1, <2>3, <2>5, <2>6, HeardKept
<1> QED BY <1>3, <1>4 DEF HInv

LEMMA StopHeard ==
    ASSUME IInv, HInv, NEW n \in Nodes, Stop(n)
    PROVE  HInv'
<1>1. /\ lives' = lives /\ lives \in [Nodes -> Nat]
      /\ proc'[n] = Off /\ \A m \in Nodes \ {n} : proc'[m] = proc[m]
      /\ heard'[n] = {} /\ \A m \in Nodes \ {n} : found'[m] = found[m] /\ heard'[m] = heard[m]
  BY DEF Stop, IInv, ProcessesOK, PlacesOK
<1>2. \A m, life : Current(m, life)' => Current(m, life) /\ proc'[m] = proc[m]
  BY <1>1 DEF Current, Running, Off
<1>3. ASSUME NEW m \in Nodes, NEW h \in heard'[m] PROVE HeardOK(m, h)'
  <2>1. h \in heard[m] /\ HeardOK(m, h) /\ m # n
    BY <1>1, <1>3 DEF HInv
  <2>2. lives[h.slot] \in Nat /\ lives'[h.slot] \in Nat /\ lives[h.slot] <= lives'[h.slot]
    BY <1>1, <2>1 DEF HeardOK
  <2> QED BY <1>1, <1>2, <2>1, <2>2, HeardKept
<1>4. \A m \in Nodes : Running(m)' => proc'[m].listen \in Listens
  BY <1>1 DEF HInv, Running, Off
<1> QED BY <1>3, <1>4 DEF HInv

\* An answer that has arrived in full has every address in a packet that was parsed,
\* or in one of too many records.
LEMMA AnswerHeard ==
    ASSUME IInv, HInv, NEW n \in Nodes, NEW m \in Nodes, NEW l \in NameLengths, Answer(m, n, l)
    PROVE  HInv'
<1> DEFINE listen == proc[m].listen
           packets == build_query_response(listen)
           psk == proc[m].psk # NoPsk
           Read(arrived) == {p \in arrived : IsParsed(packets[p], listen, l, psk)}
           Indices(arrived) == UNION {AddressesIn(packets[p]) : p \in Read(arrived)}
<1>1. Running(m) /\ Running(n) /\ UNCHANGED <<proc, lives>>
  BY DEF Answer
<1>2. PICK arrived \in SUBSET DOMAIN packets :
        /\ found' = [found EXCEPT ![n] =
                IF proc[m].key = proc[n].key THEN found[n]
                ELSE found[n] \cup {Record(Self(m), i) : i \in Indices(arrived)}]
        /\ heard' = [heard EXCEPT ![n] =
                IF arrived = DOMAIN packets THEN heard[n] \cup {Self(m)} ELSE heard[n]]
  BY DEF Answer
<1>3. listen \in Listens /\ lives[m] \in Nat /\ psk \in BOOLEAN /\ l \in PeerNameLengths
  BY <1>1, NodesAssumption DEF HInv, IInv, ProcessesOK
<1> HIDE DEF listen, psk, packets
<1>4. \A h \in Nodes : found[h] \subseteq found'[h]
  BY <1>2 DEF IInv, PlacesOK
<1>5. ASSUME arrived = DOMAIN packets, proc[m].key # proc[n].key, NEW i \in DOMAIN listen,
             ~(i > MAX_ADDRESSES),
             \A p \in DOMAIN packets : i \in AddressesIn(packets[p]) => ~(Len(packets[p]) > SafeRecords)
      PROVE  Record(Self(m), i) \in found'[n]
  <2>1. PICK p \in DOMAIN packets : i \in AddressesIn(packets[p])
    BY <1>3, <1>5, PacketsCover DEF packets
  <2>2. packets[p] \in Seq(DOMAIN listen)
    BY <1>3, PacketsCover DEF packets
  <2>3. Len(packets[p]) <= SafeRecords
    <3>1. Len(packets[p]) \in Nat /\ SafeRecords \in Int
      BY <2>2 DEF SafeRecords, RECV_BUFFER, MAX_VALUE
    <3> QED BY <1>5, <2>1, <3>1
  <2>4. p \in Read(arrived)
    BY <1>3, <1>5, <2>2, <2>3, FewRecordsFit
  <2>5. i \in Indices(arrived)
    <3> HIDE DEF Read
    <3> QED BY <2>1, <2>4
  <2> HIDE DEF Indices
  <2> QED BY <1>2, <1>5, <2>5 DEF IInv, PlacesOK
<1> HIDE DEF Indices
<1>6. ASSUME NEW k \in Nodes, NEW h \in heard'[k] PROVE HeardOK(k, h)'
  <2>1. CASE h \in heard[k]
    <3>1. HeardOK(k, h)
      BY <2>1 DEF HInv
    <3>2. lives[h.slot] \in Nat /\ lives'[h.slot] \in Nat /\ lives[h.slot] <= lives'[h.slot]
      BY <1>1, <3>1 DEF HeardOK, IInv, ProcessesOK
    <3>3. Current(h.slot, h.life)' => Current(h.slot, h.life) /\ proc'[h.slot] = proc[h.slot]
      BY <1>1 DEF Current, Running
    <3> QED BY <1>1, <1>4, <3>1, <3>2, <3>3, HeardKept
  <2>2. CASE h \notin heard[k]
    <3>1. k = n /\ h = Self(m) /\ arrived = DOMAIN packets
      BY <1>2, <1>6, <2>2 DEF IInv, PlacesOK
    <3>2. h.slot = m /\ h.life = lives[m] /\ h = [peer |-> h.peer, slot |-> h.slot, life |-> h.life]
      BY <3>1 DEF Self
    <3>3. h.slot \in Nodes /\ h.life \in Nat /\ h.life <= lives'[h.slot]
      BY <1>1, <1>3, <3>2
    <3>4. ASSUME proc[m].key # proc[n].key, NEW i \in DOMAIN listen
          PROVE  \/ i > MAX_ADDRESSES \/ Record(h, i) \in found'[n]
                 \/ \E p \in DOMAIN packets :
                            i \in AddressesIn(packets[p]) /\ Len(packets[p]) > SafeRecords
      BY <1>5, <3>1, <3>4
    <3> QED BY <1>1, <3>1, <3>2, <3>3, <3>4 DEF HeardOK, packets, listen
  <2> QED BY <2>1, <2>2
<1>7. \A k \in Nodes : Running(k)' => proc'[k].listen \in Listens
  BY <1>1 DEF HInv, Running
<1> QED BY <1>6, <1>7 DEF HInv

LEMMA ExpireHeard ==
    ASSUME IInv, HInv, NEW n \in Nodes, NEW o, Expire(n, o)
    PROVE  HInv'
<1>1. /\ UNCHANGED <<proc, lives>>
      /\ found'[n] = {r \in found[n] : Origin(r) # o} /\ heard'[n] = heard[n] \ {o}
      /\ \A m \in Nodes \ {n} : found'[m] = found[m] /\ heard'[m] = heard[m]
  BY DEF Expire, IInv, PlacesOK
<1>2. ASSUME NEW m \in Nodes, NEW h \in heard'[m] PROVE HeardOK(m, h)'
  <2>1. h \in heard[m] /\ HeardOK(m, h) /\ (m = n => h # o)
    BY <1>1, <1>2 DEF HInv
  <2>2. lives[h.slot] \in Nat /\ lives'[h.slot] \in Nat /\ lives[h.slot] <= lives'[h.slot]
    BY <1>1, <2>1 DEF HeardOK, IInv, ProcessesOK
  <2>3. Current(h.slot, h.life)' => Current(h.slot, h.life) /\ proc'[h.slot] = proc[h.slot]
    BY <1>1 DEF Current, Running
  <2>4. ASSUME NEW i, Record(h, i) \in found[m] PROVE Record(h, i) \in found'[m]
    <3>1. Origin(Record(h, i)) = h
      BY <2>1 DEF Origin, Record, HeardOK
    <3> QED BY <1>1, <2>1, <2>4, <3>1
  <2> QED BY <1>1, <2>1, <2>2, <2>3, <2>4, HeardKept
<1>3. \A m \in Nodes : Running(m)' => proc'[m].listen \in Listens
  BY <1>1 DEF HInv, Running
<1> QED BY <1>2, <1>3 DEF HInv

LEMMA NextHeard == IInv /\ HInv /\ [Next]_vars => HInv'
<1> SUFFICES ASSUME IInv, HInv, [Next]_vars
             PROVE  HInv'
  OBVIOUS
<1>1. ASSUME NEW n \in Nodes, NEW a \in Arguments, Start(n, a) PROVE HInv'
  BY <1>1, StartHeard
<1>2. ASSUME NEW n \in Nodes, Stop(n) PROVE HInv'
  BY <1>2, StopHeard
<1>3. ASSUME NEW n \in Nodes, NEW m \in Nodes, NEW l \in NameLengths, Answer(m, n, l) PROVE HInv'
  BY <1>3, AnswerHeard
<1>4. ASSUME NEW n \in Nodes, NEW o \in Discovered(n), Expire(n, o) PROVE HInv'
  BY <1>4, ExpireHeard
<1>5. ASSUME NEW n \in Nodes, NEW h \in Hosts, Move(n, h) PROVE HInv'
  BY <1>5, QuietHeard DEF Move
<1>6. ASSUME NEW n \in Nodes, NEW o \in Discovered(n), DialFound(n, o) PROVE HInv'
  BY <1>6, QuietHeard DEF DialFound
<1>7. ASSUME NEW n \in Nodes, ForeignDials(n) PROVE HInv'
  BY <1>7, QuietHeard DEF ForeignDials
<1>8. ASSUME NEW c \in Conns,
             ServerHello(c) \/ ClientFinishes(c) \/ ForeignFinishes(c) \/ ServerFinishes(c) \/ Close(c)
      PROVE  HInv'
  BY <1>8, QuietHeard DEF ServerHello, ClientFinishes, ForeignFinishes, ServerFinishes, Close
<1>9. CASE UNCHANGED vars
  BY <1>9, QuietHeard DEF vars
<1> QED BY <1>1, <1>2, <1>3, <1>4, <1>5, <1>6, <1>7, <1>8, <1>9 DEF Next

\* Of an answer of which nothing was lost every address is found that is in a packet of
\* at most SafeRecords records (build_query_response, query_response_packet), whatever
\* the number of addresses, up to MAX_ADDRESSES, as long as the process that answered still runs: none falls
\* between two packets, and recv_buffer (iface.rs) does not cut such a packet off.
THEOREM AddressesFoundHolds == Spec => []AddressesFound
<1>1. Init /\ []IInv /\ [][Next]_vars => []HInv
  BY InitHeard, NextHeard, PTL
<1> QED BY <1>1, InvHolds, InvGivesFound, PTL DEF Spec
===============================================================================
