----------------------------- MODULE PeerAdmission -----------------------------
(* Who gets to be a peer: start_network (src/src/network.rs) with the        *)
(* arguments of a node, discovery among the nodes that have the same         *)
(* pre-shared key, and the TLS 1.3 handshake of src/lib/tls with             *)
(* certificates that only those nodes can make and read.                     *)
(*                                                                           *)
(* The client of a handshake is done when it has verified the server and     *)
(* sent its own certificate, before the server has looked at that.  An mDNS  *)
(* query and its answer are one step here: MdnsDiscovery has the steps.      *)
EXTENDS TlsCertificates, MdnsPackets, FiniteSets

CONSTANTS
    Nodes,          \* machines; also the network addresses they have at first
    Foreign,        \* a device that runs another program with libp2p TLS
    MachineKey,     \* MachineKey[n]: the host key derived from n's machine id
    Arguments,      \* what the program is started with, see Start
    ForeignKinds,   \* kinds of certificates and protocols of Foreign
    ForeignFlight(_),   \* what it presents then
    CommonKinds,    \* bound: its kinds when there has been more than one process
    NameLengths,    \* lengths of random peer names
    MaxStarts,      \* bound: MaxStarts[n], how often n is started
    Conns, MaxDials, MaxMoves   \* bounds: connections at a time, and so on

ASSUME NodesAssumption ==
    /\ Foreign \notin Nodes
    /\ MachineKey \in [Nodes -> HostKeys]
    /\ \A a \in Arguments : a.psk \in Psks \cup {NoPsk} /\ a.key \in HostKeys \cup {Nothing}
    /\ \A a \in Arguments : a.connect # Nothing => a.connect.to \in Nodes
    /\ \A a \in Arguments : a.listen \in Seq(0 .. MAX_VALUE)
    /\ NameLengths \subseteq PeerNameLengths
    /\ CommonKinds \subseteq ForeignKinds
    /\ MaxStarts \in [Nodes -> Nat] /\ MaxDials \in Nat /\ MaxMoves \in Nat

\* The host key in a certificate is one.
NamesHostKeys(flight) ==
    Len(flight.chain) = 1 =>
        \A i \in P2pAt(flight.chain[1]) : flight.chain[1].extensions[i].key \in HostKeys

ASSUME ForeignAssumption == \A k \in ForeignKinds : NamesHostKeys(ForeignFlight(k))

\* No part of an extension is an error.
HasParts(extensions) ==
    /\ DOMAIN extensions \subseteq Nat
    /\ \A i \in DOMAIN extensions : extensions[i].oid = "p2p" =>
            LET host      == extensions[i].key
                signature == [by |-> extensions[i].signature.by, over |-> extensions[i].signature.over,
                              seal |-> extensions[i].signature.seal]
                opened    == [signature EXCEPT !.seal = <<>>]
            IN  /\ extensions[i].signature = signature
                /\ Nothing \notin {signature, opened, [public_key |-> host, signature |-> signature],
                                   [public_key |-> host, signature |-> opened]}

ASSUME PresentedAssumption ==
    \A k \in ForeignKinds :
        Len(ForeignFlight(k).chain) = 1 => HasParts(ForeignFlight(k).chain[1].extensions)

\* An error is none of the things that are there when there is none.
ASSUME NothingAssumption ==
    /\ Nothing \notin RingSchemes
    /\ \A n \in Nodes, host \in HostKeys, role \in {"client", "server"} :
        \A life \in 0 .. MaxStarts[n] :
            LET signature == HostSignature(host, <<n, life, role>>)
            IN  Nothing \notin {signature, [public_key |-> host, signature |-> signature]}

VARIABLES
    proc,    \* proc[n]: the running process, or Off
    lives,   \* lives[n]: how often n has been started
    at,      \* at[a]: the machine that has the network address a
    found,   \* found[n]: the addresses n has discovered
    heard,   \* history: heard[n], the answers of which no packet was lost
    conn,    \* conn[c]: a connection
    dials, moves

vars == <<proc, lives, at, found, heard, conn, dials, moves>>

Off == [running |-> FALSE]
NoConn == [client |-> Nothing, cside |-> "closed", sside |-> "closed"]

Running(n) == proc[n].running
Hosts == Nodes \cup {Foreign}

Init ==
    /\ proc = [n \in Nodes |-> Off]
    /\ lives = [n \in Nodes |-> 0]
    /\ at = [a \in Nodes |-> a]
    /\ found = [n \in Nodes |-> {}]
    /\ heard = [n \in Nodes |-> {}]
    /\ conn = [c \in Conns |-> NoConn]
    /\ dials = 0 /\ moves = 0

-------------------------------------------------------------------------------
(* Dialling.                                                                 *)

Over(state) == state \in {"refused", "wrong_peer", "closed"}
IsFree(c) == Over(conn[c].cside) /\ Over(conn[c].sside)

\* make_client_config, make_server_config: cipher suites.
NoChaCha(aes) == IF aes THEN {"aes256", "aes128"} ELSE {"chacha20"}    \* mutant
cipher_suites(aes) == IF aes THEN {"aes256", "aes128", "chacha20"} ELSE {"chacha20"}

\* A connection from client to server.  intended is the PeerId in the address that
\* is dialled and record where it comes from, if anywhere.
LifeOf(h) == IF h = Foreign THEN 0 ELSE lives[h]
NewConn(client, clife, suites, server, intended, record) ==
    [client |-> client, clife |-> clife, suites |-> suites,
     server |-> server, slife |-> LifeOf(server),
     intended |-> intended, record |-> record,
     cside |-> "hello", sside |-> "hello", cpeer |-> Nothing, speer |-> Nothing,
     cflight |-> Nothing, sflight |-> Nothing]

\* Bound: Foreign talks to a node while no other node runs and nobody else connects.
WithForeign(c) == conn[c] # NoConn /\ Foreign \in {conn[c].client, conn[c].server}
ForeignBusy == \E c \in Conns : WithForeign(c)
Alone(n) == (\A m \in Nodes \ {n} : ~Running(m)) /\ (\A c \in Conns : IsFree(c))

ForeignPresents(n) ==
    {ForeignFlight(k) : k \in IF \A m \in Nodes : lives[m] = IF m = n THEN 1 ELSE 0
                               THEN ForeignKinds ELSE CommonKinds}

Reachable(client, server) == server # client /\ IF server = Foreign THEN Alone(client) ELSE Running(server)

\* Dials reach the machine that has the address now.
Dial(n, life, aes, address, intended, record) ==
    /\ dials < MaxDials /\ ~ForeignBusy
    /\ dials' = dials + 1
    /\ IF Reachable(n, at[address])
       THEN \E c \in Conns :
                /\ IsFree(c)
                /\ conn' = [conn EXCEPT ![c] =
                            NewConn(n, life, cipher_suites(aes), at[address], intended, record)]
       ELSE UNCHANGED conn

-------------------------------------------------------------------------------
(* The program is started and stopped.                                       *)

\* "IP:PORT" has a port, "IP" gets port 0, and anything else is an error.
parse_ipv4_with_port(arg) ==
    CASE arg = "ip:port" -> "port" [] arg = "ip" -> "zero" [] OTHER -> Nothing

\* start_network exits or panics: on a key that is none, an address that is none or
\* a peer id that is none.
Fails(a) ==
    \/ a.key_file = "bad"
    \/ a.connect # Nothing /\ (parse_ipv4_with_port(a.connect.addr) = Nothing \/ a.connect.peer = Nothing)
    \/ a.listen_arg # Nothing /\ parse_ipv4_with_port(a.listen_arg) = Nothing

\* The process that runs with arguments a: its identity is the given key or the one
\* of the machine; its certificates have new keys.
GivenKeyOnly(n, a, life) ==                                            \* mutant
    [running |-> TRUE, psk |-> a.psk, key |-> a.key,
     aes |-> a.aes, clock |-> a.clock, no_mdns |-> a.no_mdns, listen |-> a.listen, life |-> life]
Process(n, a, life) ==
    [running |-> TRUE, psk |-> a.psk, key |-> IF a.key = Nothing THEN MachineKey[n] ELSE a.key,
     aes |-> a.aes, clock |-> a.clock, no_mdns |-> a.no_mdns, listen |-> a.listen, life |-> life]

\* The boot address is dialled without the boot peer id.
Start(n, a) ==
    /\ ~Running(n) /\ lives[n] < MaxStarts[n] /\ ~ForeignBusy
    /\ lives' = [lives EXCEPT ![n] = @ + 1]
    /\ IF Fails(a) THEN UNCHANGED proc
       ELSE proc' = [proc EXCEPT ![n] = Process(n, a, lives[n] + 1)]
    /\ IF ~Fails(a) /\ a.connect # Nothing /\ parse_ipv4_with_port(a.connect.addr) = "port"
       THEN Dial(n, lives[n] + 1, a.aes, a.connect.to, Nothing, Nothing)
       ELSE UNCHANGED <<conn, dials>>
    /\ UNCHANGED <<at, found, heard, moves>>

CloseEnds(n) ==
    [c \in Conns |->
        IF conn[c] = NoConn THEN NoConn
        ELSE [conn[c] EXCEPT !.cside = IF conn[c].client = n THEN "closed" ELSE @,
                             !.sside = IF conn[c].server = n THEN "closed" ELSE @]]

Stop(n) ==
    /\ Running(n)
    /\ proc' = [proc EXCEPT ![n] = Off]
    /\ found' = [found EXCEPT ![n] = {}]
    /\ heard' = [heard EXCEPT ![n] = {}]
    /\ conn' = CloseEnds(n)
    /\ UNCHANGED <<lives, at, dials, moves>>

\* Two machines swap their network addresses, or Foreign gets one of them.
Move(a, h) ==
    /\ moves < MaxMoves /\ ~ForeignBusy
    /\ moves' = moves + 1
    /\ h # at[a]
    /\ at' = [b \in Nodes |-> IF b = a THEN h ELSE IF at[b] = h THEN at[a] ELSE at[b]]
    /\ UNCHANGED <<proc, lives, found, heard, conn, dials>>

-------------------------------------------------------------------------------
(* Discovery.                                                                *)

OneServiceName(psk) == "_p2pclipboard"                                 \* mutant
\* create_mdns_behavior and InterfaceState::new: the fingerprint of the pre-shared
\* key is part of the name.
service_name(psk) == IF psk = NoPsk THEN <<"_p2pclipboard">> ELSE <<"_p2pclip", psk>>

\* The process with the PeerId and address of a record.
Origin(r) == [peer |-> r.peer, slot |-> r.slot, life |-> r.life]
Self(m) == [peer |-> proc[m].key, slot |-> m, life |-> lives[m]]
Record(o, i) == [peer |-> o.peer, slot |-> o.slot, life |-> o.life, index |-> i]
Discovered(n) == {Origin(r) : r \in found[n]}

\* m answers a query of n in packets, some of which may be lost.  A query or an
\* answer with another service name is ignored, and so is the node itself.
Answer(m, n, nameLength) ==
    LET packets == build_query_response(proc[m].listen)
    IN  /\ m # n /\ Running(m) /\ Running(n)
        /\ ~proc[m].no_mdns /\ ~proc[n].no_mdns
        /\ service_name(proc[m].psk) = service_name(proc[n].psk)
        /\ \E arrived \in SUBSET DOMAIN packets :
            LET read == {p \in arrived : IsParsed(packets[p], proc[m].listen, nameLength, proc[m].psk # NoPsk)}
            IN  /\ found' = [found EXCEPT ![n] =
                        IF proc[m].key = proc[n].key THEN @
                        ELSE @ \cup {Record(Self(m), i) : i \in UNION {AddressesIn(packets[p]) : p \in read}}]
                /\ heard' = [heard EXCEPT ![n] = IF arrived = DOMAIN packets THEN @ \cup {Self(m)} ELSE @]
        /\ UNCHANGED <<proc, lives, at, conn, dials, moves>>

\* mdns::Event::Discovered: the address is dialled, with the PeerId in it.
DialFound(n, o) ==
    /\ Running(n)
    /\ Dial(n, lives[n], proc[n].aes, o.slot, o.peer, o)
    /\ UNCHANGED <<proc, lives, at, found, heard, moves>>

\* The records of an answer expire.
Expire(n, o) ==
    /\ found' = [found EXCEPT ![n] = {r \in @ : Origin(r) # o}]
    /\ heard' = [heard EXCEPT ![n] = @ \ {o}]
    /\ UNCHANGED <<proc, lives, at, conn, dials, moves>>

\* Another program connects.
ForeignDials(n) ==
    /\ dials < MaxDials /\ dials' = dials + 1
    /\ Running(n) /\ Alone(n) /\ ~ForeignBusy
    /\ \E c \in Conns, f \in ForeignPresents(n) :
        /\ IsFree(c)
        /\ conn' = [conn EXCEPT ![c] =
                        [NewConn(Foreign, 0, cipher_suites(TRUE), n, Nothing, Nothing) EXCEPT !.cflight = f]]
    /\ UNCHANGED <<proc, lives, at, found, heard, moves>>

-------------------------------------------------------------------------------
(* The handshake.                                                            *)

SuitesOf(h) == cipher_suites(h = Foreign \/ proc[h].aes)

OpenClient(n, role) ==                                                 \* mutant
    LET key == <<n, proc[n].life, role>>
    IN  [chain |-> <<generate(proc[n].key, key, IF role = "client" THEN NoPsk ELSE proc[n].psk)>>,
         alpn |-> "ours",
         scheme |-> P2P_SIGNATURE_ALGORITHM, signature |-> Signature(key, P2P_SIGNATURE_ALGORITHM)]
\* The certificate of n in one of its two roles, and how it signs the handshake.
Flight(n, role) ==
    LET key == <<n, proc[n].life, role>>
    IN  [chain |-> <<generate(proc[n].key, key, proc[n].psk)>>, alpn |-> "ours",
         scheme |-> P2P_SIGNATURE_ALGORITHM, signature |-> Signature(key, P2P_SIGNATURE_ALGORITHM)]

\* The identity that n accepts on a flight, or Nothing.  The verifier of a client
\* knows no intended PeerId: Config::new_with_psk gives it none.
AcceptedId(n, flight) ==
    LET id == verify_presented_certs(flight.chain, proc[n].psk, proc[n].clock)
    IN  IF /\ id # Nothing
           /\ flight.alpn # "other"
           /\ verify_tls13_signature(flight.chain, flight.scheme, flight.signature, proc[n].psk, proc[n].clock)
        THEN id ELSE Nothing

AnyPeer(n, intended, id) == id # proc[n].key                           \* mutant
\* The swarm takes a connection with the PeerId in the address that was dialled.
RightPeer(n, intended, id) == intended \in {Nothing, id} /\ id # proc[n].key

\* The server answers the ClientHello.
ServerHello(c) ==
    LET s == conn[c].server
    IN  /\ conn[c].sside = "hello"
        /\ \E f \in IF s = Foreign THEN ForeignPresents(conn[c].client) ELSE {Flight(s, "server")} :
                conn' = [conn EXCEPT
                    ![c] = IF conn[c].suites \cap SuitesOf(s) = {} THEN [@ EXCEPT !.sside = "refused"]
                           ELSE [@ EXCEPT !.sside = "sent", !.sflight = f]]
        /\ UNCHANGED <<proc, lives, at, found, heard, dials, moves>>

\* upgrade_outbound: the client verifies the server and sends its certificate; the
\* swarm looks at the PeerId afterwards.
ClientFinishes(c) ==
    LET n  == conn[c].client
        id == AcceptedId(n, conn[c].sflight)
    IN  /\ conn[c].cside = "hello" /\ n # Foreign
        /\ conn[c].sflight # Nothing
        /\ \/ /\ id = Nothing
              /\ conn' = [conn EXCEPT ![c].cside = "refused"]
           \/ /\ id # Nothing
              /\ conn' = [conn EXCEPT
                    ![c].cside = IF RightPeer(n, conn[c].intended, id) THEN "done" ELSE "wrong_peer",
                    ![c].cpeer = id, ![c].cflight = Flight(n, "client")]
        /\ UNCHANGED <<proc, lives, at, found, heard, dials, moves>>

\* Another program accepts the certificates of this one.
ForeignFinishes(c) ==
    /\ \/ /\ conn[c].cside = "hello" /\ conn[c].client = Foreign /\ conn[c].sflight # Nothing
          /\ conn' = [conn EXCEPT ![c].cside = "done"]
       \/ /\ conn[c].sside = "sent" /\ conn[c].server = Foreign /\ conn[c].cflight # Nothing
          /\ conn' = [conn EXCEPT ![c].sside = "done"]
    /\ UNCHANGED <<proc, lives, at, found, heard, dials, moves>>

\* upgrade_inbound: the server verifies the client.
ServerFinishes(c) ==
    LET n  == conn[c].server
        id == AcceptedId(n, conn[c].cflight)
    IN  /\ conn[c].sside = "sent" /\ n # Foreign
        /\ conn[c].cflight # Nothing
        /\ conn[c].client = Foreign => conn[c].cside # "hello"
        /\ \/ /\ id = Nothing
              /\ conn' = [conn EXCEPT ![c].sside = "refused"]
           \/ /\ id # Nothing
              /\ conn' = [conn EXCEPT
                    ![c].sside = IF RightPeer(n, Nothing, id) THEN "done" ELSE "wrong_peer",
                    ![c].speer = id]
        /\ UNCHANGED <<proc, lives, at, found, heard, dials, moves>>

\* An end of a connection is closed: by the network, or because the other end is.
Close(c) ==
    /\ \/ ~Over(conn[c].cside) /\ conn' = [conn EXCEPT ![c].cside = "closed"]
       \/ ~Over(conn[c].sside) /\ conn' = [conn EXCEPT ![c].sside = "closed"]
    /\ UNCHANGED <<proc, lives, at, found, heard, dials, moves>>

Next ==
    \/ \E n \in Nodes :
        \/ \E a \in Arguments : Start(n, a)
        \/ Stop(n)
        \/ \E h \in Hosts : Move(n, h)
        \/ \E m \in Nodes, l \in NameLengths : Answer(m, n, l)
        \/ \E o \in Discovered(n) : DialFound(n, o) \/ Expire(n, o)
        \/ ForeignDials(n)
    \/ \E c \in Conns :
        \/ ServerHello(c) \/ ClientFinishes(c) \/ ForeignFinishes(c) \/ ServerFinishes(c)
        \/ Close(c)

Spec == Init /\ [][Next]_vars

-------------------------------------------------------------------------------
(* Properties.                                                               *)

Sides == {"hello", "sent", "done", "refused", "wrong_peer", "closed"}
Live == {c \in Conns : conn[c] # NoConn}

\* Every variable has its type.
TypeOK ==
    /\ \A n \in Nodes : Running(n) =>
            /\ proc[n].key \in HostKeys /\ proc[n].psk \in Psks \cup {NoPsk}
            /\ proc[n].life = lives[n]
    /\ \A n \in Nodes : lives[n] \in 0 .. MaxStarts[n]
    /\ at \in [Nodes -> Hosts]
    /\ \A n \in Nodes : ~Running(n) => found[n] = {} /\ heard[n] = {}
    /\ \A c \in Live :
            /\ conn[c].client \in Hosts /\ conn[c].server \in Hosts \ {conn[c].client}
            /\ conn[c].cside \in Sides \ {"sent"} /\ conn[c].sside \in Sides
            /\ conn[c].cpeer \in HostKeys \cup {Nothing} /\ conn[c].speer \in HostKeys \cup {Nothing}
    /\ dials \in 0 .. MaxDials /\ moves \in 0 .. MaxMoves

\* The process with that number still runs at h.
Current(h, life) == h \in Nodes /\ Running(h) /\ proc[h].life = life

\* Only nodes with the same pre-shared key connect to each other (Args::psk): when
\* one end has reported a connection, the process at the other end has the same key,
\* or none as well, however often either was started with another key before.
SamePskOnly ==
    \A c \in Live :
        LET k == conn[c]
        IN  /\ k.cside = "done" /\ k.client \in Nodes /\ Current(k.server, k.slife) =>
                    proc[k.client].psk = proc[k.server].psk
            /\ k.sside = "done" /\ k.server \in Nodes /\ Current(k.client, k.clife) =>
                    proc[k.server].psk = proc[k.client].psk

\* The PeerId that upgrade_inbound and upgrade_outbound report is that of the process
\* at the other end, and the one that was dialled if the address had one, although
\* addresses wander from machine to machine.
Authentic ==
    \A c \in Live :
        LET k == conn[c]
        IN  /\ k.cside = "done" /\ k.client \in Nodes =>
                    /\ k.intended \in {Nothing, k.cpeer}
                    /\ Current(k.server, k.slife) => k.cpeer = proc[k.server].key
            /\ k.sside = "done" /\ k.server \in Nodes /\ Current(k.client, k.clife) =>
                    k.speer = proc[k.client].key

\* The dates of all certificates of this program.
ClockIsRight(n) == proc[n].clock \in 1975 .. 4096

\* A client that reports a connection is not turned away by the server afterwards:
\* both decide alike, although only the server has seen both certificates by then.
NoHalfOpen ==
    \A c \in Live :
        conn[c].cside = "done" /\ conn[c].client \in Nodes
        /\ conn[c].sside \in {"refused", "wrong_peer"} => ~ClockIsRight(conn[c].server)

\* A node found by mDNS, under the name made of the pre-shared key, is one whose TLS
\* handshake succeeds, whatever the processors of the two, unless a clock is wrong or
\* the address has got another machine or process.
DiscoveredIsAdmitted ==
    \A c \in Live :
        LET k == conn[c]
        IN  k.record # Nothing /\ k.server = k.record.slot /\ k.slife = k.record.life =>
                /\ k.cside \in {"refused", "wrong_peer"} => ~ClockIsRight(k.client)
                /\ k.sside \in {"refused", "wrong_peer"} => ~ClockIsRight(k.server)

\* Of an answer of which nothing was lost, every address is found, of the first
\* MAX_ADDRESSES, that is in a packet of few enough records: none falls between two.
AddressesFound ==
    \A n \in Nodes : \A h \in heard[n] :
        LET m       == h.slot
            packets == build_query_response(proc[m].listen)
        IN  Current(m, h.life) /\ proc[m].key # proc[n].key =>
                \A i \in DOMAIN proc[m].listen :
                    \/ i > MAX_ADDRESSES \/ Record(h, i) \in found[n]
                    \/ \E p \in DOMAIN packets :
                            i \in AddressesIn(packets[p]) /\ Len(packets[p]) > SafeRecords

\* Another program is admitted exactly if its certificate follows the rules and is of
\* a supported kind, and its handshake is signed as the certificate is, with its key;
\* whatever the algorithms it names and the signatures it makes.
Admissible(n, f) ==
    /\ Conforms(f.chain, proc[n].psk, proc[n].clock)
    /\ Supported(f.chain[1])
    /\ f.scheme = DeclaredScheme(f.chain[1])
    /\ f.signature = Signature(f.chain[1].spki.key, f.scheme)
    /\ f.alpn # "other"
ForeignByTheRules ==
    \A c \in Live :
        LET k == conn[c]
        IN  /\ k.server = Foreign =>
                    /\ k.cside \in {"done", "wrong_peer"} => Admissible(k.client, k.sflight)
                    /\ k.cside = "refused" => ~Admissible(k.client, k.sflight)
            /\ k.client = Foreign =>
                    /\ k.sside \in {"done", "wrong_peer"} => Admissible(k.server, k.cflight)
                    /\ k.sside = "refused" => ~Admissible(k.server, k.cflight)
===============================================================================
