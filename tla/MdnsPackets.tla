------------------------------ MODULE MdnsPackets ------------------------------
(* The answer to an mDNS query (src/lib/mdns/src/behaviour/iface/dns.rs) and *)
(* what a node reads of it (query.rs): the split into packets, their sizes   *)
(* in bytes and the service name, by which nodes with another pre-shared key *)
(* are told apart.                                                           *)
(*                                                                           *)
(* The addresses of a node are given by the lengths of their TXT values,     *)
(* "dnsaddr=<address>/p2p/<peer id>"; an address is its position.            *)
EXTENDS Integers, Sequences

MAX_TXT_VALUE_LENGTH == 255
MAX_TXT_RECORD_SIZE == MAX_TXT_VALUE_LENGTH + 45
MAX_PACKET_SIZE == 9000 - 68
MAX_RECORDS_PER_PACKET == (MAX_PACKET_SIZE - 100) \div MAX_TXT_RECORD_SIZE
MAX_ADDRESSES == 65535
RECV_BUFFER == 4096

\* Lengths of names: "_p2pclipboard._udp.local", the one with the uuid of a
\* pre-shared key, and the random name of an answer; encoded, a name takes two more.
ServiceNameLength(hasPsk) == IF hasPsk THEN 52 ELSE 24
PeerNameLengths == 32 .. 63
append_qname(length) == length + 2

\* append_txt_record: name, type, class, time to live, two lengths and the value.
TxtRecordSize(nameLength, value) == append_qname(nameLength) + 11 + value

\* How many addresses are looked at.
Taken(listen) == IF Len(listen) < MAX_ADDRESSES THEN Len(listen) ELSE MAX_ADDRESSES

\* build_query_response: the addresses whose record is not too long, in packets of
\* MAX_RECORDS_PER_PACKET; an empty packet when there are none.
Answered(listen) ==
    LET kept[i \in 0 .. Taken(listen)] ==
            IF i = 0 THEN <<>>
            ELSE IF listen[i] <= MAX_TXT_VALUE_LENGTH THEN Append(kept[i - 1], i) ELSE kept[i - 1]
    IN  kept[Taken(listen)]
DropsTheRest(listen) ==                                                \* mutant
    [p \in 1 .. Len(Answered(listen)) \div MAX_RECORDS_PER_PACKET |->
        SubSeq(Answered(listen), (p - 1) * MAX_RECORDS_PER_PACKET + 1, p * MAX_RECORDS_PER_PACKET)]
build_query_response(listen) ==
    LET records == Answered(listen)
        full    == Len(records) \div MAX_RECORDS_PER_PACKET
        rest    == Len(records) % MAX_RECORDS_PER_PACKET
        number  == IF full = 0 \/ rest # 0 THEN full + 1 ELSE full
        last(p) == IF p <= full THEN p * MAX_RECORDS_PER_PACKET ELSE Len(records)
    IN  [p \in 1 .. number |-> SubSeq(records, (p - 1) * MAX_RECORDS_PER_PACKET + 1, last(p))]

\* query_response_packet: the header, the PTR record and the TXT records.
PacketSize(packet, listen, nameLength, hasPsk) ==
    LET size[i \in 0 .. Len(packet)] ==
            IF i = 0 THEN 12 + append_qname(ServiceNameLength(hasPsk)) + 10 + append_qname(nameLength)
            ELSE size[i - 1] + TxtRecordSize(nameLength, listen[packet[i]])
    IN  size[Len(packet)]

\* A packet that does not fit in recv_buffer is cut off, and then no DNS message.
IsParsed(packet, listen, nameLength, hasPsk) ==
    PacketSize(packet, listen, nameLength, hasPsk) <= RECV_BUFFER

\* MdnsPeer::new: the addresses in the TXT records of a packet.
AddressesIn(packet) == {packet[i] : i \in DOMAIN packet}

\* Packets of so few records fit whatever their names and addresses are, for the
\* /ip4/../tcp/.. addresses of this program, whose values have 83 to 95 bytes.
MAX_VALUE == 95
SafeRecords == (RECV_BUFFER - 12 - 54 - 10 - 65) \div (65 + 11 + MAX_VALUE)
===============================================================================
