-------------------------- MODULE ChunkTransferProofs --------------------------
(* Proofs about ChunkTransfer, for any number of nodes and contents, any     *)
(* chunk size, and with every fault and reordering of the model.             *)
EXTENDS ChunkTransfer, RecursionLemmas, FunctionTheorems, SequenceTheorems, FiniteSetTheorems, TLAPS

-------------------------------------------------------------------------------
(* The operators the model is built from.                                    *)

\* A content is cut into a natural number of pieces, each a sequence of bytes,
\* and the announced number of chunks is a natural number.
LEMMA PiecesType ==
    ASSUME NEW data \in Seq(Byte), Len(data) > CHUNK_DATA_SIZE
    PROVE  /\ NumPieces(data) \in Nat
           /\ TotalChunks(data) \in Nat
           /\ \A i \in Nat : Piece(data, i) \in Seq(Byte)
<1>1. Len(data) \in Nat /\ CHUNK_DATA_SIZE \in Nat /\ CHUNK_DATA_SIZE > 0
  BY SizeAssumption
<1>2. \A x \in Nat : x \div CHUNK_DATA_SIZE \in Nat
  BY <1>1
<1>3. NumPieces(data) \in Nat /\ TotalChunks(data) \in Nat
  BY <1>1, <1>2 DEF NumPieces, TotalChunks
<1>4. ASSUME NEW i \in Nat PROVE Piece(data, i) \in Seq(Byte)
  <2> DEFINE from == i * CHUNK_DATA_SIZE + 1
             last == (i + 1) * CHUNK_DATA_SIZE
             to == IF last < Len(data) THEN last ELSE Len(data)
  <2>1. from \in Nat /\ from >= 1 /\ last \in Nat
    BY <1>1
  <2>2. to \in Nat /\ to <= Len(data)
    BY <1>1, <2>1
  <2>3. \A k \in from .. to : data[k] \in Byte
    BY <1>1, <2>1, <2>2, ElementOfSeq
  <2>4. SubSeq(data, from, to) \in Seq(Byte)
    BY <2>1, <2>2, <2>3, SubSeqProperties
  <2> QED BY <2>4 DEF Piece
<1> QED BY <1>3, <1>4

\* A chunked transfer of a content of S starts with a ChunkStart that carries the
\* digest of that content; the messages after it carry nothing of their own.
LEMMA ChunkMessagesType ==
    ASSUME NEW S \in SUBSET Contents, NEW c \in S, NEW t \in TransferIds, ~IsDirect(c)
    PROVE  LET msgs == ChunkMessages(c, t)
           IN  /\ msgs \in Seq(NetworkMessage)
               /\ msgs # <<>>
               /\ \A i \in DOMAIN msgs : CarriesOneOf(msgs[i], S)
<1> DEFINE data == Raw[c]
           start == ChunkStart(t, TotalChunks(data), sha256_hex(data))
           chunks == [i \in 1 .. NumPieces(data) |-> Chunk(t, i - 1, Piece(data, i - 1))]
           end == ChunkEnd(t)
           Carrier == {m \in NetworkMessage : CarriesOneOf(m, S)}
<1>1. data \in Seq(Byte) /\ Len(data) > CHUNK_DATA_SIZE
  BY RawAssumption, SizeAssumption DEF IsDirect
<1>2. /\ NumPieces(data) \in Nat
      /\ TotalChunks(data) \in Nat
      /\ \A i \in Nat : Piece(data, i) \in Seq(Byte)
  BY <1>1, PiecesType
<1>3. start \in Carrier
  <2>1. start \in NetworkMessage
    BY <1>1, <1>2 DEF ChunkStart, NetworkMessage, sha256_hex, Hashes
  <2>2. CarriesOneOf(start, S)
    BY DEF ChunkStart, CarriesOneOf
  <2> QED BY <2>1, <2>2
<1>4. ASSUME NEW i \in 1 .. NumPieces(data) PROVE chunks[i] \in Carrier
  <2>1. i - 1 \in Nat /\ Piece(data, i - 1) \in Seq(Byte)
    BY <1>2
  <2>2. chunks[i] = [type |-> "Chunk", transfer_id |-> t, index |-> i - 1,
                     data |-> Piece(data, i - 1)]
    BY DEF Chunk
  <2>3. chunks[i] \in NetworkMessage
    BY <2>1, <2>2 DEF NetworkMessage
  <2> HIDE DEF chunks
  <2>4. CarriesOneOf(chunks[i], S)
    BY <2>2 DEF CarriesOneOf
  <2> QED BY <2>3, <2>4
<1>5. end \in Carrier
  BY DEF ChunkEnd, NetworkMessage, CarriesOneOf
<1>6. chunks \in Seq(Carrier)
  <2>1. chunks = [i \in 1 .. NumPieces(data) |-> chunks[i]]
    OBVIOUS
  <2> HIDE DEF chunks, Carrier
  <2> QED BY <1>2, <1>4, <2>1, IsASeq
<1> HIDE DEF start, chunks, end, Carrier
<1>7. <<start>> \in Seq(Carrier) /\ <<end>> \in Seq(Carrier)
  BY <1>3, <1>5
<1>8. <<start>> \o chunks \in Seq(Carrier) /\ Len(<<start>> \o chunks) = 1 + Len(chunks)
  BY <1>6, <1>7, ConcatProperties
<1>9. <<start>> \o chunks \o <<end>> \in Seq(Carrier) /\ Len(<<start>> \o chunks \o <<end>>) > 0
  BY <1>6, <1>7, <1>8, ConcatProperties
<1>10. ChunkMessages(c, t) = <<start>> \o chunks \o <<end>>
  BY DEF ChunkMessages, start, chunks, end
<1>11. ASSUME NEW m \in Seq(Carrier)
       PROVE  m \in Seq(NetworkMessage) /\ \A i \in DOMAIN m : CarriesOneOf(m[i], S)
  BY DEF Carrier
<1>12. ChunkMessages(c, t) \in Seq(Carrier) /\ ChunkMessages(c, t) # <<>>
  BY <1>9, <1>10
<1> QED BY <1>11, <1>12

\* cleanup_stale_chunk_states only removes entries.
LEMMA CleanupProperties ==
    ASSUME NEW states \in [TransferIds -> ChunkReceiveState \cup {NoTransfer}]
    PROVE  /\ cleanup_stale_chunk_states(states)
                \in [TransferIds -> ChunkReceiveState \cup {NoTransfer}]
           /\ \A t \in TransferIds :
                \/ cleanup_stale_chunk_states(states)[t] = NoTransfer
                \/ cleanup_stale_chunk_states(states)[t] = states[t]
BY DEF cleanup_stale_chunk_states

\* handle_incoming_message keeps chunk_states typed, and the digest of every state
\* that of a content of S when the message carries one.
LEMMA StatesAfterProperties ==
    ASSUME NEW states \in [TransferIds -> ChunkReceiveState \cup {NoTransfer}],
           NEW m \in NetworkMessage, NEW S \in SUBSET Contents
    PROVE  /\ StatesAfter(states, m) \in [TransferIds -> ChunkReceiveState \cup {NoTransfer}]
           /\ (/\ CarriesOneOf(m, S)
               /\ \A t \in TransferIds : VouchedBy(states[t], S))
              => \A t \in TransferIds : VouchedBy(StatesAfter(states, m)[t], S)
<1>1. CASE m.type = "ChunkStart"
  <2> DEFINE st == [total_chunks |-> m.total_chunks, data_hash |-> m.data_hash,
                    received |-> {}, expired |-> FALSE]
  <2>1. StatesAfter(states, m) = [states EXCEPT ![m.transfer_id] = st]
    BY <1>1 DEF StatesAfter
  <2>2. m.transfer_id \in TransferIds /\ st \in ChunkReceiveState
    BY <1>1 DEF NetworkMessage, ChunkReceiveState
  <2>3. CarriesOneOf(m, S) => VouchedBy(st, S)
    BY <1>1 DEF CarriesOneOf, VouchedBy
  <2> HIDE DEF st
  <2> QED BY <2>1, <2>2, <2>3
<1>2. CASE m.type = "Chunk"
  <2> DEFINE old == states[m.transfer_id]
             received == {e \in old.received : e.index # m.index}
                            \cup {[index |-> m.index, data |-> m.data]}
             st == [old EXCEPT !.received = received]
  <2>1. CASE old = NoTransfer
    BY <1>2, <2>1 DEF StatesAfter
  <2>2. CASE old # NoTransfer
    <3>1. StatesAfter(states, m) = [states EXCEPT ![m.transfer_id] = st]
      BY <1>2, <2>2 DEF StatesAfter
    <3>2. /\ m.transfer_id \in TransferIds
          /\ [index |-> m.index, data |-> m.data] \in [index : Nat, data : Seq(Byte)]
      BY <1>2 DEF NetworkMessage
    <3>3. old \in ChunkReceiveState
      BY <2>2, <3>2
    <3>4. received \in SUBSET [index : Nat, data : Seq(Byte)]
      BY <3>2, <3>3 DEF ChunkReceiveState
    <3> HIDE DEF received
    <3>5. st \in ChunkReceiveState /\ st.data_hash = old.data_hash
      BY <3>3, <3>4 DEF ChunkReceiveState
    <3>6. VouchedBy(old, S) => VouchedBy(st, S)
      BY <2>2, <3>5 DEF VouchedBy
    <3> HIDE DEF st
    <3> QED BY <3>1, <3>2, <3>5, <3>6
  <2> QED BY <2>1, <2>2
<1>3. CASE m.type = "ChunkEnd"
  <2>1. StatesAfter(states, m) = [states EXCEPT ![m.transfer_id] = NoTransfer]
    BY <1>3 DEF StatesAfter
  <2>2. m.transfer_id \in TransferIds
    BY <1>3 DEF NetworkMessage
  <2> QED BY <2>1, <2>2 DEF VouchedBy
<1>4. CASE m.type \notin {"ChunkStart", "Chunk", "ChunkEnd"}
  BY <1>4 DEF StatesAfter
<1> QED BY <1>1, <1>2, <1>3, <1>4

\* The heart of the matter: the content handle_incoming_message returns is one of S
\* when the message and the states are, because the digest of the bytes a
\* transfer yields is the digest of an encoding of a content of S.
LEMMA ContentOfProperties ==
    ASSUME NEW states \in [TransferIds -> ChunkReceiveState \cup {NoTransfer}],
           NEW m \in NetworkMessage, NEW S \in SUBSET Contents
    PROVE  LET out == ContentOf(states, m)
           IN  /\ out \in Seq(Contents \cup {Garbage})
               /\ out # <<>> => Len(out) = 1
               /\ (/\ CarriesOneOf(m, S)
                   /\ \A t \in TransferIds : VouchedBy(states[t], S)
                   /\ out # <<>>) => out[1] \in S
<1>1. CASE m.type \in {"Direct", "Legacy"}
  <2>1. m.content \in Contents
    BY <1>1 DEF NetworkMessage
  <2>2. ContentOf(states, m) = <<m.content>> \/ ContentOf(states, m) = <<>>
    BY <1>1 DEF ContentOf
  <2>3. CarriesOneOf(m, S) => m.content \in S
    BY <1>1 DEF CarriesOneOf
  <2>4. CASE ContentOf(states, m) = <<m.content>>
    BY <2>1, <2>3, <2>4
  <2>5. CASE ContentOf(states, m) = <<>>
    BY <2>5
  <2> QED BY <2>2, <2>4, <2>5
<1>2. CASE m.type = "ChunkEnd"
  <2> DEFINE st == states[m.transfer_id]
  <2>1. m.transfer_id \in TransferIds
    BY <1>2 DEF NetworkMessage
  <2>2. CASE st = NoTransfer \/ Reassemble(st) = <<>>
    BY <1>2, <2>2 DEF ContentOf
  <2>3. CASE st # NoTransfer /\ Reassemble(st) # <<>>
    <3>1. Reassemble(st) = <<FullData(st)>> /\ sha256_hex(FullData(st)) = st.data_hash
      BY <2>3 DEF Reassemble
    <3>2. ContentOf(states, m) = <<FromBytes(FullData(st))>>
      BY <1>2, <2>3, <3>1 DEF ContentOf
    <3>3. FromBytes(FullData(st)) \in Contents \cup {Garbage}
      BY DEF FromBytes
    <3>4. ASSUME \A t \in TransferIds : VouchedBy(states[t], S)
          PROVE  FromBytes(FullData(st)) \in S
      <4>1. PICK c \in S : st.data_hash = sha256_hex(Raw[c])
        BY <2>1, <2>3, <3>4 DEF VouchedBy
      <4>2. FullData(st) = Raw[c]
        BY <3>1, <4>1 DEF sha256_hex
      <4>3. FromBytes(Raw[c]) = c
        BY RawAssumption DEF FromBytes
      <4> QED BY <4>2, <4>3
    <3> HIDE DEF st
    <3> QED BY <3>2, <3>3, <3>4
  <2> QED BY <2>2, <2>3
<1>3. CASE m.type \notin {"Direct", "Legacy", "ChunkEnd"}
  BY <1>3 DEF ContentOf
<1> QED BY <1>1, <1>2, <1>3

\* The tail of a queue holds what is behind its head.
LEMMA TailElement ==
    ASSUME NEW S, NEW s \in Seq(S), s # <<>>, NEW i \in DOMAIN Tail(s)
    PROVE  i + 1 \in DOMAIN s /\ Tail(s)[i] = s[i + 1]
BY HeadTailProperties

-------------------------------------------------------------------------------
(* The parts of a step.                                                      *)

\* What is genuine stays so while more contents are copied.
LEMMA CarriesMonotone ==
    ASSUME NEW m, NEW S, NEW T, S \subseteq T, CarriesOneOf(m, S)
    PROVE  CarriesOneOf(m, T)
BY DEF CarriesOneOf

\* A conjunct of Provenance survives a step that leaves its variable alone.
LEMMA Frame ==
    ASSUME Provenance, CopiedContents \subseteq CopiedContents'
    PROVE  /\ UNCHANGED rx => RxGenuine'
           /\ UNCHANGED pending_chunks => PendingGenuine'
           /\ UNCHANGED link => LinksGenuine'
           /\ UNCHANGED chunk_states => StatesGenuine'
           /\ UNCHANGED delivered => Integrity'
<1>1. UNCHANGED rx => RxGenuine'
  BY DEF Provenance, RxGenuine
<1>2. UNCHANGED pending_chunks => PendingGenuine'
  BY CarriesMonotone DEF Provenance, PendingGenuine
<1>3. UNCHANGED link => LinksGenuine'
  BY CarriesMonotone DEF Provenance, LinksGenuine
<1>4. UNCHANGED chunk_states => StatesGenuine'
  BY DEF Provenance, StatesGenuine, VouchedBy
<1>5. UNCHANGED delivered => Integrity'
  BY DEF Provenance, Integrity
<1> QED BY <1>1, <1>2, <1>3, <1>4, <1>5

\* Copied contents are contents.
LEMMA CopiedType ==
    ASSUME TypeOK PROVE CopiedContents \in SUBSET Contents
BY DEF TypeOK, CopiedContents, RangeOf

LEMMA CopiedUnchanged ==
    ASSUME UNCHANGED copied PROVE CopiedContents' = CopiedContents
BY DEF CopiedContents, RangeOf

\* A copy at peer p adds its content and nothing else.
LEMMA CopyAdds ==
    ASSUME TypeOK, NEW p \in Peers, NEW c \in Contents,
           copied' = [copied EXCEPT ![p] = Append(@, c)]
    PROVE  /\ copied' \in [Peers -> Seq(Contents)]
           /\ CopiedContents' = CopiedContents \cup {c}
<1>1. copied[p] \in Seq(Contents) /\ Append(copied[p], c) \in Seq(Contents)
  BY DEF TypeOK
<1>2. copied' \in [Peers -> Seq(Contents)]
  BY <1>1 DEF TypeOK
<1>3. RangeOf(Append(copied[p], c)) = RangeOf(copied[p]) \cup {c}
  <2>1. /\ DOMAIN Append(copied[p], c) = 1 .. Len(copied[p]) + 1
        /\ DOMAIN copied[p] = 1 .. Len(copied[p])
        /\ Append(copied[p], c)[Len(copied[p]) + 1] = c
        /\ \A i \in 1 .. Len(copied[p]) : Append(copied[p], c)[i] = copied[p][i]
        /\ Len(copied[p]) \in Nat
    BY <1>1
  <2> QED BY <2>1 DEF RangeOf
<1>4. /\ RangeOf(copied'[p]) = RangeOf(copied[p]) \cup {c}
      /\ \A q \in Peers \ {p} : RangeOf(copied'[q]) = RangeOf(copied[q])
  BY <1>3 DEF TypeOK
<1>5. CopiedContents' = UNION {RangeOf(copied'[q]) : q \in Peers}
  BY DEF CopiedContents, RangeOf
<1>6. \A x : x \in CopiedContents' <=> \E q \in Peers : x \in RangeOf(copied'[q])
  BY <1>5
<1>7. \A x : x \in CopiedContents <=> \E q \in Peers : x \in RangeOf(copied[q])
  BY DEF CopiedContents
<1>8. \A x : x \in CopiedContents' <=> x \in CopiedContents \/ x = c
  <2> HIDE DEF CopiedContents
  <2>1. \A x : x \in RangeOf(copied'[p]) <=> x \in RangeOf(copied[p]) \/ x = c
    BY <1>4
  <2>2. \A q \in Peers \ {p} : \A x : x \in RangeOf(copied'[q]) <=> x \in RangeOf(copied[q])
    BY <1>4
  <2> QED BY <1>6, <1>7, <2>1, <2>2
<1>9. CopiedContents' = CopiedContents \cup {c}
  BY <1>8
<1> QED BY <1>2, <1>9

\* A genuine message put on the links of a peer leaves them genuine.
LEMMA SentProperties ==
    ASSUME Provenance, CopiedContents \subseteq CopiedContents',
           NEW p \in Peers, NEW m \in NetworkMessage,
           CarriesOneOf(m, CopiedContents'), link' = Sent(p, m)
    PROVE  link' \in [Peers -> [Nodes -> Seq(NetworkMessage)]] /\ LinksGenuine'
<1>1. link \in [Peers -> [Nodes -> Seq(NetworkMessage)]]
  BY DEF Provenance, TypeOK
<1>2. \A q \in Peers, n \in Nodes :
        link'[q][n] = IF q = p /\ n # p THEN Append(link[q][n], m) ELSE link[q][n]
  BY <1>1 DEF Sent
<1>3. \A n \in Nodes : Append(link[p][n], m) \in Seq(NetworkMessage)
  BY <1>1
<1>4. link' \in [Peers -> [Nodes -> Seq(NetworkMessage)]]
  BY <1>1, <1>3 DEF Sent
<1>5. ASSUME NEW q \in Peers, NEW n \in Nodes, NEW i \in DOMAIN link'[q][n]
      PROVE  CarriesOneOf(link'[q][n][i], CopiedContents')
  <2>1. link[q][n] \in Seq(NetworkMessage)
    BY <1>1
  <2>2. \A k \in DOMAIN link[q][n] : CarriesOneOf(link[q][n][k], CopiedContents')
    BY CarriesMonotone DEF Provenance, LinksGenuine
  <2>3. link'[q][n] = link[q][n] \/ link'[q][n] = Append(link[q][n], m)
    BY <1>2
  <2>4. CASE link'[q][n] = link[q][n]
    BY <2>2, <2>4
  <2>5. CASE link'[q][n] = Append(link[q][n], m)
    <3>1. link'[q][n][i] = m \/ (i \in DOMAIN link[q][n] /\ link'[q][n][i] = link[q][n][i])
      BY <2>1, <2>5
    <3> QED BY <2>2, <3>1
  <2> QED BY <2>3, <2>4, <2>5
<1>6. LinksGenuine'
  BY <1>5 DEF LinksGenuine
<1> QED BY <1>4, <1>6

\* So does publish.
LEMMA PublishProperties ==
    ASSUME Provenance, UNCHANGED copied,
           NEW n \in Nodes, NEW m \in NetworkMessage,
           CarriesOneOf(m, CopiedContents), publish(n, m)
    PROVE  /\ link' \in [Peers -> [Nodes -> Seq(NetworkMessage)]]
           /\ seen' \in [Nodes -> SUBSET NetworkMessage]
           /\ LinksGenuine'
<1>1. CopiedContents' = CopiedContents
  BY CopiedUnchanged
<1>2. n \in Peers
  BY DEF Peers
<1>3. CASE link' = Sent(n, m) /\ seen' = [seen EXCEPT ![n] = @ \cup {m}]
  <2>1. seen' \in [Nodes -> SUBSET NetworkMessage]
    BY <1>3 DEF Provenance, TypeOK
  <2> QED BY <1>1, <1>2, <1>3, <2>1, SentProperties
<1>4. CASE UNCHANGED <<seen, link>>
  BY <1>1, <1>4, Frame DEF Provenance, TypeOK
<1> QED BY <1>3, <1>4 DEF publish

\* The cleanup at the top of the loop leaves genuine states.
LEMMA CleanupStep ==
    ASSUME Provenance, UNCHANGED copied, NEW n \in Nodes, Cleanup(n)
    PROVE  /\ chunk_states' \in [Nodes -> [TransferIds -> ChunkReceiveState \cup {NoTransfer}]]
           /\ StatesGenuine'
<1>1. CopiedContents' = CopiedContents
  BY CopiedUnchanged
<1>2. chunk_states \in [Nodes -> [TransferIds -> ChunkReceiveState \cup {NoTransfer}]]
  BY DEF Provenance, TypeOK
<1>3. chunk_states' = [chunk_states EXCEPT ![n] = cleanup_stale_chunk_states(chunk_states[n])]
  BY DEF Cleanup
<1>4. /\ cleanup_stale_chunk_states(chunk_states[n])
            \in [TransferIds -> ChunkReceiveState \cup {NoTransfer}]
      /\ \A t \in TransferIds :
            \/ cleanup_stale_chunk_states(chunk_states[n])[t] = NoTransfer
            \/ cleanup_stale_chunk_states(chunk_states[n])[t] = chunk_states[n][t]
  BY <1>2, CleanupProperties
<1>5. chunk_states' \in [Nodes -> [TransferIds -> ChunkReceiveState \cup {NoTransfer}]]
  BY <1>2, <1>3, <1>4
<1>6. \A k \in Nodes, t \in TransferIds :
        chunk_states'[k][t] = NoTransfer \/ chunk_states'[k][t] = chunk_states[k][t]
  BY <1>2, <1>3, <1>4
<1>7. StatesGenuine'
  BY <1>1, <1>6 DEF Provenance, StatesGenuine, VouchedBy
<1> QED BY <1>5, <1>7

-------------------------------------------------------------------------------
(* Provenance is inductive.                                                  *)

LEMMA ProvenanceInit == Init => Provenance
<1> SUFFICES ASSUME Init PROVE Provenance
  OBVIOUS
<1>1. TypeOK
  BY SizeAssumption DEF Init, TypeOK
<1>2. RxGenuine /\ PendingGenuine /\ LinksGenuine /\ StatesGenuine /\ Integrity
  BY DEF Init, RxGenuine, PendingGenuine, LinksGenuine, StatesGenuine, VouchedBy, Integrity
<1> QED BY <1>1, <1>2 DEF Provenance

LEMMA LocalCopyStep ==
    ASSUME Provenance, NEW n \in Nodes, NEW c \in Contents, LocalCopy(n, c)
    PROVE  Provenance'
<1> USE DEF LocalCopy
<1>1. n \in Peers
  BY DEF Peers
<1>2. copied' \in [Peers -> Seq(Contents)] /\ CopiedContents' = CopiedContents \cup {c}
  BY <1>1, CopyAdds DEF Provenance
<1>3. rx[n] \in Seq(Contents) /\ rx \in [Nodes -> Seq(Contents)]
  BY DEF Provenance, TypeOK
<1>4. rx' \in [Nodes -> Seq(Contents)]
  BY <1>3
<1>5. TypeOK'
  BY <1>2, <1>4 DEF Provenance, TypeOK
<1>6. ASSUME NEW k \in Nodes, NEW i \in DOMAIN rx'[k] PROVE rx'[k][i] \in CopiedContents'
  <2>1. CASE k # n
    BY <1>2, <1>3, <2>1 DEF Provenance, RxGenuine
  <2>2. CASE k = n
    <3>1. rx'[n] = Append(rx[n], c)
      BY <1>3
    <3>2. rx'[n][i] = c \/ (i \in DOMAIN rx[n] /\ rx'[n][i] = rx[n][i])
      BY <1>3, <2>2, <3>1
    <3> QED BY <1>2, <2>2, <3>2 DEF Provenance, RxGenuine
  <2> QED BY <2>1, <2>2
<1>7. RxGenuine'
  BY <1>6 DEF RxGenuine
<1> QED BY <1>2, <1>5, <1>7, Frame DEF Provenance

LEMMA LegacyCopyStep ==
    ASSUME Provenance, NEW p \in LegacyNodes, NEW c \in Contents, LegacyCopy(p, c)
    PROVE  Provenance'
<1> USE DEF LegacyCopy
<1>1. p \in Peers
  BY DEF Peers
<1>2. copied' \in [Peers -> Seq(Contents)] /\ CopiedContents' = CopiedContents \cup {c}
  BY <1>1, CopyAdds DEF Provenance
<1>3. Legacy(c) \in NetworkMessage /\ CarriesOneOf(Legacy(c), CopiedContents')
  BY <1>2 DEF Legacy, NetworkMessage, CarriesOneOf
<1>4. link' \in [Peers -> [Nodes -> Seq(NetworkMessage)]] /\ LinksGenuine'
  BY <1>1, <1>2, <1>3, SentProperties
<1>5. TypeOK'
  BY <1>2, <1>4 DEF Provenance, TypeOK
<1> QED BY <1>2, <1>4, <1>5, Frame DEF Provenance

LEMMA PublishPendingStep ==
    ASSUME Provenance, NEW n \in Nodes, PublishPending(n)
    PROVE  Provenance'
<1> USE DEF PublishPending
<1> DEFINE queue == pending_chunks[n]
<1>1. pending_chunks \in [Nodes -> Seq(NetworkMessage)] /\ queue # <<>>
  BY DEF Provenance, TypeOK
<1>2. Head(queue) \in NetworkMessage /\ CarriesOneOf(Head(queue), CopiedContents)
  BY <1>1 DEF Provenance, PendingGenuine
<1>3. /\ link' \in [Peers -> [Nodes -> Seq(NetworkMessage)]]
      /\ seen' \in [Nodes -> SUBSET NetworkMessage]
      /\ LinksGenuine'
  BY <1>2, PublishProperties
<1>4. /\ chunk_states' \in [Nodes -> [TransferIds -> ChunkReceiveState \cup {NoTransfer}]]
      /\ StatesGenuine'
  BY CleanupStep
<1>5. CopiedContents' = CopiedContents
  BY CopiedUnchanged
<1>6. pending_chunks' \in [Nodes -> Seq(NetworkMessage)]
  BY <1>1
<1>7. TypeOK'
  BY <1>3, <1>4, <1>6 DEF Provenance, TypeOK
<1>8. ASSUME NEW k \in Nodes, NEW i \in DOMAIN pending_chunks'[k]
      PROVE  CarriesOneOf(pending_chunks'[k][i], CopiedContents)
  <2>1. CASE k # n
    BY <1>1, <2>1 DEF Provenance, PendingGenuine
  <2>2. CASE k = n
    <3>1. pending_chunks'[n] = Tail(queue) /\ queue \in Seq(NetworkMessage)
      BY <1>1
    <3>2. i + 1 \in DOMAIN queue /\ pending_chunks'[n][i] = queue[i + 1]
      BY <1>1, <2>2, <3>1, TailElement
    <3> QED BY <2>2, <3>2 DEF Provenance, PendingGenuine
  <2> QED BY <2>1, <2>2
<1>9. PendingGenuine'
  BY <1>5, <1>8 DEF PendingGenuine
<1> QED BY <1>3, <1>4, <1>5, <1>7, <1>9, Frame DEF Provenance

\* Taking a content from the channel keeps what is left in it genuine.
LEMMA TakeProperties ==
    ASSUME Provenance, UNCHANGED copied, NEW n \in Nodes, rx[n] # <<>>,
           rx' = [rx EXCEPT ![n] = Tail(@)]
    PROVE  /\ rx' \in [Nodes -> Seq(Contents)]
           /\ RxGenuine'
           /\ Head(rx[n]) \in CopiedContents
           /\ Head(rx[n]) \in Contents
<1>1. rx \in [Nodes -> Seq(Contents)]
  BY DEF Provenance, TypeOK
<1>2. CopiedContents' = CopiedContents
  BY CopiedUnchanged
<1>3. rx' \in [Nodes -> Seq(Contents)]
  BY <1>1
<1>4. Head(rx[n]) \in CopiedContents /\ Head(rx[n]) \in Contents
  BY <1>1 DEF Provenance, RxGenuine
<1>5. ASSUME NEW k \in Nodes, NEW i \in DOMAIN rx'[k] PROVE rx'[k][i] \in CopiedContents
  <2>1. CASE k # n
    BY <1>1, <2>1 DEF Provenance, RxGenuine
  <2>2. CASE k = n
    <3>1. rx'[n] = Tail(rx[n]) /\ rx[n] \in Seq(Contents)
      BY <1>1
    <3>2. i + 1 \in DOMAIN rx[n] /\ rx'[n][i] = rx[n][i + 1]
      BY <2>2, <3>1, TailElement
    <3> QED BY <2>2, <3>2 DEF Provenance, RxGenuine
  <2> QED BY <2>1, <2>2
<1>6. RxGenuine'
  BY <1>2, <1>5 DEF RxGenuine
<1> QED BY <1>3, <1>4, <1>6

LEMMA TakeDirectStep ==
    ASSUME Provenance, NEW n \in Nodes, TakeDirect(n)
    PROVE  Provenance'
<1> USE DEF TakeDirect
<1> DEFINE c == Head(rx[n])
<1>1. rx' \in [Nodes -> Seq(Contents)] /\ RxGenuine' /\ c \in CopiedContents /\ c \in Contents
  BY TakeProperties
<1>2. Direct(c) \in NetworkMessage /\ CarriesOneOf(Direct(c), CopiedContents)
  BY <1>1 DEF Direct, NetworkMessage, CarriesOneOf
<1>3. /\ link' \in [Peers -> [Nodes -> Seq(NetworkMessage)]]
      /\ seen' \in [Nodes -> SUBSET NetworkMessage]
      /\ LinksGenuine'
  BY <1>2, PublishProperties
<1>4. /\ chunk_states' \in [Nodes -> [TransferIds -> ChunkReceiveState \cup {NoTransfer}]]
      /\ StatesGenuine'
  BY CleanupStep
<1>5. CopiedContents' = CopiedContents
  BY CopiedUnchanged
<1>6. TypeOK'
  BY <1>1, <1>3, <1>4 DEF Provenance, TypeOK
<1> QED BY <1>1, <1>3, <1>4, <1>5, <1>6, Frame DEF Provenance

LEMMA TakeChunkedStep ==
    ASSUME Provenance, NEW n \in Nodes, TakeChunked(n)
    PROVE  Provenance'
<1> USE DEF TakeChunked
<1> DEFINE c == Head(rx[n])
           msgs == ChunkMessages(c, uuids + 1)
<1>1. rx' \in [Nodes -> Seq(Contents)] /\ RxGenuine' /\ c \in CopiedContents /\ c \in Contents
  BY TakeProperties
<1>2. uuids + 1 \in TransferIds /\ uuids' \in 0 .. MaxTransfers
  BY SizeAssumption DEF Provenance, TypeOK, TransferIds
<1>3. /\ msgs \in Seq(NetworkMessage) /\ msgs # <<>>
      /\ \A i \in DOMAIN msgs : CarriesOneOf(msgs[i], CopiedContents)
  BY <1>1, <1>2, CopiedType, ChunkMessagesType DEF Provenance
<1>4. pending_chunks' = [pending_chunks EXCEPT ![n] = @ \o Tail(msgs)] /\ publish(n, Head(msgs))
  OBVIOUS
<1> HIDE DEF msgs
<1>5. Head(msgs) \in NetworkMessage /\ CarriesOneOf(Head(msgs), CopiedContents)
  BY <1>3
<1>6. /\ link' \in [Peers -> [Nodes -> Seq(NetworkMessage)]]
      /\ seen' \in [Nodes -> SUBSET NetworkMessage]
      /\ LinksGenuine'
  BY <1>4, <1>5, PublishProperties
<1>7. /\ chunk_states' \in [Nodes -> [TransferIds -> ChunkReceiveState \cup {NoTransfer}]]
      /\ StatesGenuine'
  BY CleanupStep
<1>8. CopiedContents' = CopiedContents
  BY CopiedUnchanged
<1>9. /\ pending_chunks \in [Nodes -> Seq(NetworkMessage)]
      /\ pending_chunks[n] = <<>>
  BY DEF Provenance, TypeOK, Waiting
<1>10. Tail(msgs) \in Seq(NetworkMessage) /\ pending_chunks'[n] = Tail(msgs)
  <2>1. Tail(msgs) \in Seq(NetworkMessage)
    BY <1>3
  <2>2. pending_chunks'[n] = <<>> \o Tail(msgs)
    BY <1>4, <1>9
  <2> QED BY <2>1, <2>2, ConcatEmptySeq
<1>11. pending_chunks' \in [Nodes -> Seq(NetworkMessage)]
  BY <1>4, <1>9, <1>10
<1>12. TypeOK'
  BY <1>1, <1>2, <1>6, <1>7, <1>11 DEF Provenance, TypeOK
<1>13. ASSUME NEW k \in Nodes, NEW i \in DOMAIN pending_chunks'[k]
       PROVE  CarriesOneOf(pending_chunks'[k][i], CopiedContents)
  <2>1. CASE k # n
    BY <1>4, <1>9, <2>1 DEF Provenance, PendingGenuine
  <2>2. CASE k = n
    <3>1. i + 1 \in DOMAIN msgs /\ pending_chunks'[n][i] = msgs[i + 1]
      BY <1>3, <1>10, <2>2, TailElement
    <3> QED BY <1>3, <2>2, <3>1
  <2> QED BY <2>1, <2>2
<1>14. PendingGenuine'
  BY <1>8, <1>13 DEF PendingGenuine
<1> QED BY <1>1, <1>6, <1>7, <1>8, <1>12, <1>14, Frame DEF Provenance

\* The links after a message has arrived, or is lost, are genuine.
LEMMA ArrivedProperties ==
    ASSUME Provenance, UNCHANGED copied, NEW p \in Peers, NEW n \in Nodes,
           link[p][n] # <<>>, link' = Arrived(p, n)
    PROVE  link' \in [Peers -> [Nodes -> Seq(NetworkMessage)]] /\ LinksGenuine'
<1>1. link \in [Peers -> [Nodes -> Seq(NetworkMessage)]]
  BY DEF Provenance, TypeOK
<1>2. CopiedContents' = CopiedContents
  BY CopiedUnchanged
<1>3. CASE link' = link
  BY <1>1, <1>2, <1>3, Frame
<1>4. CASE link' = [link EXCEPT ![p][n] = Tail(@)]
  <2>1. link[p][n] \in Seq(NetworkMessage) /\ Tail(link[p][n]) \in Seq(NetworkMessage)
    BY <1>1
  <2>2. link' \in [Peers -> [Nodes -> Seq(NetworkMessage)]]
    BY <1>1, <1>4, <2>1
  <2>3. ASSUME NEW q \in Peers, NEW k \in Nodes, NEW i \in DOMAIN link'[q][k]
        PROVE  CarriesOneOf(link'[q][k][i], CopiedContents)
    <3>1. CASE q = p /\ k = n
      <4>1. link'[p][n] = Tail(link[p][n])
        BY <1>1, <1>4
      <4>2. i + 1 \in DOMAIN link[p][n] /\ link'[p][n][i] = link[p][n][i + 1]
        BY <2>1, <3>1, <4>1, TailElement
      <4> QED BY <3>1, <4>2 DEF Provenance, LinksGenuine
    <3>2. CASE ~(q = p /\ k = n)
      <4>1. link'[q][k] = link[q][k]
        BY <1>1, <1>4, <3>2
      <4> QED BY <4>1 DEF Provenance, LinksGenuine
    <3> QED BY <3>1, <3>2
  <2>4. LinksGenuine'
    BY <1>2, <2>3 DEF LinksGenuine
  <2> QED BY <2>2, <2>4
<1> QED BY <1>3, <1>4 DEF Arrived

LEMMA ReceiveGossipStep ==
    ASSUME Provenance, NEW p \in Peers, NEW n \in Nodes, ReceiveGossip(p, n)
    PROVE  Provenance'
<1> DEFINE States == [TransferIds -> ChunkReceiveState \cup {NoTransfer}]
           Entry == [from : Peers, content : Contents \cup {Garbage}]
<1>1. /\ chunk_states \in [Nodes -> States]
      /\ link[p][n] \in Seq(NetworkMessage)
      /\ seen \in [Nodes -> SUBSET NetworkMessage]
      /\ delivered \in [Nodes -> Seq(Entry)]
  BY DEF Provenance, TypeOK
<1>2. PICK i \in Arrivable(p, n) :
        LET m   == link[p][n][i]
            out == ContentOf(chunk_states[n], m)
        IN  /\ seen' = [seen EXCEPT ![n] = @ \cup {m}]
            /\ chunk_states' = [chunk_states EXCEPT ![n] =
                                    cleanup_stale_chunk_states(StatesAfter(@, m))]
            /\ delivered' =
                 [delivered EXCEPT ![n] =
                    IF out = <<>> THEN @ ELSE Append(@, [from |-> p, content |-> out[1]])]
            /\ link' = Arrived(p, n)
            /\ UNCHANGED <<copied, rx, pending_chunks, uuids>>
  BY DEF ReceiveGossip
<1> DEFINE m == link[p][n][i]
           out == ContentOf(chunk_states[n], m)
           states == StatesAfter(chunk_states[n], m)
           kept == cleanup_stale_chunk_states(states)
           entry == [from |-> p, content |-> out[1]]
<1>3. i \in DOMAIN link[p][n] /\ link[p][n] # <<>>
  BY <1>1 DEF Arrivable
<1>4. m \in NetworkMessage /\ CarriesOneOf(m, CopiedContents)
  BY <1>1, <1>3 DEF Provenance, LinksGenuine
<1>5. CopiedContents' = CopiedContents /\ CopiedContents \in SUBSET Contents
  BY <1>2, CopiedUnchanged, CopiedType DEF Provenance
<1>6. link' \in [Peers -> [Nodes -> Seq(NetworkMessage)]] /\ LinksGenuine'
  BY <1>2, <1>3, ArrivedProperties
<1>7. \A t \in TransferIds : VouchedBy(chunk_states[n][t], CopiedContents)
  BY DEF Provenance, StatesGenuine
<1>8. states \in States /\ \A t \in TransferIds : VouchedBy(states[t], CopiedContents)
  BY <1>1, <1>4, <1>5, <1>7, StatesAfterProperties
<1>9. /\ out # <<>> => out[1] \in CopiedContents
      /\ out # <<>> => out[1] \in Contents
  BY <1>1, <1>4, <1>5, <1>7, ContentOfProperties
<1>10. /\ seen' = [seen EXCEPT ![n] = @ \cup {m}]
       /\ chunk_states' = [chunk_states EXCEPT ![n] = kept]
       /\ delivered' = [delivered EXCEPT ![n] = IF out = <<>> THEN @ ELSE Append(@, entry)]
  BY <1>2
<1> HIDE DEF m, out, states
<1>11. kept \in States /\ \A t \in TransferIds : kept[t] = NoTransfer \/ kept[t] = states[t]
  BY <1>8, CleanupProperties
<1> HIDE DEF kept
<1>12. \A t \in TransferIds : VouchedBy(kept[t], CopiedContents)
  BY <1>8, <1>11 DEF VouchedBy
<1>13. chunk_states' \in [Nodes -> States] /\ seen' \in [Nodes -> SUBSET NetworkMessage]
  BY <1>1, <1>4, <1>10, <1>11
<1>14. StatesGenuine'
  BY <1>1, <1>5, <1>10, <1>12 DEF Provenance, StatesGenuine
<1>15. out # <<>> => entry \in Entry
  BY <1>9
<1>16. delivered' \in [Nodes -> Seq(Entry)]
  <2> HIDE DEF entry, Entry
  <2>1. out # <<>> => Append(delivered[n], entry) \in Seq(Entry)
    BY <1>1, <1>15
  <2> QED BY <1>1, <1>10, <2>1
<1>17. ASSUME NEW k \in Nodes, NEW j \in DOMAIN delivered'[k]
       PROVE  delivered'[k][j].content \in CopiedContents
  <2>1. CASE k # n \/ out = <<>>
    <3>1. delivered'[k] = delivered[k]
      BY <1>1, <1>10, <2>1
    <3> QED BY <3>1 DEF Provenance, Integrity
  <2>2. CASE k = n /\ out # <<>>
    <3>1. delivered'[n] = Append(delivered[n], entry)
      BY <1>1, <1>10, <2>2
    <3>2. entry.content = out[1]
      OBVIOUS
    <3> HIDE DEF entry
    <3>3. delivered'[n][j] = entry \/ (j \in DOMAIN delivered[n] /\ delivered'[n][j] = delivered[n][j])
      BY <1>1, <2>2, <3>1
    <3> QED BY <1>9, <2>2, <3>2, <3>3 DEF Provenance, Integrity
  <2> QED BY <2>1, <2>2
<1>18. Integrity'
  BY <1>5, <1>17 DEF Integrity
<1>19. TypeOK'
  BY <1>2, <1>6, <1>13, <1>16 DEF Provenance, TypeOK
<1> QED BY <1>2, <1>5, <1>6, <1>14, <1>18, <1>19, Frame DEF Provenance

\* A message that is dropped as a duplicate or lost on the way.
LEMMA DropStep ==
    ASSUME Provenance, NEW p \in Peers, NEW n \in Nodes,
           DropDuplicate(p, n) \/ Lose(p, n)
    PROVE  Provenance'
<1>1. /\ link[p][n] # <<>> /\ link' = Arrived(p, n)
      /\ UNCHANGED <<copied, rx, pending_chunks, chunk_states, uuids, seen, delivered>>
  BY DEF DropDuplicate, Lose
<1>2. link' \in [Peers -> [Nodes -> Seq(NetworkMessage)]] /\ LinksGenuine'
  BY <1>1, ArrivedProperties
<1>3. TypeOK'
  BY <1>1, <1>2 DEF Provenance, TypeOK
<1> QED BY <1>1, <1>2, <1>3, CopiedUnchanged, Frame DEF Provenance

LEMMA OtherEventStep ==
    ASSUME Provenance, NEW n \in Nodes, OtherEvent(n)
    PROVE  Provenance'
<1> USE DEF OtherEvent
<1>1. /\ chunk_states' \in [Nodes -> [TransferIds -> ChunkReceiveState \cup {NoTransfer}]]
      /\ StatesGenuine'
  BY CleanupStep
<1>2. TypeOK'
  BY <1>1 DEF Provenance, TypeOK
<1> QED BY <1>1, <1>2, CopiedUnchanged, Frame DEF Provenance

LEMMA TimeOutStep ==
    ASSUME Provenance, NEW n \in Nodes, NEW t \in TransferIds, TimeOut(n, t)
    PROVE  Provenance'
<1> USE DEF TimeOut
<1> DEFINE States == [TransferIds -> ChunkReceiveState \cup {NoTransfer}]
           late == [chunk_states[n][t] EXCEPT !.expired = TRUE]
<1>1. chunk_states \in [Nodes -> States] /\ chunk_states[n][t] \in ChunkReceiveState
  BY DEF Provenance, TypeOK
<1>2. late \in ChunkReceiveState /\ late.data_hash = chunk_states[n][t].data_hash
  BY <1>1 DEF ChunkReceiveState
<1>3. chunk_states' = [chunk_states EXCEPT ![n] = [chunk_states[n] EXCEPT ![t] = late]]
  BY <1>1
<1> HIDE DEF late
<1>4. [chunk_states[n] EXCEPT ![t] = late] \in States
  BY <1>1, <1>2
<1>5. CopiedContents' = CopiedContents
  BY CopiedUnchanged
<1>6. /\ chunk_states' \in [Nodes -> States]
      /\ chunk_states'[n][t] = late
      /\ \A k \in Nodes, u \in TransferIds :
            k # n \/ u # t => chunk_states'[k][u] = chunk_states[k][u]
  <2> DEFINE new == [chunk_states[n] EXCEPT ![t] = late]
  <2>1. new[t] = late /\ \A u \in TransferIds : u # t => new[u] = chunk_states[n][u]
    BY <1>1
  <2> HIDE DEF new, States
  <2>2. /\ chunk_states' \in [Nodes -> States]
        /\ chunk_states'[n] = new
        /\ \A k \in Nodes : k # n => chunk_states'[k] = chunk_states[k]
    BY <1>1, <1>3, <1>4 DEF new
  <2> QED BY <2>1, <2>2
<1>7. StatesGenuine'
  BY <1>2, <1>5, <1>6 DEF Provenance, StatesGenuine, VouchedBy
<1>8. TypeOK'
  BY <1>6 DEF Provenance, TypeOK
<1> QED BY <1>5, <1>7, <1>8, Frame DEF Provenance

LEMMA RestartStep ==
    ASSUME Provenance, NEW n \in Nodes, Restart(n)
    PROVE  Provenance'
<1> USE DEF Restart
<1>1. CopiedContents' = CopiedContents
  BY CopiedUnchanged
<1>2. TypeOK'
  <2>1. rx' \in [Nodes -> Seq(Contents)] /\ pending_chunks' \in [Nodes -> Seq(NetworkMessage)]
    BY DEF Provenance, TypeOK
  <2>2. chunk_states' \in [Nodes -> [TransferIds -> ChunkReceiveState \cup {NoTransfer}]]
    BY DEF Provenance, TypeOK
  <2>3. link' \in [Peers -> [Nodes -> Seq(NetworkMessage)]]
    BY DEF Provenance, TypeOK
  <2>4. seen' \in [Nodes -> SUBSET NetworkMessage]
    BY DEF Provenance, TypeOK
  <2> QED BY <2>1, <2>2, <2>3, <2>4 DEF Provenance, TypeOK
<1>3. RxGenuine' /\ PendingGenuine'
  BY <1>1 DEF Provenance, TypeOK, RxGenuine, PendingGenuine
<1>4. StatesGenuine'
  BY <1>1 DEF Provenance, TypeOK, StatesGenuine, VouchedBy
<1>5. \A p \in Peers, k \in Nodes : link'[p][k] = link[p][k] \/ link'[p][k] = <<>>
  BY DEF Provenance, TypeOK
<1>6. LinksGenuine'
  BY <1>1, <1>5 DEF Provenance, LinksGenuine
<1> QED BY <1>1, <1>2, <1>3, <1>4, <1>6, Frame DEF Provenance

\* Every step of the specification preserves Provenance.
LEMMA ProvenanceNext == Provenance /\ [Next]_vars => Provenance'
<1> SUFFICES ASSUME Provenance, [Next]_vars PROVE Provenance'
  OBVIOUS
<1>1. CASE UNCHANGED vars
  <2>1. TypeOK'
    BY <1>1 DEF vars, Provenance, TypeOK
  <2> QED BY <1>1, <2>1, CopiedUnchanged, Frame DEF vars, Provenance
<1>2. ASSUME NEW n \in Nodes, NEW c \in Contents, LocalCopy(n, c) PROVE Provenance'
  BY <1>2, LocalCopyStep
<1>3. ASSUME NEW n \in Nodes,
             PublishPending(n) \/ TakeDirect(n) \/ TakeChunked(n) \/ OtherEvent(n) \/ Restart(n)
      PROVE  Provenance'
  BY <1>3, PublishPendingStep, TakeDirectStep, TakeChunkedStep, OtherEventStep, RestartStep
<1>4. ASSUME NEW n \in Nodes, NEW t \in TransferIds, TimeOut(n, t) PROVE Provenance'
  BY <1>4, TimeOutStep
<1>5. ASSUME NEW p \in LegacyNodes, NEW c \in Contents, LegacyCopy(p, c) PROVE Provenance'
  BY <1>5, LegacyCopyStep
<1>6. ASSUME NEW p \in Peers, NEW n \in Nodes,
             ReceiveGossip(p, n) \/ DropDuplicate(p, n) \/ Lose(p, n)
      PROVE  Provenance'
  BY <1>6, ReceiveGossipStep, DropStep
<1> QED BY <1>1, <1>2, <1>3, <1>4, <1>5, <1>6 DEF Next

-------------------------------------------------------------------------------
(* The theorems.                                                             *)

\* Everything queued, under way or being received goes back to a copied content.
THEOREM ProvenanceInvariant == Spec => []Provenance
BY ProvenanceInit, ProvenanceNext, PTL DEF Spec

\* The variables keep their types.
THEOREM TypeCorrect == Spec => []TypeOK
<1>1. Provenance => TypeOK
  BY DEF Provenance
<1> QED BY <1>1, ProvenanceInvariant, PTL

\* What `run` hands to the clipboard was copied by some peer, whatever is lost,
\* repeated, reordered, timed out or restarted.
THEOREM IntegrityHolds == Spec => []Integrity
<1>1. Provenance => Integrity
  BY DEF Provenance
<1> QED BY <1>1, ProvenanceInvariant, PTL

\* The network layer implements the lossy broadcast of whole contents.
THEOREM Refinement == Spec => ImplementsChannel
<1>1. Init => Channel!Init
  <2> SUFFICES ASSUME Init PROVE Channel!Init
    OBVIOUS
  <2>1. CopiedContents = {}
    BY DEF Init, CopiedContents, RangeOf
  <2>2. [n \in Nodes |-> Given(n)] = [n \in Nodes |-> {}]
    BY DEF Init, Given
  <2> QED BY <2>1, <2>2 DEF Channel!Init
<1>2. Provenance /\ Provenance' /\ [Next]_vars => [Channel!Next]_(Channel!vars)
  <2> SUFFICES ASSUME Provenance, Provenance', [Next]_vars
               PROVE  [Channel!Next]_(Channel!vars)
    OBVIOUS
  <2> DEFINE given == [n \in Nodes |-> Given(n)]
  <2>1. CASE UNCHANGED <<copied, delivered>>
    <3>1. CopiedContents' = CopiedContents
      BY <2>1, CopiedUnchanged
    <3>2. given' = given
      BY <2>1 DEF Given
    <3> QED BY <3>1, <3>2 DEF Channel!vars
  <2>2. ASSUME NEW p \in Peers, NEW c \in Contents,
               copied' = [copied EXCEPT ![p] = Append(@, c)], UNCHANGED delivered
        PROVE  [Channel!Next]_(Channel!vars)
    <3>1. CopiedContents' = CopiedContents \cup {c}
      BY <2>2, CopyAdds DEF Provenance
    <3>2. given' = given
      BY <2>2 DEF Given
    <3>3. Channel!Submit(c)
      BY <3>1, <3>2 DEF Channel!Submit
    <3> QED BY <3>3 DEF Channel!Next
  <2>3. ASSUME NEW p \in Peers, NEW n \in Nodes, ReceiveGossip(p, n)
        PROVE  [Channel!Next]_(Channel!vars)
    <3>1. PICK e : \/ UNCHANGED delivered
                   \/ delivered' = [delivered EXCEPT ![n] = Append(@, e)]
      <4>1. PICK i \in Arrivable(p, n) :
              LET out == ContentOf(chunk_states[n], link[p][n][i])
              IN  delivered' = [delivered EXCEPT ![n] =
                    IF out = <<>> THEN @ ELSE Append(@, [from |-> p, content |-> out[1]])]
        BY <2>3 DEF ReceiveGossip
      <4> DEFINE out == ContentOf(chunk_states[n], link[p][n][i])
                 entry == [from |-> p, content |-> out[1]]
      <4>2. CASE out = <<>>
        <5>1. delivered' = delivered
          BY <4>1, <4>2 DEF Provenance, TypeOK
        <5> QED BY <5>1
      <4>3. CASE out # <<>>
        <5>1. delivered' = [delivered EXCEPT ![n] = Append(@, entry)]
          BY <4>1, <4>3
        <5> HIDE DEF entry
        <5> QED BY <5>1
      <4> QED BY <4>2, <4>3
    <3>2. CASE UNCHANGED delivered
      BY <2>1, <2>3, <3>2 DEF ReceiveGossip
    <3>3. CASE delivered' = [delivered EXCEPT ![n] = Append(@, e)]
      <4> DEFINE c == e.content
      <4>1. CopiedContents' = CopiedContents /\ CopiedContents \in SUBSET Contents
        BY <2>3, CopiedUnchanged, CopiedType DEF ReceiveGossip, Provenance
      <4>2. delivered \in [Nodes -> Seq([from : Peers, content : Contents \cup {Garbage}])]
        BY DEF Provenance, TypeOK
      <4>3. /\ delivered'[n] = Append(delivered[n], e)
            /\ \A k \in Nodes : k # n => delivered'[k] = delivered[k]
        BY <3>3, <4>2
      <4>4. /\ DOMAIN delivered'[n] = 1 .. Len(delivered[n]) + 1
            /\ DOMAIN delivered[n] = 1 .. Len(delivered[n])
            /\ Len(delivered[n]) \in Nat
            /\ delivered'[n][Len(delivered[n]) + 1] = e
            /\ \A i \in 1 .. Len(delivered[n]) : delivered'[n][i] = delivered[n][i]
        BY <4>2, <4>3
      <4>5. c \in CopiedContents
        BY <4>1, <4>4 DEF Provenance, Integrity
      <4>6. Given(n)' = Given(n) \cup {c}
        <5>1. Given(n) = {delivered[n][i].content : i \in 1 .. Len(delivered[n])}
          BY <4>4 DEF Given
        <5>2. Given(n)' = {delivered'[n][i].content : i \in 1 .. Len(delivered[n]) + 1}
          BY <4>4 DEF Given
        <5> HIDE DEF Given
        <5>3. \A x \in Given(n)' : x \in Given(n) \/ x = c
          BY <4>4, <5>1, <5>2
        <5>4. Given(n) \subseteq Given(n)'
          BY <4>4, <5>1, <5>2
        <5>5. c \in Given(n)'
          BY <4>4, <5>2
        <5> QED BY <5>3, <5>4, <5>5
      <4>7. \A k \in Nodes : k # n => Given(k)' = Given(k)
        BY <4>3 DEF Given
      <4>8. given' = [given EXCEPT ![n] = @ \cup {c}]
        BY <4>6, <4>7
      <4>9. Channel!Deliver(n, c)
        BY <4>1, <4>5, <4>8 DEF Channel!Deliver
      <4> QED BY <4>1, <4>5, <4>9 DEF Channel!Next
    <3> QED BY <3>1, <3>2, <3>3
  <2>4. CASE UNCHANGED vars
    BY <2>1, <2>4 DEF vars
  <2>5. ASSUME NEW n \in Nodes, NEW c \in Contents, LocalCopy(n, c)
        PROVE  [Channel!Next]_(Channel!vars)
    BY <2>2, <2>5 DEF LocalCopy, Peers
  <2>6. ASSUME NEW p \in LegacyNodes, NEW c \in Contents, LegacyCopy(p, c)
        PROVE  [Channel!Next]_(Channel!vars)
    BY <2>2, <2>6 DEF LegacyCopy, Peers
  <2>7. ASSUME NEW n \in Nodes,
               \/ PublishPending(n) \/ TakeDirect(n) \/ TakeChunked(n)
               \/ OtherEvent(n) \/ Restart(n)
        PROVE  [Channel!Next]_(Channel!vars)
    BY <2>1, <2>7 DEF PublishPending, TakeDirect, TakeChunked, OtherEvent, Restart
  <2>8. ASSUME NEW n \in Nodes, NEW t \in TransferIds, TimeOut(n, t)
        PROVE  [Channel!Next]_(Channel!vars)
    BY <2>1, <2>8 DEF TimeOut
  <2>9. ASSUME NEW p \in Peers, NEW n \in Nodes, DropDuplicate(p, n) \/ Lose(p, n)
        PROVE  [Channel!Next]_(Channel!vars)
    BY <2>1, <2>9 DEF DropDuplicate, Lose
  <2> QED BY <2>3, <2>4, <2>5, <2>6, <2>7, <2>8, <2>9 DEF Next
<1> QED BY <1>1, <1>2, ProvenanceInvariant, PTL DEF Spec, ImplementsChannel, Channel!Spec

-------------------------------------------------------------------------------
(* Reassembly: what the bytes of all the chunks of a content add up to.      *)

\* Division with remainder by the chunk size.
LEMMA Division ==
    ASSUME NEW x \in Nat
    PROVE  /\ x \div CHUNK_DATA_SIZE \in Nat
           /\ (x \div CHUNK_DATA_SIZE) * CHUNK_DATA_SIZE <= x
           /\ x < (x \div CHUNK_DATA_SIZE) * CHUNK_DATA_SIZE + CHUNK_DATA_SIZE
BY SizeAssumption

LEMMA DivisionUnique ==
    ASSUME NEW x \in Nat, NEW q \in Nat,
           q * CHUNK_DATA_SIZE <= x, x < q * CHUNK_DATA_SIZE + CHUNK_DATA_SIZE
    PROVE  x \div CHUNK_DATA_SIZE = q
<1>1. PICK r \in Nat : /\ r = x \div CHUNK_DATA_SIZE
                       /\ r * CHUNK_DATA_SIZE <= x
                       /\ x < r * CHUNK_DATA_SIZE + CHUNK_DATA_SIZE
  BY Division
<1>2. CASE r < q
  <2>1. (r + 1) * CHUNK_DATA_SIZE <= q * CHUNK_DATA_SIZE
    BY <1>2, SizeAssumption
  <2> QED BY <1>1, <2>1, SizeAssumption
<1>3. CASE r > q
  <2>1. (q + 1) * CHUNK_DATA_SIZE <= r * CHUNK_DATA_SIZE
    BY <1>3, SizeAssumption
  <2> QED BY <1>1, <2>1, SizeAssumption
<1> QED BY <1>1, <1>2, <1>3

\* The number of chunks ChunkStart announces is the number of pieces slice::chunks
\* makes, and the pieces reach the end of the data.
LEMMA AnnouncedIsCut ==
    ASSUME NEW data \in Seq(Byte), Len(data) > 0
    PROVE  /\ TotalChunks(data) = NumPieces(data)
           /\ NumPieces(data) \in Nat \ {0}
           /\ (NumPieces(data) - 1) * CHUNK_DATA_SIZE < Len(data)
           /\ Len(data) <= NumPieces(data) * CHUNK_DATA_SIZE
<1>1. Len(data) \in Nat \ {0} /\ CHUNK_DATA_SIZE \in Nat \ {0}
  BY SizeAssumption
<1>2. PICK q \in Nat : /\ q = (Len(data) - 1) \div CHUNK_DATA_SIZE
                       /\ q * CHUNK_DATA_SIZE <= Len(data) - 1
                       /\ Len(data) - 1 < q * CHUNK_DATA_SIZE + CHUNK_DATA_SIZE
  <2>1. Len(data) - 1 \in Nat
    BY <1>1
  <2> QED BY <2>1, Division
<1>3. (q + 1) * CHUNK_DATA_SIZE = q * CHUNK_DATA_SIZE + CHUNK_DATA_SIZE
  BY <1>1
<1>4. NumPieces(data) = q + 1
  BY <1>2 DEF NumPieces
<1>5. TotalChunks(data) = q + 1
  <2>1. /\ q + 1 \in Nat /\ Len(data) + CHUNK_DATA_SIZE - 1 \in Nat
        /\ (q + 1) * CHUNK_DATA_SIZE <= Len(data) + CHUNK_DATA_SIZE - 1
        /\ Len(data) + CHUNK_DATA_SIZE - 1 < (q + 1) * CHUNK_DATA_SIZE + CHUNK_DATA_SIZE
    BY <1>1, <1>2, <1>3
  <2> QED BY <2>1, DivisionUnique DEF TotalChunks
<1> QED BY <1>1, <1>2, <1>3, <1>4, <1>5

\* Two neighbouring parts of a sequence make one.
LEMMA Joined ==
    ASSUME NEW S, NEW d \in Seq(S), NEW a \in Nat, NEW b \in Nat, a <= b, b <= Len(d)
    PROVE  SubSeq(d, 1, a) \o SubSeq(d, a + 1, b) = SubSeq(d, 1, b)
<1> DEFINE head == SubSeq(d, 1, a)
           next == SubSeq(d, a + 1, b)
           whole == SubSeq(d, 1, b)
<1>1. head \in Seq(S) /\ Len(head) = a /\ \A i \in 1 .. a : head[i] = d[i]
  BY SubSeqProperties
<1>2. next \in Seq(S) /\ Len(next) = b - a /\ \A i \in 1 .. b - a : next[i] = d[a + i]
  BY SubSeqProperties
<1>3. whole \in Seq(S) /\ Len(whole) = b /\ \A i \in 1 .. b : whole[i] = d[i]
  BY SubSeqProperties
<1> HIDE DEF head, next, whole
<1> DEFINE both == head \o next
<1>4. /\ both \in Seq(S)
      /\ Len(both) = b
      /\ \A i \in 1 .. b : both[i] = IF i <= a THEN head[i] ELSE next[i - a]
  BY <1>1, <1>2, ConcatProperties
<1> HIDE DEF both
<1>5. ASSUME NEW i \in 1 .. b PROVE both[i] = whole[i]
  <2>1. CASE i <= a
    BY <1>1, <1>3, <1>4, <2>1
  <2>2. CASE ~(i <= a)
    <3>1. i - a \in 1 .. b - a /\ a + (i - a) = i
      BY <2>2
    <3>2. both[i] = next[i - a] /\ next[i - a] = d[a + (i - a)]
      BY <1>2, <1>4, <2>2, <3>1
    <3> QED BY <1>3, <3>1, <3>2
  <2> QED BY <2>1, <2>2
<1>6. both = whole
  BY <1>3, <1>4, <1>5, SeqEqual
<1> QED BY <1>6 DEF head, next, both, whole

\* The bytes of the first k pieces.
CutAt(data, k) ==
    IF k * CHUNK_DATA_SIZE < Len(data) THEN k * CHUNK_DATA_SIZE ELSE Len(data)
FirstPieces(data, k) == SubSeq(data, 1, CutAt(data, k))

\* One piece after the other, all pieces are the data.
LEMMA PiecesJoin ==
    ASSUME NEW data \in Seq(Byte), Len(data) > 0
    PROVE  /\ FirstPieces(data, 0) = <<>>
           /\ \A k \in 0 .. NumPieces(data) - 1 :
                FirstPieces(data, k) \o Piece(data, k) = FirstPieces(data, k + 1)
           /\ FirstPieces(data, NumPieces(data)) = data
<1>1. Len(data) \in Nat \ {0} /\ CHUNK_DATA_SIZE \in Nat \ {0}
  BY SizeAssumption
<1>2. /\ NumPieces(data) \in Nat \ {0}
      /\ (NumPieces(data) - 1) * CHUNK_DATA_SIZE < Len(data)
      /\ Len(data) <= NumPieces(data) * CHUNK_DATA_SIZE
  BY AnnouncedIsCut
<1>3. FirstPieces(data, 0) = <<>>
  <2>1. CutAt(data, 0) = 0
    BY <1>1 DEF CutAt
  <2> QED BY <2>1 DEF FirstPieces
<1>4. FirstPieces(data, NumPieces(data)) = data
  <2>1. CutAt(data, NumPieces(data)) = Len(data)
    BY <1>1, <1>2 DEF CutAt
  <2>2. /\ SubSeq(data, 1, Len(data)) \in Seq(Byte) /\ Len(SubSeq(data, 1, Len(data))) = Len(data)
        /\ \A i \in 1 .. Len(data) : SubSeq(data, 1, Len(data))[i] = data[i]
    BY SubSeqProperties
  <2> QED BY <2>1, <2>2, SeqEqual DEF FirstPieces
<1>5. ASSUME NEW k \in 0 .. NumPieces(data) - 1
      PROVE  FirstPieces(data, k) \o Piece(data, k) = FirstPieces(data, k + 1)
  <2>1. k \in Nat /\ k <= NumPieces(data) - 1
    BY <1>2
  <2>2. k * CHUNK_DATA_SIZE <= (NumPieces(data) - 1) * CHUNK_DATA_SIZE
    BY <1>1, <1>2, <2>1
  <2>3. /\ k * CHUNK_DATA_SIZE \in Nat /\ (k + 1) * CHUNK_DATA_SIZE \in Nat
        /\ k * CHUNK_DATA_SIZE <= (k + 1) * CHUNK_DATA_SIZE
    BY <1>1, <2>1
  <2>4. k * CHUNK_DATA_SIZE < Len(data)
    BY <1>1, <1>2, <2>2, <2>3
  <2>5. CutAt(data, k) = k * CHUNK_DATA_SIZE
    BY <2>4 DEF CutAt
  <2>6. /\ CutAt(data, k + 1) \in Nat /\ CutAt(data, k + 1) <= Len(data)
        /\ CutAt(data, k) <= CutAt(data, k + 1)
    BY <1>1, <2>3, <2>4, <2>5 DEF CutAt
  <2>7. Piece(data, k) = SubSeq(data, CutAt(data, k) + 1, CutAt(data, k + 1))
    BY <2>5 DEF Piece, CutAt
  <2> QED BY <2>3, <2>5, <2>6, <2>7, Joined DEF FirstPieces
<1> QED BY <1>3, <1>4, <1>5

-------------------------------------------------------------------------------
(* One content per transfer: a transfer id is drawn for one content, and     *)
(* every message and every receiver's state under it is a part of that one.  *)

\* The contents that are split, and the chunks a receiver has of one at the end.
Chunked == {c \in Contents : ~IsDirect(c)}
EntryOf(c, i) == [index |-> i, data |-> Piece(Raw[c], i)]
Entries(c) == {EntryOf(c, i) : i \in 0 .. NumPieces(Raw[c]) - 1}

\* The message m is one of a transfer in own, where own[t] is the content transfer
\* t was drawn for.
Belongs(m, own) ==
    /\ m.type \in {"ChunkStart", "Chunk", "ChunkEnd"} => m.transfer_id \in DOMAIN own
    /\ m.type = "ChunkStart" =>
        /\ m.total_chunks = TotalChunks(Raw[own[m.transfer_id]])
        /\ m.data_hash = sha256_hex(Raw[own[m.transfer_id]])
    /\ m.type = "Chunk" =>
        [index |-> m.index, data |-> m.data] \in Entries(own[m.transfer_id])
MessagesOf(own) == {m \in NetworkMessage : Belongs(m, own)}

\* What a receiver has of content c.
PartOf(st, c) ==
    /\ st.total_chunks = TotalChunks(Raw[c])
    /\ st.data_hash = sha256_hex(Raw[c])
    /\ st.received \subseteq Entries(c)
StatesOf(own) ==
    {states \in [TransferIds -> ChunkReceiveState \cup {NoTransfer}] :
        \A t \in TransferIds :
            states[t] # NoTransfer => t \in DOMAIN own /\ PartOf(states[t], own[t])}

AllBelongs(own) ==
    /\ pending_chunks \in [Nodes -> Seq(MessagesOf(own))]
    /\ link \in [Peers -> [Nodes -> Seq(MessagesOf(own))]]
    /\ chunk_states \in [Nodes -> StatesOf(own)]
OneContentPerTransfer == \E own \in [1 .. uuids -> Chunked] : AllBelongs(own)

\* A content that is split is not empty.
LEMMA ChunkedData ==
    ASSUME NEW c \in Chunked
    PROVE  c \in Contents /\ Raw[c] \in Seq(Byte) /\ Len(Raw[c]) > 0
BY RawAssumption, SizeAssumption DEF Chunked, IsDirect

\* A content has as many entries as it has pieces.
LEMMA EntriesCounted ==
    ASSUME NEW c \in Chunked
    PROVE  IsFiniteSet(Entries(c)) /\ Cardinality(Entries(c)) = NumPieces(Raw[c])
<1> DEFINE last == NumPieces(Raw[c]) - 1
           f == [i \in 0 .. last |-> EntryOf(c, i)]
<1>1. NumPieces(Raw[c]) \in Nat \ {0}
  BY ChunkedData, AnnouncedIsCut
<1>2. last \in Nat
  BY <1>1
<1> HIDE DEF last
<1>3. IsFiniteSet(0 .. last) /\ Cardinality(0 .. last) = last + 1
  BY <1>2, FS_Interval
<1>4. f \in Bijection(0 .. last, Entries(c))
  <2>1. \A i \in 0 .. last : f[i].index = i
    BY DEF EntryOf
  <2>2. \A i, j \in 0 .. last : f[i] = f[j] => i = j
    BY <2>1
  <2>3. Entries(c) = {f[i] : i \in 0 .. last}
    BY DEF Entries, last
  <2>4. f \in Injection(0 .. last, Entries(c))
    <3> HIDE DEF f
    <3>1. f \in [0 .. last -> Entries(c)]
      BY <2>3 DEF f
    <3> QED BY <2>2, <3>1, Fun_IsInj
  <2>5. f \in Surjection(0 .. last, Entries(c))
    <3> HIDE DEF f
    <3>1. f \in [0 .. last -> Entries(c)]
      BY <2>3 DEF f
    <3> QED BY <2>3, <3>1, Fun_IsSurj
  <2> QED BY <2>4, <2>5 DEF Bijection
<1>5. ExistsBijection(0 .. last, Entries(c))
  BY <1>4 DEF ExistsBijection
<1>6. IsFiniteSet(Entries(c)) /\ Cardinality(Entries(c)) = last + 1
  BY <1>3, <1>5, FS_Bijection
<1> QED BY <1>1, <1>6 DEF last

\* When all chunks of a content are there, each is found at its index, and one
\* after the other they are its bytes.
LEMMA AllChunksAreTheData ==
    ASSUME NEW c \in Chunked, NEW st, st.received = Entries(c),
           st.total_chunks = NumPieces(Raw[c])
    PROVE  /\ \A i \in 0 .. st.total_chunks - 1 : HasChunk(st, i)
           /\ FullData(st) = Raw[c]
<1> DEFINE data == Raw[c]
           total == NumPieces(data)
<1>1. data \in Seq(Byte) /\ Len(data) > 0 /\ total \in Nat \ {0}
  BY ChunkedData, AnnouncedIsCut
<1>2. ASSUME NEW i \in 0 .. total - 1
      PROVE  HasChunk(st, i) /\ ChunkAt(st, i) = Piece(data, i)
  <2>1. EntryOf(c, i) \in st.received /\ EntryOf(c, i).index = i
    BY DEF Entries, EntryOf
  <2>2. ASSUME NEW e \in st.received, e.index = i PROVE e.data = Piece(data, i)
    <3>1. PICK j \in 0 .. total - 1 : e = EntryOf(c, j)
      BY DEF Entries
    <3> QED BY <2>2, <3>1 DEF EntryOf
  <2>3. HasChunk(st, i)
    BY <2>1 DEF HasChunk
  <2>4. ChunkAt(st, i) = Piece(data, i)
    <3> DEFINE e == CHOOSE e \in st.received : e.index = i
    <3>1. e \in st.received /\ e.index = i
      BY <2>1
    <3>2. ChunkAt(st, i) = e.data
      BY <2>3 DEF ChunkAt
    <3> HIDE DEF e
    <3> QED BY <2>2, <3>1, <3>2
  <2> QED BY <2>3, <2>4
<1>3. FullData(st) = data
  <2> DEFINE Step(u, k) == IF k = 0 THEN <<>> ELSE u[k - 1] \o ChunkAt(st, k - 1)
             Def(u) == u = [k \in 0 .. st.total_chunks |-> Step(u, k)]
             upTo == CHOOSE u : Def(u)
             joined == [k \in 0 .. total |-> FirstPieces(data, k)]
  <2>1. FullData(st) = upTo[total]
    BY DEF FullData
  <2>2. /\ FirstPieces(data, 0) = <<>>
        /\ \A k \in 0 .. total - 1 : FirstPieces(data, k) \o Piece(data, k) = FirstPieces(data, k + 1)
        /\ FirstPieces(data, total) = data
    BY <1>1, PiecesJoin
  <2>3. Def(joined)
    <3>1. ASSUME NEW k \in 0 .. total PROVE joined[k] = Step(joined, k)
      <4>1. CASE k = 0
        BY <2>2, <4>1, <1>1
      <4>2. CASE k # 0
        <5>1. k - 1 \in 0 .. total - 1 /\ (k - 1) + 1 = k /\ k - 1 \in 0 .. total
          BY <1>1, <4>2
        <5>2. FirstPieces(data, k - 1) \o Piece(data, k - 1) = FirstPieces(data, k)
          BY <2>2, <5>1
        <5>3. ChunkAt(st, k - 1) = Piece(data, k - 1)
          BY <1>2, <5>1
        <5> QED BY <4>2, <5>1, <5>2, <5>3
      <4> QED BY <4>1, <4>2
    <3> HIDE DEF Step
    <3> QED BY <3>1
  <2>4. Def(upTo)
    <3> HIDE DEF Def, joined
    <3> QED BY <2>3
  <2> HIDE DEF upTo
  <2>5. /\ upTo[0] = <<>>
        /\ \A k \in 0 .. total - 1 : upTo[k + 1] = upTo[k] \o ChunkAt(st, k)
    <3>1. \A k \in 0 .. total : upTo[k] = Step(upTo, k)
      <4> HIDE DEF Step
      <4> QED BY <2>4
    <3>2. upTo[0] = <<>>
      BY <1>1, <3>1
    <3>3. ASSUME NEW k \in 0 .. total - 1 PROVE upTo[k + 1] = upTo[k] \o ChunkAt(st, k)
      <4>1. k + 1 \in 0 .. total /\ k + 1 # 0 /\ (k + 1) - 1 = k
        BY <1>1
      <4> QED BY <3>1, <4>1
    <3> QED BY <3>2, <3>3
  <2> DEFINE Right == {k \in 0 .. total : upTo[k] = FirstPieces(data, k)}
  <2>6. 0 \in Right
    BY <1>1, <2>2, <2>5
  <2>7. ASSUME NEW k \in 0 .. total - 1, k \in Right PROVE k + 1 \in Right
    <3>1. k + 1 \in 0 .. total
      BY <1>1
    <3>2. upTo[k + 1] = FirstPieces(data, k) \o Piece(data, k)
      BY <1>2, <2>5, <2>7
    <3> QED BY <2>2, <3>1, <3>2
  <2>8. \A k \in 0 .. total : k \in Right
    <3> HIDE DEF Right, total
    <3> QED BY <1>1, <2>6, <2>7, InductionUpTo
  <2>9. total \in Right
    BY <1>1, <2>8
  <2> QED BY <2>1, <2>2, <2>9
<1> QED BY <1>2, <1>3

\* A receiver's state that has as many chunks as announced passes all the tests
\* that follow in the ChunkEnd arm.
LEMMA CompleteIsReassembled ==
    ASSUME NEW c \in Chunked, NEW st \in ChunkReceiveState, PartOf(st, c), IsComplete(st)
    PROVE  Reassemble(st) # <<>>
<1>1. st.total_chunks = NumPieces(Raw[c])
  BY ChunkedData, AnnouncedIsCut DEF PartOf
<1>2. Cardinality(st.received) = Cardinality(Entries(c)) /\ st.received \in SUBSET Entries(c)
  BY <1>1, EntriesCounted DEF PartOf, IsComplete
<1>3. st.received = Entries(c)
  BY <1>2, EntriesCounted, FS_Subset
<1>4. /\ \A i \in 0 .. st.total_chunks - 1 : HasChunk(st, i)
      /\ FullData(st) = Raw[c]
  BY <1>1, <1>3, AllChunksAreTheData
<1>5. sha256_hex(FullData(st)) = st.data_hash
  BY <1>4 DEF PartOf
<1> QED BY <1>4, <1>5 DEF Reassemble

\* A transfer id drawn for one more content leaves the others as they were.
LEMMA OneMoreTransfer ==
    ASSUME NEW u \in Nat, NEW own \in [1 .. u -> Chunked], NEW c \in Chunked
    PROVE  LET new == [t \in 1 .. u + 1 |-> IF t = u + 1 THEN c ELSE own[t]]
           IN  /\ new \in [1 .. u + 1 -> Chunked]
               /\ new[u + 1] = c
               /\ \A t \in DOMAIN own : t \in DOMAIN new /\ new[t] = own[t]
               /\ MessagesOf(own) \subseteq MessagesOf(new)
               /\ StatesOf(own) \subseteq StatesOf(new)
<1> DEFINE new == [t \in 1 .. u + 1 |-> IF t = u + 1 THEN c ELSE own[t]]
<1>1. /\ new \in [1 .. u + 1 -> Chunked]
      /\ new[u + 1] = c
      /\ \A t \in DOMAIN own : t \in DOMAIN new /\ new[t] = own[t]
  OBVIOUS
<1> HIDE DEF new
<1>2. ASSUME NEW m \in MessagesOf(own) PROVE m \in MessagesOf(new)
  BY <1>1 DEF MessagesOf, Belongs
<1>3. ASSUME NEW states \in StatesOf(own) PROVE states \in StatesOf(new)
  <2>1. ASSUME NEW t \in TransferIds, states[t] # NoTransfer
        PROVE  t \in DOMAIN new /\ PartOf(states[t], new[t])
    BY <1>1, <2>1 DEF StatesOf
  <2> QED BY <2>1 DEF StatesOf
<1> QED BY <1>1, <1>2, <1>3 DEF new

\* The messages of a transfer belong to it.
LEMMA ChunkMessagesBelong ==
    ASSUME NEW own, NEW c \in Chunked, NEW t \in TransferIds,
           t \in DOMAIN own, own[t] = c
    PROVE  /\ ChunkMessages(c, t) \in Seq(MessagesOf(own))
           /\ ChunkMessages(c, t) # <<>>
<1> DEFINE data == Raw[c]
           start == ChunkStart(t, TotalChunks(data), sha256_hex(data))
           chunks == [i \in 1 .. NumPieces(data) |-> Chunk(t, i - 1, Piece(data, i - 1))]
           end == ChunkEnd(t)
<1>1. data \in Seq(Byte) /\ Len(data) > CHUNK_DATA_SIZE
  BY RawAssumption, SizeAssumption DEF Chunked, IsDirect
<1>2. /\ NumPieces(data) \in Nat
      /\ TotalChunks(data) \in Nat
      /\ \A i \in Nat : Piece(data, i) \in Seq(Byte)
  BY <1>1, PiecesType
<1>3. start \in MessagesOf(own)
  <2>1. start \in NetworkMessage
    BY <1>1, <1>2 DEF ChunkStart, NetworkMessage, sha256_hex, Hashes
  <2>2. Belongs(start, own)
    BY DEF ChunkStart, Belongs
  <2> QED BY <2>1, <2>2 DEF MessagesOf
<1>4. ASSUME NEW i \in 1 .. NumPieces(data) PROVE chunks[i] \in MessagesOf(own)
  <2>0. i - 1 \in Nat /\ i - 1 \in 0 .. NumPieces(data) - 1
    <3> HIDE DEF data
    <3> QED BY <1>2
  <2>1. i - 1 \in Nat /\ Piece(data, i - 1) \in Seq(Byte)
    BY <1>2, <2>0
  <2>2. chunks[i] = [type |-> "Chunk", transfer_id |-> t, index |-> i - 1,
                     data |-> Piece(data, i - 1)]
    BY DEF Chunk
  <2>3. chunks[i] \in NetworkMessage
    BY <2>1, <2>2 DEF NetworkMessage
  <2>4. EntryOf(c, i - 1) \in Entries(c)
    BY <2>0 DEF Entries
  <2> HIDE DEF chunks
  <2>5. Belongs(chunks[i], own)
    BY <2>2, <2>4 DEF Belongs, EntryOf
  <2> QED BY <2>3, <2>5 DEF MessagesOf
<1>5. end \in MessagesOf(own)
  BY DEF ChunkEnd, NetworkMessage, MessagesOf, Belongs
<1>6. chunks \in Seq(MessagesOf(own))
  <2>1. chunks = [i \in 1 .. NumPieces(data) |-> chunks[i]]
    OBVIOUS
  <2> HIDE DEF chunks
  <2> QED BY <1>2, <1>4, <2>1, IsASeq
<1> HIDE DEF start, chunks, end
<1>7. <<start>> \in Seq(MessagesOf(own)) /\ <<end>> \in Seq(MessagesOf(own))
  BY <1>3, <1>5
<1>8. /\ <<start>> \o chunks \in Seq(MessagesOf(own))
      /\ Len(<<start>> \o chunks) = 1 + Len(chunks)
  BY <1>6, <1>7, ConcatProperties
<1>9. /\ <<start>> \o chunks \o <<end>> \in Seq(MessagesOf(own))
      /\ Len(<<start>> \o chunks \o <<end>>) > 0
  BY <1>6, <1>7, <1>8, ConcatProperties
<1>10. ChunkMessages(c, t) = <<start>> \o chunks \o <<end>>
  BY DEF ChunkMessages, start, chunks, end
<1> QED BY <1>9, <1>10

\* Neither a message of a transfer in own nor the cleanup brings anything foreign
\* into a receiver's states.
LEMMA CleanupBelongs ==
    ASSUME NEW own, NEW states \in StatesOf(own)
    PROVE  cleanup_stale_chunk_states(states) \in StatesOf(own)
<1>1. states \in [TransferIds -> ChunkReceiveState \cup {NoTransfer}]
  BY DEF StatesOf
<1> QED BY <1>1, CleanupProperties DEF StatesOf

LEMMA StatesAfterBelong ==
    ASSUME NEW own, NEW states \in StatesOf(own), NEW m \in MessagesOf(own)
    PROVE  StatesAfter(states, m) \in StatesOf(own)
<1> DEFINE States == [TransferIds -> ChunkReceiveState \cup {NoTransfer}]
<1>1. states \in States /\ m \in NetworkMessage /\ Belongs(m, own)
  BY DEF StatesOf, MessagesOf
<1>2. StatesAfter(states, m) \in States
  BY <1>1, StatesAfterProperties
<1>3. ASSUME NEW t \in TransferIds, StatesAfter(states, m)[t] # NoTransfer
      PROVE  t \in DOMAIN own /\ PartOf(StatesAfter(states, m)[t], own[t])
  <2>1. CASE StatesAfter(states, m)[t] = states[t]
    BY <1>3, <2>1 DEF StatesOf
  <2>2. CASE m.type = "ChunkStart" /\ t = m.transfer_id
    <3>1. StatesAfter(states, m)[t] =
            [total_chunks |-> m.total_chunks, data_hash |-> m.data_hash,
             received |-> {}, expired |-> FALSE]
      BY <1>1, <2>2 DEF StatesAfter
    <3> QED BY <1>1, <2>2, <3>1 DEF Belongs, PartOf
  <2>3. CASE m.type = "Chunk" /\ t = m.transfer_id /\ states[t] # NoTransfer
    <3> DEFINE entry == [index |-> m.index, data |-> m.data]
               received == {e \in states[t].received : e.index # m.index} \cup {entry}
    <3>1. states[t] \in ChunkReceiveState
      BY <1>1, <2>3
    <3>2. StatesAfter(states, m)[t] = [states[t] EXCEPT !.received = received]
      BY <1>1, <2>3 DEF StatesAfter
    <3>3. t \in DOMAIN own /\ PartOf(states[t], own[t]) /\ entry \in Entries(own[t])
      BY <1>1, <2>3 DEF StatesOf, Belongs
    <3>4. received \subseteq Entries(own[t])
      BY <3>3 DEF PartOf
    <3> HIDE DEF received
    <3>5. /\ StatesAfter(states, m)[t].total_chunks = states[t].total_chunks
          /\ StatesAfter(states, m)[t].data_hash = states[t].data_hash
          /\ StatesAfter(states, m)[t].received = received
      BY <3>1, <3>2 DEF ChunkReceiveState
    <3> QED BY <3>3, <3>4, <3>5 DEF PartOf
  <2>4. \/ StatesAfter(states, m)[t] = states[t]
        \/ m.type = "ChunkStart" /\ t = m.transfer_id
        \/ m.type = "Chunk" /\ t = m.transfer_id /\ states[t] # NoTransfer
    <3>1. CASE m.type \in {"ChunkStart", "Chunk", "ChunkEnd"} /\ t # m.transfer_id
      BY <1>1, <3>1 DEF StatesAfter
    <3>2. CASE m.type \notin {"ChunkStart", "Chunk", "ChunkEnd"}
      BY <3>2 DEF StatesAfter
    <3>3. CASE m.type = "ChunkEnd" /\ t = m.transfer_id
      BY <1>1, <1>3, <3>3 DEF StatesAfter
    <3>4. CASE m.type = "Chunk" /\ t = m.transfer_id /\ states[t] = NoTransfer
      BY <1>1, <3>4 DEF StatesAfter
    <3> QED BY <3>1, <3>2, <3>3, <3>4
  <2> QED BY <2>1, <2>2, <2>3, <2>4
<1> QED BY <1>2, <1>3 DEF StatesOf

\* A message of a transfer in own may be published and received.
LEMMA PublishBelongs ==
    ASSUME NEW own, AllBelongs(own), NEW n \in Nodes, NEW m \in MessagesOf(own),
           publish(n, m)
    PROVE  link' \in [Peers -> [Nodes -> Seq(MessagesOf(own))]]
<1>1. link \in [Peers -> [Nodes -> Seq(MessagesOf(own))]]
  BY DEF AllBelongs
<1>2. CASE link' = Sent(n, m)
  <2>1. n \in Peers
    BY DEF Peers
  <2>2. \A k \in Nodes : Append(link[n][k], m) \in Seq(MessagesOf(own))
    BY <1>1, <2>1
  <2>3. [k \in Nodes |-> IF k = n THEN link[n][k] ELSE Append(link[n][k], m)]
            \in [Nodes -> Seq(MessagesOf(own))]
    BY <1>1, <2>1, <2>2
  <2> QED BY <1>1, <1>2, <2>1, <2>3 DEF Sent
<1> QED BY <1>1, <1>2 DEF publish

LEMMA CleanupStepBelongs ==
    ASSUME NEW own, AllBelongs(own), NEW n \in Nodes, Cleanup(n)
    PROVE  chunk_states' \in [Nodes -> StatesOf(own)]
BY CleanupBelongs DEF AllBelongs, Cleanup

LEMMA ArrivedBelongs ==
    ASSUME NEW own, AllBelongs(own), NEW p \in Peers, NEW n \in Nodes,
           link[p][n] # <<>>, link' = Arrived(p, n)
    PROVE  link' \in [Peers -> [Nodes -> Seq(MessagesOf(own))]]
<1>1. link \in [Peers -> [Nodes -> Seq(MessagesOf(own))]]
  BY DEF AllBelongs
<1>2. Tail(link[p][n]) \in Seq(MessagesOf(own))
  BY <1>1, HeadTailProperties
<1> QED BY <1>1, <1>2 DEF Arrived

LEMMA TransfersInit == Init => OneContentPerTransfer
<1> SUFFICES ASSUME Init PROVE OneContentPerTransfer
  OBVIOUS
<1> DEFINE own == [t \in 1 .. uuids |-> t]
<1>1. own \in [1 .. uuids -> Chunked]
  BY DEF Init
<1>2. AllBelongs(own)
  BY DEF Init, AllBelongs, StatesOf
<1> HIDE DEF own
<1> QED BY <1>1, <1>2 DEF OneContentPerTransfer

\* A content is taken from the channel and split: a new transfer.
LEMMA TransfersTakeChunked ==
    ASSUME TypeOK, NEW own \in [1 .. uuids -> Chunked], AllBelongs(own),
           NEW n \in Nodes, TakeChunked(n)
    PROVE  \E new \in [1 .. uuids' -> Chunked] :
            /\ AllBelongs(new)'
            /\ new[uuids + 1] = Head(rx[n])
            /\ \A t \in DOMAIN own : t \in DOMAIN new /\ new[t] = own[t]
            /\ ChunkMessages(Head(rx[n]), uuids + 1) \in Seq(MessagesOf(new))
<1> DEFINE c == Head(rx[n])
           t == uuids + 1
           msgs == ChunkMessages(c, t)
<1>1. uuids \in Nat /\ t \in TransferIds /\ uuids' = t
  BY SizeAssumption DEF TypeOK, TransferIds, TakeChunked
<1>2. c \in Chunked
  <2>1. rx[n] \in Seq(Contents) /\ rx[n] # <<>>
    BY DEF TypeOK, TakeChunked
  <2> QED BY <2>1 DEF Chunked, TakeChunked
<1>3. PICK new \in [1 .. t -> Chunked] :
        /\ new[t] = c
        /\ \A u \in DOMAIN own : u \in DOMAIN new /\ new[u] = own[u]
        /\ MessagesOf(own) \subseteq MessagesOf(new)
        /\ StatesOf(own) \subseteq StatesOf(new)
  <2> DEFINE ext == [u \in 1 .. uuids + 1 |-> IF u = uuids + 1 THEN c ELSE own[u]]
  <2>1. /\ ext \in [1 .. t -> Chunked] /\ ext[t] = c
        /\ \A u \in DOMAIN own : u \in DOMAIN ext /\ ext[u] = own[u]
        /\ MessagesOf(own) \subseteq MessagesOf(ext)
        /\ StatesOf(own) \subseteq StatesOf(ext)
    BY <1>1, <1>2, OneMoreTransfer
  <2> HIDE DEF ext
  <2> QED BY <2>1
<1>4. AllBelongs(new)
  <2>1. Seq(MessagesOf(own)) \subseteq Seq(MessagesOf(new))
    BY <1>3
  <2> QED BY <1>3, <2>1 DEF AllBelongs
<1>5. msgs \in Seq(MessagesOf(new)) /\ msgs # <<>>
  BY <1>1, <1>2, <1>3, ChunkMessagesBelong
<1>6. /\ pending_chunks' = [pending_chunks EXCEPT ![n] = @ \o Tail(msgs)]
      /\ publish(n, Head(msgs)) /\ Cleanup(n)
  BY DEF TakeChunked
<1> HIDE DEF msgs
<1>7. Head(msgs) \in MessagesOf(new) /\ Tail(msgs) \in Seq(MessagesOf(new))
  BY <1>5, HeadTailProperties
<1>8. pending_chunks' \in [Nodes -> Seq(MessagesOf(new))]
  <2>1. pending_chunks \in [Nodes -> Seq(MessagesOf(new))]
    BY <1>4 DEF AllBelongs
  <2>2. pending_chunks[n] \o Tail(msgs) \in Seq(MessagesOf(new))
    BY <1>7, <2>1, ConcatProperties
  <2> QED BY <1>6, <2>1, <2>2
<1>9. link' \in [Peers -> [Nodes -> Seq(MessagesOf(new))]]
  BY <1>4, <1>6, <1>7, PublishBelongs
<1>10. chunk_states' \in [Nodes -> StatesOf(new)]
  BY <1>4, <1>6, CleanupStepBelongs
<1>11. AllBelongs(new)'
  BY <1>8, <1>9, <1>10 DEF AllBelongs, MessagesOf, StatesOf, Belongs, PartOf
<1> QED BY <1>1, <1>3, <1>5, <1>11 DEF msgs

\* Every other step leaves own as it is.
LEMMA TransfersKept ==
    ASSUME TypeOK, [Next]_vars, UNCHANGED uuids,
           NEW own \in [1 .. uuids -> Chunked], AllBelongs(own)
    PROVE  AllBelongs(own)'
<1> DEFINE Pending == [Nodes -> Seq(MessagesOf(own))]
           Links == [Peers -> [Nodes -> Seq(MessagesOf(own))]]
           States == [Nodes -> StatesOf(own)]
<1>1. pending_chunks \in Pending /\ link \in Links /\ chunk_states \in States
  BY DEF AllBelongs
<1> SUFFICES pending_chunks' \in Pending /\ link' \in Links /\ chunk_states' \in States
  BY DEF AllBelongs, MessagesOf, StatesOf, Belongs, PartOf
<1>2. CASE UNCHANGED <<pending_chunks, link, chunk_states>>
  BY <1>1, <1>2
<1>3. ASSUME NEW n \in Nodes, PublishPending(n)
      PROVE  pending_chunks' \in Pending /\ link' \in Links /\ chunk_states' \in States
  <2>1. Head(pending_chunks[n]) \in MessagesOf(own) /\ Tail(pending_chunks[n]) \in Seq(MessagesOf(own))
    BY <1>1, <1>3, HeadTailProperties DEF PublishPending
  <2>2. pending_chunks' \in Pending
    BY <1>1, <1>3, <2>1 DEF PublishPending
  <2>3. link' \in Links
    BY <1>3, <2>1, PublishBelongs DEF PublishPending
  <2>4. chunk_states' \in States
    BY <1>3, CleanupStepBelongs DEF PublishPending
  <2> QED BY <2>2, <2>3, <2>4
<1>4. ASSUME NEW n \in Nodes, TakeDirect(n)
      PROVE  pending_chunks' \in Pending /\ link' \in Links /\ chunk_states' \in States
  <2>1. rx[n] \in Seq(Contents) /\ rx[n] # <<>>
    BY <1>4 DEF TypeOK, TakeDirect
  <2>2. Direct(Head(rx[n])) \in MessagesOf(own)
    BY <2>1 DEF Direct, MessagesOf, Belongs, NetworkMessage
  <2>3. link' \in Links
    BY <1>4, <2>2, PublishBelongs DEF TakeDirect
  <2>4. chunk_states' \in States
    BY <1>4, CleanupStepBelongs DEF TakeDirect
  <2> QED BY <1>1, <1>4, <2>3, <2>4 DEF TakeDirect
<1>5. ASSUME NEW n \in Nodes, OtherEvent(n)
      PROVE  pending_chunks' \in Pending /\ link' \in Links /\ chunk_states' \in States
  BY <1>1, <1>5, CleanupStepBelongs DEF OtherEvent
<1>6. ASSUME NEW n \in Nodes, NEW t \in TransferIds, TimeOut(n, t)
      PROVE  pending_chunks' \in Pending /\ link' \in Links /\ chunk_states' \in States
  <2> DEFINE st == chunk_states[n][t]
             late == [st EXCEPT !.expired = TRUE]
             new == [chunk_states[n] EXCEPT ![t] = late]
  <2>1. /\ chunk_states[n] \in [TransferIds -> ChunkReceiveState \cup {NoTransfer}]
        /\ st \in ChunkReceiveState /\ st # NoTransfer
    BY <1>1, <1>6 DEF StatesOf, TimeOut
  <2>2. t \in DOMAIN own /\ PartOf(st, own[t])
    BY <1>1, <2>1 DEF StatesOf
  <2>3. late \in ChunkReceiveState /\ PartOf(late, own[t])
    <3>1. /\ late \in ChunkReceiveState
          /\ late.total_chunks = st.total_chunks /\ late.data_hash = st.data_hash
          /\ late.received = st.received
      BY <2>1 DEF ChunkReceiveState
    <3> HIDE DEF late, st
    <3> QED BY <2>2, <3>1 DEF PartOf
  <2>4. chunk_states' = [chunk_states EXCEPT ![n] = new]
    BY <1>1, <1>6 DEF TimeOut
  <2> HIDE DEF late
  <2>5. /\ new \in [TransferIds -> ChunkReceiveState \cup {NoTransfer}]
        /\ new[t] = late /\ \A u \in TransferIds : u # t => new[u] = chunk_states[n][u]
    BY <2>1, <2>3
  <2> HIDE DEF new
  <2>6. new \in StatesOf(own)
    <3>1. ASSUME NEW u \in TransferIds, new[u] # NoTransfer
          PROVE  u \in DOMAIN own /\ PartOf(new[u], own[u])
      <4>1. CASE u = t
        BY <2>2, <2>3, <2>5, <4>1
      <4>2. CASE u # t
        BY <1>1, <2>5, <3>1, <4>2 DEF StatesOf
      <4> QED BY <4>1, <4>2
    <3> QED BY <2>5, <3>1 DEF StatesOf
  <2>7. chunk_states' \in States
    BY <1>1, <2>4, <2>6
  <2> QED BY <1>1, <1>6, <2>7 DEF TimeOut
<1>7. ASSUME NEW n \in Nodes, Restart(n)
      PROVE  pending_chunks' \in Pending /\ link' \in Links /\ chunk_states' \in States
  <2>1. pending_chunks' \in Pending
    BY <1>1, <1>7 DEF Restart
  <2>2. link' \in Links
    BY <1>1, <1>7 DEF Restart
  <2>3. [t \in TransferIds |-> NoTransfer] \in StatesOf(own)
    BY DEF StatesOf
  <2>4. chunk_states' \in States
    BY <1>1, <1>7, <2>3 DEF Restart
  <2> QED BY <2>1, <2>2, <2>4
<1>8. ASSUME NEW p \in LegacyNodes, NEW c \in Contents, LegacyCopy(p, c)
      PROVE  pending_chunks' \in Pending /\ link' \in Links /\ chunk_states' \in States
  <2>1. Legacy(c) \in MessagesOf(own)
    BY DEF Legacy, MessagesOf, Belongs, NetworkMessage
  <2>2. p \in Peers /\ link' = Sent(p, Legacy(c))
    BY <1>8 DEF Peers, LegacyCopy
  <2>3. \A k \in Nodes : Append(link[p][k], Legacy(c)) \in Seq(MessagesOf(own))
    BY <1>1, <2>1, <2>2
  <2>4. [k \in Nodes |-> IF k = p THEN link[p][k] ELSE Append(link[p][k], Legacy(c))]
            \in [Nodes -> Seq(MessagesOf(own))]
    BY <1>1, <2>2, <2>3
  <2>5. link' \in Links
    BY <1>1, <2>2, <2>4 DEF Sent
  <2> QED BY <1>1, <1>8, <2>5 DEF LegacyCopy
<1>9. ASSUME NEW p \in Peers, NEW n \in Nodes, ReceiveGossip(p, n)
      PROVE  pending_chunks' \in Pending /\ link' \in Links /\ chunk_states' \in States
  <2>1. PICK i \in Arrivable(p, n) :
          /\ chunk_states' = [chunk_states EXCEPT ![n] =
                cleanup_stale_chunk_states(StatesAfter(@, link[p][n][i]))]
          /\ link' = Arrived(p, n) /\ UNCHANGED pending_chunks
    BY <1>9 DEF ReceiveGossip
  <2>2. link[p][n] \in Seq(MessagesOf(own)) /\ chunk_states[n] \in StatesOf(own)
    BY <1>1
  <2>3. link[p][n][i] \in MessagesOf(own) /\ link[p][n] # <<>>
    BY <2>2 DEF Arrivable
  <2>4. cleanup_stale_chunk_states(StatesAfter(chunk_states[n], link[p][n][i])) \in StatesOf(own)
    BY <2>2, <2>3, StatesAfterBelong, CleanupBelongs
  <2>5. chunk_states' \in States
    BY <1>1, <2>1, <2>4
  <2>6. link' \in Links
    BY <2>1, <2>3, ArrivedBelongs
  <2> QED BY <1>1, <2>1, <2>5, <2>6
<1>10. ASSUME NEW p \in Peers, NEW n \in Nodes, DropDuplicate(p, n) \/ Lose(p, n)
       PROVE  pending_chunks' \in Pending /\ link' \in Links /\ chunk_states' \in States
  <2>1. link' \in Links
    BY <1>10, ArrivedBelongs DEF DropDuplicate, Lose
  <2> QED BY <1>1, <1>10, <2>1 DEF DropDuplicate, Lose
<1>11. ASSUME NEW n \in Nodes PROVE ~TakeChunked(n)
  BY DEF TypeOK, TakeChunked
<1>12. ASSUME NEW n \in Nodes, NEW c \in Contents, LocalCopy(n, c)
       PROVE  UNCHANGED <<pending_chunks, link, chunk_states>>
  BY <1>12 DEF LocalCopy
<1>13. CASE UNCHANGED vars
  BY <1>2, <1>13 DEF vars
<1> QED BY <1>2, <1>3, <1>4, <1>5, <1>6, <1>7, <1>8, <1>9, <1>10, <1>11, <1>12, <1>13 DEF Next

LEMMA TransfersNext == TypeOK /\ OneContentPerTransfer /\ [Next]_vars => OneContentPerTransfer'
<1> SUFFICES ASSUME TypeOK, OneContentPerTransfer, [Next]_vars PROVE OneContentPerTransfer'
  OBVIOUS
<1>1. CASE \E n \in Nodes : TakeChunked(n)
  <2>1. PICK own \in [1 .. uuids -> Chunked] : AllBelongs(own)
    BY DEF OneContentPerTransfer
  <2>2. \E new \in [1 .. uuids' -> Chunked] : AllBelongs(new)'
    BY <1>1, <2>1, TransfersTakeChunked
  <2> QED BY <2>2 DEF OneContentPerTransfer
<1>2. CASE UNCHANGED uuids
  <2>1. PICK own \in [1 .. uuids -> Chunked] : AllBelongs(own)
    BY DEF OneContentPerTransfer
  <2>2. AllBelongs(own)'
    BY <1>2, <2>1, TransfersKept
  <2> QED BY <1>2, <2>1, <2>2 DEF OneContentPerTransfer
<1>3. UNCHANGED uuids \/ \E n \in Nodes : TakeChunked(n)
  BY DEF Next, vars, LocalCopy, PublishPending, TakeDirect, OtherEvent, TimeOut, Restart,
         LegacyCopy, ReceiveGossip, DropDuplicate, Lose
<1> QED BY <1>1, <1>2, <1>3

\* Every transfer id stands for one content, whatever is lost, repeated or restarted.
THEOREM TransfersStayApart == Spec => []OneContentPerTransfer
BY TransfersInit, TransfersNext, TypeCorrect, PTL DEF Spec

\* A transfer that has as many chunks as announced passes the tests of the indices
\* and of the SHA-256: reassembly fails for a missing chunk and for nothing else.
THEOREM CompleteMeansIntactHolds == Spec => []CompleteMeansIntact
<1>1. OneContentPerTransfer => CompleteMeansIntact
  <2> SUFFICES ASSUME OneContentPerTransfer, NEW n \in Nodes, NEW t \in TransferIds,
                      chunk_states[n][t] # NoTransfer, IsComplete(chunk_states[n][t])
               PROVE  Reassemble(chunk_states[n][t]) # <<>>
    BY DEF CompleteMeansIntact
  <2>1. PICK own \in [1 .. uuids -> Chunked] : AllBelongs(own)
    BY DEF OneContentPerTransfer
  <2>2. /\ chunk_states[n][t] \in ChunkReceiveState
        /\ own[t] \in Chunked /\ PartOf(chunk_states[n][t], own[t])
    BY <2>1 DEF AllBelongs, StatesOf
  <2> QED BY <2>2, CompleteIsReassembled
<1> QED BY <1>1, TransfersStayApart, PTL

-------------------------------------------------------------------------------
(* Order: on links that keep the order of messages, what is under way from p *)
(* to n has a place among the contents p copied.  The places increase from   *)
(* what was delivered over what is on the link to what p has still to send.  *)

\* The messages upon which handle_incoming_message may return a content, and which.
Final(m) == m.type \in {"Direct", "Legacy", "ChunkEnd"}
Carried(m, own) == IF m.type = "ChunkEnd" THEN own[m.transfer_id] ELSE m.content

\* The places in dl of what came from p.
FromIn(dl, p) == {i \in DOMAIN dl : dl[i].from = p}

\* at[g] is the place among the copied contents cs of what was delivered as dl[g],
\* pos[i] that of the content message msgs[i] is a part of; `taken` contents left the
\* channel, and what is pending is of the last of them.
Delivered(cs, dl, p, at) ==
    /\ \A g \in FromIn(dl, p) : dl[g].content = cs[at[g]]
    /\ \A g, h \in FromIn(dl, p) : g < h => at[g] < at[h]
OnLink(own, cs, msgs, pos) ==
    /\ \A i \in DOMAIN msgs : Final(msgs[i]) => Carried(msgs[i], own) = cs[pos[i]]
    /\ \A i, j \in DOMAIN msgs :
        i < j => pos[i] <= pos[j] /\ (Final(msgs[i]) => pos[i] < pos[j])
BeforeLink(dl, p, at, msgs, pos) ==
    \A g \in FromIn(dl, p), i \in DOMAIN msgs : at[g] < pos[i]
LastIs(own, pend, c) ==
    \A i \in DOMAIN pend : Final(pend[i]) => i = Len(pend) /\ Carried(pend[i], own) = c
BeforePending(taken, dl, p, at, msgs, pos) ==
    /\ \A i \in DOMAIN msgs : Final(msgs[i]) => pos[i] < taken
    /\ \A g \in FromIn(dl, p) : at[g] < taken
Placed(own, cs, taken, pend, msgs, dl, p, at, pos) ==
    /\ at \in [FromIn(dl, p) -> 1 .. taken]
    /\ pos \in [DOMAIN msgs -> 1 .. taken]
    /\ Delivered(cs, dl, p, at)
    /\ OnLink(own, cs, msgs, pos)
    /\ BeforeLink(dl, p, at, msgs, pos)
    /\ pend # <<>> => /\ taken > 0
                      /\ LastIs(own, pend, cs[taken])
                      /\ BeforePending(taken, dl, p, at, msgs, pos)
Flows(own, cs, taken, pend, msgs, dl, p) ==
    \E at, pos : Placed(own, cs, taken, pend, msgs, dl, p, at, pos)

\* More is copied.
LEMMA FlowsCopy ==
    ASSUME NEW own, NEW cs \in Seq(Contents), NEW taken \in 0 .. Len(cs), NEW pend, NEW msgs,
           NEW dl, NEW p, NEW c \in Contents, Flows(own, cs, taken, pend, msgs, dl, p)
    PROVE  Flows(own, Append(cs, c), taken, pend, msgs, dl, p)
<1>1. PICK at, pos : Placed(own, cs, taken, pend, msgs, dl, p, at, pos)
  BY DEF Flows
<1>2. \A x \in 1 .. taken : Append(cs, c)[x] = cs[x]
  OBVIOUS
<1> DEFINE more == Append(cs, c)
<1> HIDE DEF more
<1>3. Delivered(more, dl, p, at)
  BY <1>1, <1>2 DEF Placed, Delivered, more
<1>4. OnLink(own, more, msgs, pos)
  BY <1>1, <1>2 DEF Placed, OnLink, more
<1>5. pend # <<>> => LastIs(own, pend, more[taken])
  BY <1>1, <1>2 DEF Placed, more
<1>6. Placed(own, more, taken, pend, msgs, dl, p, at, pos)
  BY <1>1, <1>3, <1>4, <1>5 DEF Placed
<1> QED BY <1>6 DEF Flows, more

\* A transfer id is drawn for another content.
LEMMA FlowsOwn ==
    ASSUME NEW own, NEW new, \A t \in DOMAIN own : t \in DOMAIN new /\ new[t] = own[t],
           NEW cs, NEW taken, NEW pend \in Seq(MessagesOf(own)), NEW msgs \in Seq(MessagesOf(own)),
           NEW dl, NEW p, Flows(own, cs, taken, pend, msgs, dl, p)
    PROVE  Flows(new, cs, taken, pend, msgs, dl, p)
<1>1. PICK at, pos : Placed(own, cs, taken, pend, msgs, dl, p, at, pos)
  BY DEF Flows
<1>2. \A m \in MessagesOf(own) : Carried(m, new) = Carried(m, own)
  BY DEF MessagesOf, Belongs, Carried
<1>3. OnLink(new, cs, msgs, pos)
  BY <1>1, <1>2 DEF Placed, OnLink
<1>4. pend # <<>> => LastIs(new, pend, cs[taken])
  BY <1>1, <1>2 DEF Placed, LastIs
<1>5. Placed(new, cs, taken, pend, msgs, dl, p, at, pos)
  BY <1>1, <1>3, <1>4 DEF Placed
<1> QED BY <1>5 DEF Flows

\* Everything on the link is lost.
LEMMA FlowsCut ==
    ASSUME NEW own, NEW cs, NEW taken, NEW pend, NEW msgs, NEW dl, NEW p,
           Flows(own, cs, taken, pend, msgs, dl, p)
    PROVE  Flows(own, cs, taken, pend, <<>>, dl, p)
<1>1. PICK at, pos : Placed(own, cs, taken, pend, msgs, dl, p, at, pos)
  BY DEF Flows
<1>2. Placed(own, cs, taken, pend, <<>>, dl, p, at, <<>>)
  BY <1>1 DEF Placed, OnLink, BeforeLink, BeforePending
<1> QED BY <1>2 DEF Flows

\* What was pending is given up, and contents leave the channel without being sent.
LEMMA FlowsSkip ==
    ASSUME NEW own, NEW cs, NEW taken \in Nat, NEW pend, NEW msgs, NEW dl, NEW p,
           NEW more \in Nat, taken <= more, Flows(own, cs, taken, pend, msgs, dl, p)
    PROVE  Flows(own, cs, more, <<>>, msgs, dl, p)
<1>1. PICK at, pos : Placed(own, cs, taken, pend, msgs, dl, p, at, pos)
  BY DEF Flows
<1>2. at \in [FromIn(dl, p) -> 1 .. more] /\ pos \in [DOMAIN msgs -> 1 .. more]
  BY <1>1 DEF Placed
<1>3. Placed(own, cs, more, <<>>, msgs, dl, p, at, pos)
  BY <1>1, <1>2 DEF Placed
<1> QED BY <1>3 DEF Flows

\* The next content leaves the channel and its messages are to be sent.
LEMMA FlowsTake ==
    ASSUME NEW own, NEW cs, NEW taken \in Nat, NEW pend, NEW msgs, NEW dl, NEW p,
           Flows(own, cs, taken, <<>>, msgs, dl, p), LastIs(own, pend, cs[taken + 1])
    PROVE  Flows(own, cs, taken + 1, pend, msgs, dl, p)
<1>1. PICK at, pos : Placed(own, cs, taken, <<>>, msgs, dl, p, at, pos)
  BY DEF Flows
<1>2. at \in [FromIn(dl, p) -> 1 .. taken] /\ pos \in [DOMAIN msgs -> 1 .. taken]
  BY <1>1 DEF Placed
<1>3. at \in [FromIn(dl, p) -> 1 .. taken + 1] /\ pos \in [DOMAIN msgs -> 1 .. taken + 1]
  BY <1>2
<1>4. BeforePending(taken + 1, dl, p, at, msgs, pos)
  BY <1>2 DEF BeforePending
<1>5. Placed(own, cs, taken + 1, pend, msgs, dl, p, at, pos)
  BY <1>1, <1>3, <1>4 DEF Placed
<1> QED BY <1>5 DEF Flows

\* The first of the pending messages is put on the link, or fails to be.
LEMMA FlowsPublish ==
    ASSUME NEW own, NEW cs, NEW taken \in Nat,
           NEW pend \in Seq(MessagesOf(own)), pend # <<>>, NEW msgs \in Seq(MessagesOf(own)),
           NEW dl, NEW p, Flows(own, cs, taken, pend, msgs, dl, p)
    PROVE  /\ Flows(own, cs, taken, Tail(pend), msgs, dl, p)
           /\ Flows(own, cs, taken, Tail(pend), Append(msgs, Head(pend)), dl, p)
<1> DEFINE m == Head(pend)
           rest == Tail(pend)
           link1 == Append(msgs, m)
<1>1. PICK at, pos : Placed(own, cs, taken, pend, msgs, dl, p, at, pos)
  BY DEF Flows
<1> DEFINE pos1 == [i \in DOMAIN link1 |-> IF i \in DOMAIN msgs THEN pos[i] ELSE taken]
<1>2. /\ at \in [FromIn(dl, p) -> 1 .. taken]
      /\ pos \in [DOMAIN msgs -> 1 .. taken]
      /\ taken > 0
      /\ LastIs(own, pend, cs[taken])
      /\ BeforePending(taken, dl, p, at, msgs, pos)
  BY <1>1 DEF Placed
<1>3. /\ m = pend[1] /\ 1 \in DOMAIN pend /\ m \in MessagesOf(own)
      /\ rest \in Seq(MessagesOf(own)) /\ Len(rest) = Len(pend) - 1
      /\ \A i \in DOMAIN rest : i + 1 \in DOMAIN pend /\ rest[i] = pend[i + 1]
  BY HeadTailProperties
<1> HIDE DEF m, rest
<1>4. LastIs(own, rest, cs[taken])
  BY <1>2, <1>3 DEF LastIs
<1>5. /\ Final(m) => Carried(m, own) = cs[taken]
      /\ rest # <<>> => ~Final(m)
  <2>1. Len(pend) \in Nat /\ (rest # <<>> => Len(rest) # 0)
    BY <1>3, EmptySeq
  <2>2. rest # <<>> => 1 # Len(pend)
    BY <1>3, <2>1
  <2> QED BY <1>2, <1>3, <2>2 DEF LastIs
<1>6. Flows(own, cs, taken, rest, msgs, dl, p)
  <2>1. Placed(own, cs, taken, rest, msgs, dl, p, at, pos)
    BY <1>1, <1>2, <1>4 DEF Placed
  <2> QED BY <2>1 DEF Flows
<1>7. /\ DOMAIN link1 = 1 .. Len(msgs) + 1 /\ DOMAIN msgs = 1 .. Len(msgs) /\ Len(msgs) \in Nat
      /\ link1[Len(msgs) + 1] = m
      /\ \A i \in 1 .. Len(msgs) : link1[i] = msgs[i]
  BY <1>3
<1> HIDE DEF link1
<1>8. /\ pos1 \in [DOMAIN link1 -> 1 .. taken]
      /\ pos1[Len(msgs) + 1] = taken
      /\ \A i \in 1 .. Len(msgs) : pos1[i] = pos[i]
  <2>1. \A i \in DOMAIN link1 : pos1[i] \in 1 .. taken
    BY <1>2
  <2>2. /\ Len(msgs) + 1 \in DOMAIN link1 /\ Len(msgs) + 1 \notin DOMAIN msgs
        /\ \A i \in 1 .. Len(msgs) : i \in DOMAIN link1 /\ i \in DOMAIN msgs
    BY <1>7
  <2> QED BY <2>1, <2>2
<1> HIDE DEF pos1
<1>9. OnLink(own, cs, link1, pos1)
  <2>1. ASSUME NEW i \in DOMAIN link1, Final(link1[i])
        PROVE  Carried(link1[i], own) = cs[pos1[i]]
    BY <1>1, <1>5, <1>7, <1>8, <2>1 DEF Placed, OnLink
  <2>2. ASSUME NEW i \in DOMAIN link1, NEW j \in DOMAIN link1, i < j
        PROVE  pos1[i] <= pos1[j] /\ (Final(link1[i]) => pos1[i] < pos1[j])
    <3>1. i \in 1 .. Len(msgs) /\ (j \in 1 .. Len(msgs) \/ j = Len(msgs) + 1)
      BY <1>7, <2>2
    <3>2. CASE j = Len(msgs) + 1
      <4>1. pos[i] \in 1 .. taken /\ (Final(msgs[i]) => pos[i] < taken)
        BY <1>2, <1>7, <3>1 DEF BeforePending
      <4> QED BY <1>7, <1>8, <3>1, <3>2, <4>1
    <3>3. CASE j \in 1 .. Len(msgs)
      BY <1>1, <1>7, <1>8, <2>2, <3>1, <3>3 DEF Placed, OnLink
    <3> QED BY <3>1, <3>2, <3>3
  <2> QED BY <2>1, <2>2 DEF OnLink
<1>10. BeforeLink(dl, p, at, link1, pos1)
  <2>1. ASSUME NEW g \in FromIn(dl, p), NEW i \in DOMAIN link1 PROVE at[g] < pos1[i]
    BY <1>1, <1>2, <1>7, <1>8 DEF Placed, BeforeLink, BeforePending
  <2> QED BY <2>1 DEF BeforeLink
<1>11. rest # <<>> => BeforePending(taken, dl, p, at, link1, pos1)
  <2>1. ASSUME rest # <<>>, NEW i \in DOMAIN link1, Final(link1[i]) PROVE pos1[i] < taken
    <3>1. i \in 1 .. Len(msgs)
      BY <1>5, <1>7, <2>1
    <3> QED BY <1>2, <1>7, <1>8, <2>1, <3>1 DEF BeforePending
  <2> QED BY <1>2, <2>1 DEF BeforePending
<1>12. Placed(own, cs, taken, rest, link1, dl, p, at, pos1)
  BY <1>1, <1>2, <1>4, <1>8, <1>9, <1>10, <1>11 DEF Placed
<1>13. Flows(own, cs, taken, rest, link1, dl, p)
  BY <1>12 DEF Flows
<1> QED BY <1>6, <1>13 DEF m, rest, link1

\* The first message of the link arrives, or is lost: nothing is delivered.
LEMMA FlowsDrop ==
    ASSUME NEW own, NEW cs, NEW taken \in Nat, NEW pend,
           NEW msgs \in Seq(MessagesOf(own)), msgs # <<>>,
           NEW dl, NEW p, Flows(own, cs, taken, pend, msgs, dl, p)
    PROVE  Flows(own, cs, taken, pend, Tail(msgs), dl, p)
<1> DEFINE rest == Tail(msgs)
<1>1. PICK at, pos : Placed(own, cs, taken, pend, msgs, dl, p, at, pos)
  BY DEF Flows
<1> DEFINE pos1 == [i \in DOMAIN rest |-> pos[i + 1]]
<1>2. /\ at \in [FromIn(dl, p) -> 1 .. taken]
      /\ pos \in [DOMAIN msgs -> 1 .. taken]
  BY <1>1 DEF Placed
<1>3. /\ rest \in Seq(MessagesOf(own))
      /\ \A i \in DOMAIN rest : i \in Nat /\ i + 1 \in DOMAIN msgs /\ rest[i] = msgs[i + 1]
  BY HeadTailProperties
<1> HIDE DEF rest
<1>4. /\ pos1 \in [DOMAIN rest -> 1 .. taken]
      /\ \A i \in DOMAIN rest : pos1[i] = pos[i + 1]
  BY <1>2, <1>3
<1> HIDE DEF pos1
<1>5. OnLink(own, cs, rest, pos1)
  <2>1. ASSUME NEW i \in DOMAIN rest, Final(rest[i])
        PROVE  Carried(rest[i], own) = cs[pos1[i]]
    BY <1>1, <1>3, <1>4, <2>1 DEF Placed, OnLink
  <2>2. ASSUME NEW i \in DOMAIN rest, NEW j \in DOMAIN rest, i < j
        PROVE  pos1[i] <= pos1[j] /\ (Final(rest[i]) => pos1[i] < pos1[j])
    <3>1. i + 1 \in DOMAIN msgs /\ j + 1 \in DOMAIN msgs /\ i + 1 < j + 1
      BY <1>3, <2>2
    <3> QED BY <1>1, <1>3, <1>4, <3>1 DEF Placed, OnLink
  <2> QED BY <2>1, <2>2 DEF OnLink
<1>6. BeforeLink(dl, p, at, rest, pos1)
  BY <1>1, <1>3, <1>4 DEF Placed, BeforeLink
<1>7. pend # <<>> => BeforePending(taken, dl, p, at, rest, pos1)
  BY <1>1, <1>3, <1>4 DEF Placed, BeforePending
<1>8. Placed(own, cs, taken, pend, rest, dl, p, at, pos1)
  BY <1>1, <1>4, <1>5, <1>6, <1>7 DEF Placed
<1> QED BY <1>8 DEF Flows, rest

\* What is delivered from another peer leaves the places of those from p alone.
LEMMA FlowsOther ==
    ASSUME NEW own, NEW cs, NEW taken, NEW pend, NEW msgs, NEW S, NEW dl \in Seq(S), NEW p,
           NEW e \in S, e.from # p, Flows(own, cs, taken, pend, msgs, dl, p)
    PROVE  Flows(own, cs, taken, pend, msgs, Append(dl, e), p)
<1> DEFINE dl1 == Append(dl, e)
<1>1. /\ DOMAIN dl1 = 1 .. Len(dl) + 1 /\ DOMAIN dl = 1 .. Len(dl) /\ Len(dl) \in Nat
      /\ dl1[Len(dl) + 1] = e
      /\ \A i \in 1 .. Len(dl) : dl1[i] = dl[i]
  OBVIOUS
<1> HIDE DEF dl1
<1>2. FromIn(dl1, p) = FromIn(dl, p)
  BY <1>1 DEF FromIn
<1>3. \A g \in FromIn(dl, p) : dl1[g] = dl[g]
  BY <1>1 DEF FromIn
<1>4. PICK at, pos : Placed(own, cs, taken, pend, msgs, dl, p, at, pos)
  BY DEF Flows
<1>5. Placed(own, cs, taken, pend, msgs, dl1, p, at, pos)
  BY <1>2, <1>3, <1>4 DEF Placed, Delivered, BeforeLink, BeforePending
<1> QED BY <1>5 DEF Flows, dl1

\* The first message of the link brings a content to its end, which is delivered.
LEMMA FlowsDeliver ==
    ASSUME NEW own, NEW cs, NEW taken \in Nat, NEW pend,
           NEW msgs \in Seq(MessagesOf(own)), msgs # <<>>, Final(Head(msgs)),
           NEW S, NEW dl \in Seq(S), NEW p, Flows(own, cs, taken, pend, msgs, dl, p),
           NEW e \in S, e.from = p, e.content = Carried(Head(msgs), own)
    PROVE  Flows(own, cs, taken, pend, Tail(msgs), Append(dl, e), p)
<1> DEFINE rest == Tail(msgs)
           dl1 == Append(dl, e)
           new == Len(dl) + 1
<1>1. PICK at, pos : Placed(own, cs, taken, pend, msgs, dl, p, at, pos)
  BY DEF Flows
<1> DEFINE pos1 == [i \in DOMAIN rest |-> pos[i + 1]]
           at1 == [g \in FromIn(dl1, p) |-> IF g = new THEN pos[1] ELSE at[g]]
<1>2. /\ at \in [FromIn(dl, p) -> 1 .. taken]
      /\ pos \in [DOMAIN msgs -> 1 .. taken]
      /\ Delivered(cs, dl, p, at)
      /\ OnLink(own, cs, msgs, pos)
      /\ BeforeLink(dl, p, at, msgs, pos)
  BY <1>1 DEF Placed
<1>3. /\ rest \in Seq(MessagesOf(own)) /\ 1 \in DOMAIN msgs /\ Head(msgs) = msgs[1]
      /\ \A i \in DOMAIN rest : i \in Nat \ {0} /\ i + 1 \in DOMAIN msgs /\ rest[i] = msgs[i + 1]
  BY HeadTailProperties
<1>4. /\ DOMAIN dl1 = 1 .. new /\ DOMAIN dl = 1 .. Len(dl) /\ new \in Nat
      /\ dl1[new] = e
      /\ \A i \in 1 .. Len(dl) : dl1[i] = dl[i] /\ i < new
  OBVIOUS
<1> HIDE DEF rest, dl1
<1>5. FromIn(dl1, p) = FromIn(dl, p) \cup {new} /\ new \notin FromIn(dl, p)
  BY <1>4 DEF FromIn
<1>6. \A g \in FromIn(dl, p) : dl1[g] = dl[g] /\ g \in Nat /\ g < new
  BY <1>4 DEF FromIn
<1> HIDE DEF new
<1>7. pos[1] \in 1 .. taken /\ cs[pos[1]] = e.content
  BY <1>2, <1>3 DEF OnLink
<1>8. /\ at1 \in [FromIn(dl1, p) -> 1 .. taken]
      /\ at1[new] = pos[1]
      /\ \A g \in FromIn(dl, p) : at1[g] = at[g]
  BY <1>2, <1>5, <1>7
<1>9. /\ pos1 \in [DOMAIN rest -> 1 .. taken]
      /\ \A i \in DOMAIN rest : pos1[i] = pos[i + 1]
  BY <1>2, <1>3
<1> HIDE DEF at1, pos1
<1>10. \A i \in DOMAIN rest : pos[1] < pos1[i]
  <2>1. ASSUME NEW i \in DOMAIN rest PROVE pos[1] < pos[i + 1]
    <3>1. 1 \in DOMAIN msgs /\ i + 1 \in DOMAIN msgs /\ 1 < i + 1 /\ Final(msgs[1])
      BY <1>3
    <3> QED BY <1>2, <3>1 DEF OnLink
  <2> QED BY <1>9, <2>1
<1>11. \A g \in FromIn(dl, p) : at[g] < pos[1]
  BY <1>2, <1>3 DEF BeforeLink
<1>12. Delivered(cs, dl1, p, at1)
  <2>1. ASSUME NEW g \in FromIn(dl1, p) PROVE dl1[g].content = cs[at1[g]]
    <3>1. CASE g = new
      BY <1>4, <1>7, <1>8, <3>1
    <3>2. CASE g \in FromIn(dl, p)
      BY <1>2, <1>6, <1>8, <3>2 DEF Delivered
    <3> QED BY <1>5, <3>1, <3>2
  <2>2. ASSUME NEW g \in FromIn(dl1, p), NEW h \in FromIn(dl1, p), g < h
        PROVE  at1[g] < at1[h]
    <3>1. g \in FromIn(dl, p)
      BY <1>4, <1>5, <1>6, <2>2
    <3>2. CASE h = new
      BY <1>8, <1>11, <3>1, <3>2
    <3>3. CASE h \in FromIn(dl, p)
      BY <1>2, <1>8, <2>2, <3>1, <3>3 DEF Delivered
    <3> QED BY <1>5, <3>2, <3>3
  <2> QED BY <2>1, <2>2 DEF Delivered
<1>13. BeforeLink(dl1, p, at1, rest, pos1)
  <2>1. ASSUME NEW g \in FromIn(dl1, p), NEW i \in DOMAIN rest PROVE at1[g] < pos1[i]
    <3>1. CASE g = new
      BY <1>8, <1>10, <3>1
    <3>2. CASE g \in FromIn(dl, p)
      BY <1>2, <1>3, <1>8, <1>9, <3>2 DEF BeforeLink
    <3> QED BY <1>5, <3>1, <3>2
  <2> QED BY <2>1 DEF BeforeLink
<1>14. OnLink(own, cs, rest, pos1)
  <2>1. ASSUME NEW i \in DOMAIN rest, Final(rest[i])
        PROVE  Carried(rest[i], own) = cs[pos1[i]]
    BY <1>2, <1>3, <1>9, <2>1 DEF OnLink
  <2>2. ASSUME NEW i \in DOMAIN rest, NEW j \in DOMAIN rest, i < j
        PROVE  pos1[i] <= pos1[j] /\ (Final(rest[i]) => pos1[i] < pos1[j])
    <3>1. i + 1 \in DOMAIN msgs /\ j + 1 \in DOMAIN msgs /\ i + 1 < j + 1
      BY <1>3, <2>2
    <3> QED BY <1>2, <1>3, <1>9, <3>1 DEF OnLink
  <2> QED BY <2>1, <2>2 DEF OnLink
<1>15. pend # <<>> => BeforePending(taken, dl1, p, at1, rest, pos1)
  <2> SUFFICES ASSUME pend # <<>> PROVE BeforePending(taken, dl1, p, at1, rest, pos1)
    OBVIOUS
  <2>1. BeforePending(taken, dl, p, at, msgs, pos)
    BY <1>1 DEF Placed
  <2>2. pos[1] < taken
    BY <1>3, <2>1 DEF BeforePending
  <2>3. ASSUME NEW g \in FromIn(dl1, p) PROVE at1[g] < taken
    BY <1>5, <1>8, <2>1, <2>2 DEF BeforePending
  <2>4. ASSUME NEW i \in DOMAIN rest, Final(rest[i]) PROVE pos1[i] < taken
    BY <1>3, <1>9, <2>1, <2>4 DEF BeforePending
  <2> QED BY <2>3, <2>4 DEF BeforePending
<1>16. Placed(own, cs, taken, pend, rest, dl1, p, at1, pos1)
  BY <1>1, <1>8, <1>9, <1>12, <1>13, <1>14, <1>15 DEF Placed
<1> QED BY <1>16 DEF Flows, rest, dl1

\* How many contents of p have left its channel, and what p has still to send.
Taken(p) == IF p \in Nodes THEN Len(copied[p]) - Len(rx[p]) ELSE Len(copied[p])
Unsent(p) == IF p \in Nodes THEN pending_chunks[p] ELSE <<>>
FlowsOn(own, p, n) ==
    Flows(own, copied[p], Taken(p), Unsent(p), link[p][n], delivered[n], p)

\* The channel from the monitor holds the contents copied last.
Queued ==
    \A n \in Nodes :
        /\ Len(rx[n]) <= Len(copied[n])
        /\ \A i \in DOMAIN rx[n] : rx[n][i] = copied[n][Len(copied[n]) - Len(rx[n]) + i]

\* The inductive invariant behind InOrder.
InStep ==
    ~Reordering =>
        \E own \in [1 .. uuids -> Chunked] :
            AllBelongs(own) /\ \A p \in Peers, n \in Nodes : FlowsOn(own, p, n)

LEMMA QueuedInit == Init => Queued
BY DEF Init, Queued, Peers

\* A content put in the channel is the last one copied.
LEMMA QueuedCopy ==
    ASSUME NEW cs \in Seq(Contents), NEW q \in Seq(Contents), NEW c \in Contents, Len(q) <= Len(cs),
           \A i \in DOMAIN q : q[i] = cs[Len(cs) - Len(q) + i]
    PROVE  LET cs1 == Append(cs, c)
               q1 == Append(q, c)
           IN  /\ Len(q1) <= Len(cs1)
               /\ \A i \in DOMAIN q1 : q1[i] = cs1[Len(cs1) - Len(q1) + i]
<1> DEFINE cs1 == Append(cs, c)
           q1 == Append(q, c)
<1>1. /\ Len(cs) \in Nat /\ Len(cs1) = Len(cs) + 1 /\ cs1[Len(cs) + 1] = c
      /\ \A i \in 1 .. Len(cs) : cs1[i] = cs[i]
  OBVIOUS
<1>2. /\ Len(q) \in Nat /\ Len(q1) = Len(q) + 1 /\ q1[Len(q) + 1] = c
      /\ DOMAIN q1 = 1 .. Len(q) + 1 /\ DOMAIN q = 1 .. Len(q)
      /\ \A i \in 1 .. Len(q) : q1[i] = q[i]
  OBVIOUS
<1> HIDE DEF cs1, q1
<1>3. ASSUME NEW i \in DOMAIN q1 PROVE q1[i] = cs1[Len(cs1) - Len(q1) + i]
  <2>1. CASE i = Len(q) + 1
    <3>1. Len(cs1) - Len(q1) + i = Len(cs) + 1
      BY <1>1, <1>2, <2>1
    <3> QED BY <1>1, <1>2, <2>1, <3>1
  <2>2. CASE i \in 1 .. Len(q)
    <3>1. /\ Len(cs1) - Len(q1) + i = Len(cs) - Len(q) + i
          /\ Len(cs) - Len(q) + i \in 1 .. Len(cs)
      BY <1>1, <1>2, <2>2
    <3>2. q1[i] = cs[Len(cs) - Len(q) + i]
      BY <1>2, <2>2
    <3> QED BY <1>1, <3>1, <3>2
  <2> QED BY <1>2, <2>1, <2>2
<1> QED BY <1>1, <1>2, <1>3 DEF cs1, q1

\* A content taken from the channel is the first one after those taken before.
LEMMA QueuedTake ==
    ASSUME NEW cs \in Seq(Contents), NEW q \in Seq(Contents), q # <<>>, Len(q) <= Len(cs),
           \A i \in DOMAIN q : q[i] = cs[Len(cs) - Len(q) + i]
    PROVE  /\ Len(Tail(q)) <= Len(cs)
           /\ \A i \in DOMAIN Tail(q) : Tail(q)[i] = cs[Len(cs) - Len(Tail(q)) + i]
           /\ Len(cs) - Len(Tail(q)) = Len(cs) - Len(q) + 1
           /\ Head(q) = cs[Len(cs) - Len(q) + 1]
<1> DEFINE rest == Tail(q)
<1>1. /\ Len(q) \in Nat \ {0} /\ Len(cs) \in Nat /\ Len(rest) = Len(q) - 1
      /\ DOMAIN q = 1 .. Len(q) /\ DOMAIN rest = 1 .. Len(q) - 1
      /\ Head(q) = q[1]
      /\ \A i \in DOMAIN rest : i + 1 \in DOMAIN q /\ rest[i] = q[i + 1]
  BY HeadTailProperties, EmptySeq
<1> HIDE DEF rest
<1>2. ASSUME NEW i \in DOMAIN rest PROVE rest[i] = cs[Len(cs) - Len(rest) + i]
  <2>1. Len(cs) - Len(rest) + i = Len(cs) - Len(q) + (i + 1)
    BY <1>1
  <2>2. rest[i] = cs[Len(cs) - Len(q) + (i + 1)]
    BY <1>1
  <2> QED BY <2>1, <2>2
<1>3. Head(q) = cs[Len(cs) - Len(q) + 1] /\ Len(cs) - Len(rest) = Len(cs) - Len(q) + 1
  BY <1>1
<1>4. Len(rest) <= Len(cs)
  BY <1>1
<1> QED BY <1>2, <1>3, <1>4 DEF rest

LEMMA QueuedNext == TypeOK /\ Queued /\ [Next]_vars => Queued'
<1> SUFFICES ASSUME TypeOK, Queued, [Next]_vars PROVE Queued'
  OBVIOUS
<1>1. /\ rx \in [Nodes -> Seq(Contents)] /\ copied \in [Peers -> Seq(Contents)]
      /\ Nodes \subseteq Peers
  BY DEF TypeOK, Peers
<1> DEFINE Behind(q, cs) == /\ Len(q) <= Len(cs)
                            /\ \A i \in DOMAIN q : q[i] = cs[Len(cs) - Len(q) + i]
<1>2. \A n \in Nodes : Behind(rx[n], copied[n])
  BY DEF Queued
<1> SUFFICES ASSUME NEW n \in Nodes PROVE Behind(rx'[n], copied'[n])
  BY DEF Queued
<1> HIDE DEF Behind
<1>3. CASE rx'[n] = rx[n] /\ copied'[n] = copied[n]
  BY <1>2, <1>3
<1>4. ASSUME NEW k \in Nodes, NEW c \in Contents, LocalCopy(k, c)
      PROVE  Behind(rx'[n], copied'[n])
  <2>1. CASE k = n
    <3>1. rx'[n] = Append(rx[n], c) /\ copied'[n] = Append(copied[n], c)
      BY <1>1, <1>4, <2>1 DEF LocalCopy
    <3>2. rx[n] \in Seq(Contents) /\ copied[n] \in Seq(Contents)
      BY <1>1
    <3>3. Behind(Append(rx[n], c), Append(copied[n], c))
      BY <1>2, <3>2, QueuedCopy DEF Behind
    <3> QED BY <3>1, <3>3
  <2>2. CASE k # n
    BY <1>1, <1>3, <1>4, <2>2 DEF LocalCopy
  <2> QED BY <2>1, <2>2
<1>5. ASSUME NEW k \in Nodes, TakeDirect(k) \/ TakeChunked(k)
      PROVE  Behind(rx'[n], copied'[n])
  <2>1. /\ rx[k] # <<>> /\ rx' = [rx EXCEPT ![k] = Tail(@)] /\ UNCHANGED copied
    BY <1>5 DEF TakeDirect, TakeChunked
  <2>2. CASE k = n
    <3>1. rx'[n] = Tail(rx[n]) /\ copied'[n] = copied[n] /\ rx[n] # <<>>
      BY <1>1, <2>1, <2>2
    <3>2. rx[n] \in Seq(Contents) /\ copied[n] \in Seq(Contents)
      BY <1>1
    <3> QED BY <1>2, <3>1, <3>2, QueuedTake DEF Behind
  <2>3. CASE k # n
    BY <1>1, <1>3, <2>1, <2>3
  <2> QED BY <2>2, <2>3
<1>6. ASSUME NEW k \in Nodes, Restart(k) PROVE Behind(rx'[n], copied'[n])
  <2>1. rx' = [rx EXCEPT ![k] = <<>>] /\ UNCHANGED copied
    BY <1>6 DEF Restart
  <2>2. CASE k = n
    <3>1. rx'[n] = <<>> /\ copied'[n] = copied[n] /\ copied[n] \in Seq(Contents)
      BY <1>1, <2>1, <2>2
    <3> QED BY <3>1 DEF Behind
  <2>3. CASE k # n
    BY <1>1, <1>3, <2>1, <2>3
  <2> QED BY <2>2, <2>3
<1>7. ASSUME NEW p \in LegacyNodes, NEW c \in Contents, LegacyCopy(p, c)
      PROVE  Behind(rx'[n], copied'[n])
  <2>1. p # n /\ p \in Peers
    BY PeersAssumption DEF Peers
  <2> QED BY <1>1, <1>3, <1>7, <2>1 DEF LegacyCopy
<1>8. CASE UNCHANGED <<rx, copied>>
  BY <1>3, <1>8
<1>9. \/ UNCHANGED <<rx, copied>>
      \/ \E k \in Nodes : \/ \E c \in Contents : LocalCopy(k, c)
                          \/ TakeDirect(k) \/ TakeChunked(k) \/ Restart(k)
      \/ \E p \in LegacyNodes, c \in Contents : LegacyCopy(p, c)
  BY DEF Next, vars, PublishPending, OtherEvent, TimeOut, ReceiveGossip, DropDuplicate, Lose
<1> QED BY <1>4, <1>5, <1>6, <1>7, <1>8, <1>9

-------------------------------------------------------------------------------
(* The steps of InStep.                                                      *)

LEMMA SliceTypes ==
    ASSUME TypeOK, Queued, NEW own, AllBelongs(own), NEW p \in Peers, NEW n \in Nodes
    PROVE  /\ copied[p] \in Seq(Contents)
           /\ Taken(p) \in 0 .. Len(copied[p]) /\ Taken(p) \in Nat
           /\ Unsent(p) \in Seq(MessagesOf(own))
           /\ link[p][n] \in Seq(MessagesOf(own))
           /\ delivered[n] \in Seq([from : Peers, content : Contents \cup {Garbage}])
<1>1. copied[p] \in Seq(Contents) /\ Len(copied[p]) \in Nat
  BY DEF TypeOK
<1>2. p \in Nodes => rx[p] \in Seq(Contents) /\ Len(rx[p]) \in Nat /\ Len(rx[p]) <= Len(copied[p])
  BY DEF TypeOK, Queued
<1>3. Taken(p) \in 0 .. Len(copied[p]) /\ Taken(p) \in Nat
  <2>1. CASE p \in Nodes
    <3>1. Taken(p) = Len(copied[p]) - Len(rx[p])
      BY <2>1 DEF Taken
    <3>2. \A a, b \in Nat : b <= a => a - b \in 0 .. a /\ a - b \in Nat
      OBVIOUS
    <3>3. Len(copied[p]) \in Nat /\ Len(rx[p]) \in Nat /\ Len(rx[p]) <= Len(copied[p])
      BY <1>1, <1>2, <2>1
    <3> QED BY <3>1, <3>2, <3>3
  <2>2. CASE p \notin Nodes
    <3>1. Taken(p) = Len(copied[p])
      BY <2>2 DEF Taken
    <3> QED BY <1>1, <3>1
  <2> QED BY <2>1, <2>2
<1>4. Unsent(p) \in Seq(MessagesOf(own))
  BY DEF AllBelongs, Unsent
<1> QED BY <1>1, <1>3, <1>4 DEF TypeOK, AllBelongs

\* A step that leaves all of it alone.
LEMMA FlowsFrame ==
    ASSUME NEW own, NEW p \in Peers, NEW n \in Nodes, FlowsOn(own, p, n),
           copied'[p] = copied[p], p \in Nodes => rx'[p] = rx[p],
           p \in Nodes => pending_chunks'[p] = pending_chunks[p],
           link'[p][n] = link[p][n], delivered'[n] = delivered[n]
    PROVE  FlowsOn(own, p, n)'
<1>1. Taken(p)' = Taken(p) /\ Unsent(p)' = Unsent(p)
  BY DEF Taken, Unsent
<1> QED BY <1>1 DEF FlowsOn

\* A content is returned for the messages that end one, and it is the one they end.
LEMMA ReturnsCarried ==
    ASSUME NEW D, NEW own \in [D -> Chunked], NEW states \in StatesOf(own),
           NEW m \in MessagesOf(own), ContentOf(states, m) # <<>>
    PROVE  Final(m) /\ ContentOf(states, m)[1] = Carried(m, own)
<1>1. m \in NetworkMessage /\ Belongs(m, own)
  BY DEF MessagesOf
<1>2. CASE m.type \in {"Direct", "Legacy"}
  <2>1. ContentOf(states, m) = <<m.content>>
    BY <1>2 DEF ContentOf
  <2> QED BY <1>2, <2>1 DEF Final, Carried
<1>3. CASE m.type = "ChunkEnd"
  <2> DEFINE t == m.transfer_id
             st == states[t]
  <2>1. t \in TransferIds /\ t \in D
    BY <1>1, <1>3 DEF NetworkMessage, Belongs
  <2>2. st # NoTransfer /\ Reassemble(st) # <<>>
    BY <1>3 DEF ContentOf
  <2>3. st.data_hash = sha256_hex(Raw[own[t]])
    BY <2>1, <2>2 DEF StatesOf, PartOf
  <2>4. Reassemble(st) = <<FullData(st)>> /\ sha256_hex(FullData(st)) = st.data_hash
    BY <2>2 DEF Reassemble
  <2>5. ContentOf(states, m) = <<FromBytes(FullData(st))>>
    BY <1>3, <2>2, <2>4 DEF ContentOf
  <2>6. FullData(st) = Raw[own[t]]
    BY <2>3, <2>4 DEF sha256_hex
  <2>7. FromBytes(Raw[own[t]]) = own[t]
    <3>1. own[t] \in Contents
      BY <2>1 DEF Chunked
    <3> QED BY <3>1, RawAssumption DEF FromBytes
  <2> QED BY <1>3, <2>5, <2>6, <2>7 DEF Final, Carried
<1>4. CASE m.type \notin {"Direct", "Legacy", "ChunkEnd"}
  BY <1>4 DEF ContentOf
<1> QED BY <1>2, <1>3, <1>4

\* Of the messages of a transfer only the last ends its content.
LEMMA LastOfChunks ==
    ASSUME NEW own, NEW c \in Chunked, NEW t \in DOMAIN own, own[t] = c
    PROVE  LastIs(own, ChunkMessages(c, t), c)
<1> DEFINE data == Raw[c]
           start == ChunkStart(t, TotalChunks(data), sha256_hex(data))
           chunks == [i \in 1 .. NumPieces(data) |-> Chunk(t, i - 1, Piece(data, i - 1))]
           end == ChunkEnd(t)
           msgs == <<start>> \o chunks \o <<end>>
           k == NumPieces(data)
<1>1. k \in Nat
  BY ChunkedData, AnnouncedIsCut
<1>2. ~Final(start) /\ Carried(end, own) = c
  BY DEF Final, Carried, ChunkStart, ChunkEnd
<1>3. \A i \in 1 .. k : ~Final(chunks[i])
  BY DEF Final, Chunk
<1>4. chunks \in Seq({chunks[i] : i \in 1 .. k}) /\ Len(chunks) = k
  <2>1. chunks = [i \in 1 .. k |-> chunks[i]]
    OBVIOUS
  <2>2. DOMAIN chunks = 1 .. k
    OBVIOUS
  <2> HIDE DEF chunks, k
  <2> QED BY <1>1, <2>1, <2>2, IsASeq
<1> DEFINE S == {chunks[i] : i \in 1 .. k} \cup {start, end}
<1>5. chunks \in Seq(S) /\ <<start>> \in Seq(S) /\ <<end>> \in Seq(S)
  <2> HIDE DEF chunks, k, start, end
  <2> QED BY <1>4
<1> HIDE DEF start, chunks, end, k, S
<1>6. /\ <<start>> \o chunks \in Seq(S) /\ Len(<<start>> \o chunks) = 1 + k
      /\ \A i \in 1 .. 1 + k : (<<start>> \o chunks)[i] = IF i <= 1 THEN start ELSE chunks[i - 1]
  BY <1>1, <1>4, <1>5, ConcatProperties
<1> DEFINE most == <<start>> \o chunks
<1> HIDE DEF most
<1>7. /\ most \o <<end>> \in Seq(S) /\ Len(most \o <<end>>) = k + 2
      /\ \A i \in 1 .. k + 2 : (most \o <<end>>)[i] = IF i <= k + 1 THEN most[i] ELSE end
  BY <1>1, <1>5, <1>6, ConcatProperties DEF most
<1> DEFINE all == most \o <<end>>
<1> HIDE DEF all
<1>8. ASSUME NEW i \in DOMAIN all, Final(all[i]) PROVE i = Len(all) /\ Carried(all[i], own) = c
  <2>1. i \in 1 .. k + 2 /\ Len(all) = k + 2
    BY <1>7 DEF all
  <2>2. CASE i = k + 2
    BY <1>1, <1>2, <1>7, <2>1, <2>2 DEF all
  <2>3. CASE i = 1
    BY <1>1, <1>2, <1>6, <1>7, <1>8, <2>3 DEF all, most
  <2>4. CASE i \in 2 .. k + 1
    <3>1. i - 1 \in 1 .. k /\ i <= k + 1 /\ ~(i <= 1)
      BY <1>1, <2>4
    <3>2. all[i] = chunks[i - 1]
      BY <1>1, <1>6, <1>7, <2>1, <3>1 DEF all, most
    <3> QED BY <1>3, <1>8, <3>1, <3>2 DEF k, chunks
  <2> QED BY <1>1, <2>1, <2>2, <2>3, <2>4
<1>9. ChunkMessages(c, t) = all
  BY DEF ChunkMessages, all, most, start, chunks, end
<1> QED BY <1>8, <1>9 DEF LastIs

\* What publish does to a link.
LEMMA PublishLinks ==
    ASSUME TypeOK, NEW k \in Nodes, NEW m, publish(k, m), NEW p \in Peers, NEW n \in Nodes
    PROVE  \/ link'[p][n] = link[p][n]
           \/ p = k /\ link'[p][n] = Append(link[p][n], m)
<1>1. link \in [Peers -> [Nodes -> Seq(NetworkMessage)]] /\ k \in Peers
  BY DEF TypeOK, Peers
<1>2. CASE link' = Sent(k, m)
  BY <1>1, <1>2 DEF Sent
<1>3. CASE UNCHANGED link
  BY <1>3
<1> QED BY <1>2, <1>3 DEF publish

\* A node takes a content: it is the next of the copied ones.
LEMMA TakeTaken ==
    ASSUME TypeOK, Queued, NEW k \in Nodes, rx[k] # <<>>,
           rx' = [rx EXCEPT ![k] = Tail(@)], UNCHANGED copied
    PROVE  Taken(k)' = Taken(k) + 1 /\ Head(rx[k]) = copied[k][Taken(k) + 1]
<1>1. k \in Peers /\ rx[k] \in Seq(Contents) /\ copied[k] \in Seq(Contents)
  BY DEF TypeOK, Peers
<1>2. rx'[k] = Tail(rx[k])
  BY DEF TypeOK
<1>3. /\ Len(copied[k]) - Len(Tail(rx[k])) = Len(copied[k]) - Len(rx[k]) + 1
      /\ Head(rx[k]) = copied[k][Len(copied[k]) - Len(rx[k]) + 1]
  BY <1>1, QueuedTake DEF Queued
<1> QED BY <1>2, <1>3 DEF Taken

LEMMA StepLocalCopy ==
    ASSUME TypeOK, Queued, NEW own, AllBelongs(own),
           \A p \in Peers, n \in Nodes : FlowsOn(own, p, n),
           NEW k \in Nodes, NEW c \in Contents, LocalCopy(k, c), NEW p \in Peers, NEW n \in Nodes
    PROVE  FlowsOn(own, p, n)'
<1>1. /\ copied \in [Peers -> Seq(Contents)] /\ rx \in [Nodes -> Seq(Contents)]
      /\ copied' = [copied EXCEPT ![k] = Append(@, c)] /\ rx' = [rx EXCEPT ![k] = Append(@, c)]
      /\ UNCHANGED <<pending_chunks, link, delivered>> /\ k \in Peers
  BY DEF TypeOK, LocalCopy, Peers
<1>2. CASE p # k
  BY <1>1, <1>2, FlowsFrame
<1>3. CASE p = k
  <2>1. copied'[p] = Append(copied[p], c) /\ rx'[p] = Append(rx[p], c)
    BY <1>1, <1>3
  <2>2. Len(copied'[p]) = Len(copied[p]) + 1 /\ Len(rx'[p]) = Len(rx[p]) + 1
    BY <1>1, <1>3, <2>1
  <2>3. Len(copied[p]) \in Nat /\ Len(rx[p]) \in Nat
    BY <1>1, <1>3
  <2>4. Taken(p)' = Taken(p)
    BY <1>3, <2>2, <2>3 DEF Taken
  <2>5. Unsent(p)' = Unsent(p) /\ link'[p][n] = link[p][n] /\ delivered'[n] = delivered[n]
    BY <1>1 DEF Unsent
  <2>6. copied[p] \in Seq(Contents) /\ Taken(p) \in 0 .. Len(copied[p])
    BY SliceTypes
  <2>7. Flows(own, Append(copied[p], c), Taken(p), Unsent(p), link[p][n], delivered[n], p)
    BY <2>6, FlowsCopy DEF FlowsOn
  <2> QED BY <2>1, <2>4, <2>5, <2>7 DEF FlowsOn
<1> QED BY <1>2, <1>3

LEMMA StepLegacyCopy ==
    ASSUME TypeOK, Queued, NEW own, AllBelongs(own),
           \A p \in Peers, n \in Nodes : FlowsOn(own, p, n),
           NEW k \in LegacyNodes, NEW c \in Contents, LegacyCopy(k, c),
           NEW p \in Peers, NEW n \in Nodes
    PROVE  FlowsOn(own, p, n)'
<1>1. /\ copied \in [Peers -> Seq(Contents)]
      /\ link \in [Peers -> [Nodes -> Seq(NetworkMessage)]]
      /\ copied' = [copied EXCEPT ![k] = Append(@, c)] /\ link' = Sent(k, Legacy(c))
      /\ UNCHANGED <<rx, pending_chunks, delivered>> /\ k \in Peers /\ k \notin Nodes
  BY PeersAssumption DEF TypeOK, LegacyCopy, Peers
<1>2. CASE p # k
  <2>1. link'[p][n] = link[p][n] /\ copied'[p] = copied[p]
    BY <1>1, <1>2 DEF Sent
  <2> QED BY <1>1, <2>1, FlowsFrame
<1>3. CASE p = k
  <2> DEFINE m == Legacy(c)
             cs == Append(copied[p], c)
             msgs == link[p][n]
             taken == Taken(p)
             dl == delivered[n]
  <2>1. copied'[p] = cs /\ n # k
    BY <1>1, <1>3
  <2>2. link'[p][n] = Append(msgs, m)
    BY <1>1, <1>3, <2>1 DEF Sent
  <2>3. /\ taken = Len(copied[p]) /\ Taken(p)' = Len(copied'[p])
        /\ Unsent(p) = <<>> /\ Unsent(p)' = <<>> /\ delivered'[n] = dl
    BY <1>1, <1>3 DEF Taken, Unsent
  <2>4. Len(cs) = taken + 1 /\ cs[taken + 1] = c /\ taken \in Nat
    BY <1>1, <2>3
  <2>5. copied[p] \in Seq(Contents) /\ taken \in 0 .. Len(copied[p]) /\ msgs \in Seq(MessagesOf(own))
    BY SliceTypes
  <2>6. Flows(own, cs, taken, <<>>, msgs, dl, p)
    BY <2>3, <2>5, FlowsCopy DEF FlowsOn
  <2>7. m \in MessagesOf(own) /\ Carried(m, own) = c
    BY DEF Legacy, MessagesOf, Belongs, NetworkMessage, Carried
  <2> HIDE DEF m, cs, msgs, taken, dl
  <2>8. /\ <<m>> \in Seq(MessagesOf(own)) /\ <<m>> # <<>>
        /\ Head(<<m>>) = m /\ Tail(<<m>>) = <<>>
    BY <2>7
  <2>9. LastIs(own, <<m>>, cs[taken + 1])
    BY <2>4, <2>7 DEF LastIs
  <2>10. Flows(own, cs, taken + 1, <<m>>, msgs, dl, p)
    BY <2>4, <2>6, <2>9, FlowsTake
  <2>11. Flows(own, cs, taken + 1, <<>>, Append(msgs, m), dl, p)
    <3> DEFINE pend == <<m>>
    <3> HIDE DEF pend
    <3>1. taken + 1 \in Nat /\ msgs \in Seq(MessagesOf(own))
      BY <2>4, <2>5
    <3>2. Flows(own, cs, taken + 1, Tail(pend), Append(msgs, Head(pend)), dl, p)
      BY <2>8, <2>10, <3>1, FlowsPublish DEF pend
    <3> QED BY <2>8, <3>2 DEF pend
  <2>12. Taken(p)' = taken + 1
    BY <2>1, <2>3, <2>4
  <2> QED BY <2>1, <2>2, <2>3, <2>11, <2>12 DEF FlowsOn
<1> QED BY <1>2, <1>3

LEMMA StepPublishPending ==
    ASSUME TypeOK, Queued, NEW own, AllBelongs(own),
           \A p \in Peers, n \in Nodes : FlowsOn(own, p, n),
           NEW k \in Nodes, PublishPending(k), NEW p \in Peers, NEW n \in Nodes
    PROVE  FlowsOn(own, p, n)'
<1>1. /\ pending_chunks \in [Nodes -> Seq(NetworkMessage)] /\ pending_chunks[k] # <<>>
      /\ pending_chunks' = [pending_chunks EXCEPT ![k] = Tail(@)]
      /\ publish(k, Head(pending_chunks[k])) /\ UNCHANGED <<copied, rx, delivered>>
  BY DEF TypeOK, PublishPending
<1>2. \/ link'[p][n] = link[p][n]
      \/ p = k /\ link'[p][n] = Append(link[p][n], Head(pending_chunks[k]))
  BY <1>1, PublishLinks
<1>3. CASE p # k
  BY <1>1, <1>2, <1>3, FlowsFrame
<1>4. CASE p = k
  <2>1. Unsent(p) = pending_chunks[k] /\ Unsent(p)' = Tail(pending_chunks[k]) /\ Taken(p)' = Taken(p)
    BY <1>1, <1>4 DEF Unsent, Taken
  <2>2. /\ Taken(p) \in Nat /\ Unsent(p) \in Seq(MessagesOf(own)) /\ Unsent(p) # <<>>
        /\ link[p][n] \in Seq(MessagesOf(own))
    BY <1>1, <2>1, SliceTypes
  <2>3. /\ Flows(own, copied[p], Taken(p), Tail(Unsent(p)), link[p][n], delivered[n], p)
        /\ Flows(own, copied[p], Taken(p), Tail(Unsent(p)),
                 Append(link[p][n], Head(Unsent(p))), delivered[n], p)
    BY <2>2, FlowsPublish DEF FlowsOn
  <2> QED BY <1>1, <1>2, <2>1, <2>3 DEF FlowsOn
<1> QED BY <1>3, <1>4

\* A node takes a content from the channel, whose messages are msgs, and publishes
\* the first of them.
LEMMA StepTake ==
    ASSUME TypeOK, Queued, NEW own, AllBelongs(own),
           \A p \in Peers, n \in Nodes : FlowsOn(own, p, n),
           NEW new, \A t \in DOMAIN own : t \in DOMAIN new /\ new[t] = own[t],
           MessagesOf(own) \subseteq MessagesOf(new),
           NEW k \in Nodes, Waiting(k), rx[k] # <<>>, rx' = [rx EXCEPT ![k] = Tail(@)],
           NEW msgs \in Seq(MessagesOf(new)), msgs # <<>>, LastIs(new, msgs, Head(rx[k])),
           publish(k, Head(msgs)), pending_chunks' = [pending_chunks EXCEPT ![k] = Tail(msgs)],
           UNCHANGED <<copied, delivered>>, NEW p \in Peers, NEW n \in Nodes
    PROVE  FlowsOn(new, p, n)'
<1>1. /\ pending_chunks \in [Nodes -> Seq(NetworkMessage)] /\ rx \in [Nodes -> Seq(Contents)]
      /\ pending_chunks[k] = <<>> /\ k \in Peers
  BY DEF TypeOK, Waiting, Peers
<1>2. /\ copied[p] \in Seq(Contents) /\ Taken(p) \in Nat
      /\ Unsent(p) \in Seq(MessagesOf(own)) /\ link[p][n] \in Seq(MessagesOf(own))
  BY SliceTypes
<1>3. link[p][n] \in Seq(MessagesOf(new))
  BY <1>2
<1>4. FlowsOn(new, p, n)
  BY <1>2, FlowsOwn DEF FlowsOn
<1>5. \/ link'[p][n] = link[p][n]
      \/ p = k /\ link'[p][n] = Append(link[p][n], Head(msgs))
  BY PublishLinks
<1>6. CASE p # k
  BY <1>1, <1>4, <1>5, <1>6, FlowsFrame
<1>7. CASE p = k
  <2>1. Taken(p)' = Taken(p) + 1 /\ Head(rx[k]) = copied[p][Taken(p) + 1]
    BY <1>7, TakeTaken
  <2>2. Unsent(p) = <<>> /\ Unsent(p)' = Tail(msgs)
    BY <1>1, <1>7 DEF Unsent
  <2>3. Flows(new, copied[p], Taken(p) + 1, msgs, link[p][n], delivered[n], p)
    BY <1>2, <1>4, <2>1, <2>2, FlowsTake DEF FlowsOn
  <2>4. Taken(p) + 1 \in Nat
    BY <1>2
  <2>5. /\ Flows(new, copied[p], Taken(p) + 1, Tail(msgs), link[p][n], delivered[n], p)
        /\ Flows(new, copied[p], Taken(p) + 1, Tail(msgs),
                 Append(link[p][n], Head(msgs)), delivered[n], p)
    BY <1>3, <2>3, <2>4, FlowsPublish
  <2> QED BY <1>5, <2>1, <2>2, <2>5 DEF FlowsOn
<1> QED BY <1>6, <1>7

LEMMA StepTakeDirect ==
    ASSUME TypeOK, Queued, NEW own, AllBelongs(own),
           \A p \in Peers, n \in Nodes : FlowsOn(own, p, n),
           NEW k \in Nodes, TakeDirect(k), NEW p \in Peers, NEW n \in Nodes
    PROVE  FlowsOn(own, p, n)'
<1> DEFINE m == Direct(Head(rx[k]))
<1>1. rx[k] \in Seq(Contents) /\ rx[k] # <<>> /\ pending_chunks[k] = <<>>
  BY DEF TypeOK, TakeDirect, Waiting
<1>2. m \in MessagesOf(own) /\ Carried(m, own) = Head(rx[k])
  BY <1>1 DEF Direct, MessagesOf, Belongs, NetworkMessage, Carried
<1>3. publish(k, m)
  BY DEF TakeDirect
<1> HIDE DEF m
<1> DEFINE msgs == <<m>>
<1>4. msgs \in Seq(MessagesOf(own)) /\ msgs # <<>> /\ Head(msgs) = m /\ Tail(msgs) = <<>>
  BY <1>2
<1>5. LastIs(own, msgs, Head(rx[k]))
  BY <1>2 DEF LastIs
<1> HIDE DEF msgs
<1>6. pending_chunks' = [pending_chunks EXCEPT ![k] = Tail(msgs)]
  BY <1>1, <1>4 DEF TypeOK, TakeDirect
<1>7. /\ Waiting(k) /\ rx' = [rx EXCEPT ![k] = Tail(@)] /\ UNCHANGED <<copied, delivered>>
      /\ publish(k, Head(msgs))
  BY <1>3, <1>4 DEF TakeDirect
<1>8. \A t \in DOMAIN own : t \in DOMAIN own /\ own[t] = own[t]
  OBVIOUS
<1> QED BY <1>1, <1>4, <1>5, <1>6, <1>7, <1>8, StepTake

LEMMA StepTakeChunked ==
    ASSUME TypeOK, Queued, NEW own \in [1 .. uuids -> Chunked], AllBelongs(own),
           \A p \in Peers, n \in Nodes : FlowsOn(own, p, n),
           NEW k \in Nodes, TakeChunked(k),
           NEW new \in [1 .. uuids' -> Chunked], new[uuids + 1] = Head(rx[k]),
           \A t \in DOMAIN own : t \in DOMAIN new /\ new[t] = own[t],
           ChunkMessages(Head(rx[k]), uuids + 1) \in Seq(MessagesOf(new)),
           NEW p \in Peers, NEW n \in Nodes
    PROVE  FlowsOn(new, p, n)'
<1> DEFINE c == Head(rx[k])
           t == uuids + 1
           msgs == ChunkMessages(c, t)
<1>1. /\ uuids \in Nat /\ uuids' = t /\ t \in DOMAIN new /\ t \in TransferIds
  BY SizeAssumption DEF TypeOK, TakeChunked, TransferIds
<1>2. c \in Chunked
  <2>1. rx[k] \in Seq(Contents) /\ rx[k] # <<>>
    BY DEF TypeOK, TakeChunked
  <2> QED BY <2>1 DEF Chunked, TakeChunked
<1>3. LastIs(new, msgs, c)
  BY <1>1, <1>2, LastOfChunks
<1>4. msgs # <<>>
  BY <1>1, <1>2, ChunkMessagesBelong
<1>5. MessagesOf(own) \subseteq MessagesOf(new)
  BY DEF MessagesOf, Belongs
<1>6. /\ Waiting(k) /\ rx[k] # <<>> /\ rx' = [rx EXCEPT ![k] = Tail(@)]
      /\ UNCHANGED <<copied, delivered>>
      /\ publish(k, Head(msgs))
      /\ pending_chunks' = [pending_chunks EXCEPT ![k] = @ \o Tail(msgs)]
  BY DEF TakeChunked
<1> HIDE DEF msgs
<1>7. Tail(msgs) \in Seq(MessagesOf(new))
  BY <1>4, HeadTailProperties DEF msgs
<1>8. <<>> \o Tail(msgs) = Tail(msgs)
  BY <1>7, ConcatEmptySeq
<1>9. pending_chunks' = [pending_chunks EXCEPT ![k] = Tail(msgs)]
  BY <1>6, <1>8 DEF Waiting
<1>10. msgs \in Seq(MessagesOf(new))
  BY DEF msgs
<1> QED BY <1>3, <1>4, <1>5, <1>6, <1>9, <1>10, StepTake

LEMMA StepRestart ==
    ASSUME TypeOK, Queued, NEW own, AllBelongs(own),
           \A p \in Peers, n \in Nodes : FlowsOn(own, p, n),
           NEW k \in Nodes, Restart(k), NEW p \in Peers, NEW n \in Nodes
    PROVE  FlowsOn(own, p, n)'
<1>1. /\ rx \in [Nodes -> Seq(Contents)] /\ pending_chunks \in [Nodes -> Seq(NetworkMessage)]
      /\ link \in [Peers -> [Nodes -> Seq(NetworkMessage)]]
      /\ rx' = [rx EXCEPT ![k] = <<>>] /\ pending_chunks' = [pending_chunks EXCEPT ![k] = <<>>]
      /\ link' = [q \in Peers |-> [link[q] EXCEPT ![k] = <<>>]]
      /\ UNCHANGED <<copied, delivered>>
  BY DEF TypeOK, Restart
<1>2. copied[p] \in Seq(Contents) /\ Taken(p) \in 0 .. Len(copied[p]) /\ Taken(p) \in Nat
  BY SliceTypes
<1>3. link'[p][n] = IF n = k THEN <<>> ELSE link[p][n]
  BY <1>1
<1>4. Flows(own, copied[p], Taken(p), Unsent(p), link'[p][n], delivered[n], p)
  BY <1>3, FlowsCut DEF FlowsOn
<1>5. CASE p # k
  <2>1. Taken(p)' = Taken(p) /\ Unsent(p)' = Unsent(p)
    BY <1>1, <1>5 DEF Taken, Unsent
  <2> QED BY <1>1, <1>4, <2>1 DEF FlowsOn
<1>6. CASE p = k
  <2>1. rx'[p] = <<>> /\ pending_chunks'[p] = <<>>
    BY <1>1, <1>6
  <2>2. Taken(p)' = Len(copied[p]) - 0 /\ Unsent(p)' = <<>>
    BY <1>1, <1>6, <2>1 DEF Taken, Unsent
  <2>3. Taken(p)' \in Nat /\ Taken(p) <= Taken(p)'
    BY <1>2, <2>2
  <2> HIDE DEF Taken, Unsent
  <2>4. Flows(own, copied[p], Taken(p)', <<>>, link'[p][n], delivered[n], p)
    BY <1>2, <1>4, <2>3, FlowsSkip
  <2> QED BY <1>1, <2>2, <2>4 DEF FlowsOn
<1> QED BY <1>5, <1>6

LEMMA StepDrop ==
    ASSUME TypeOK, Queued, NEW own, AllBelongs(own), ~Reordering,
           \A p \in Peers, n \in Nodes : FlowsOn(own, p, n),
           NEW q \in Peers, NEW k \in Nodes, DropDuplicate(q, k) \/ Lose(q, k),
           NEW p \in Peers, NEW n \in Nodes
    PROVE  FlowsOn(own, p, n)'
<1>1. /\ link \in [Peers -> [Nodes -> Seq(NetworkMessage)]] /\ link[q][k] # <<>>
      /\ link' = [link EXCEPT ![q][k] = Tail(@)]
      /\ UNCHANGED <<copied, rx, pending_chunks, delivered>>
  BY DEF TypeOK, DropDuplicate, Lose, Arrived
<1>2. link'[p][n] = IF p = q /\ n = k THEN Tail(link[p][n]) ELSE link[p][n]
  BY <1>1
<1>3. CASE ~(p = q /\ n = k)
  BY <1>1, <1>2, <1>3, FlowsFrame
<1>4. CASE p = q /\ n = k
  <2>1. Taken(p) \in Nat /\ link[p][n] \in Seq(MessagesOf(own)) /\ link[p][n] # <<>>
    BY <1>1, <1>4, SliceTypes
  <2>2. Taken(p)' = Taken(p) /\ Unsent(p)' = Unsent(p)
    BY <1>1 DEF Taken, Unsent
  <2>3. Flows(own, copied[p], Taken(p), Unsent(p), Tail(link[p][n]), delivered[n], p)
    BY <2>1, FlowsDrop DEF FlowsOn
  <2> QED BY <1>1, <1>2, <1>4, <2>2, <2>3 DEF FlowsOn
<1> QED BY <1>3, <1>4

LEMMA StepReceive ==
    ASSUME TypeOK, Queued, NEW own \in [1 .. uuids -> Chunked], AllBelongs(own), ~Reordering,
           \A p \in Peers, n \in Nodes : FlowsOn(own, p, n),
           NEW q \in Peers, NEW k \in Nodes, ReceiveGossip(q, k),
           TypeOK', NEW p \in Peers, NEW n \in Nodes
    PROVE  FlowsOn(own, p, n)'
<1> DEFINE m == link[q][k][1]
           out == ContentOf(chunk_states[k], m)
           entry == [from |-> q, content |-> out[1]]
           Entry == [from : Peers, content : Contents \cup {Garbage}]
<1>1. /\ link \in [Peers -> [Nodes -> Seq(NetworkMessage)]]
      /\ delivered \in [Nodes -> Seq(Entry)]
      /\ chunk_states[k] \in StatesOf(own)
  BY DEF TypeOK, AllBelongs
<1>2. /\ 1 \in 1 .. Len(link[q][k])
      /\ delivered' = [delivered EXCEPT ![k] = IF out = <<>> THEN @ ELSE Append(@, entry)]
      /\ link' = [link EXCEPT ![q][k] = Tail(@)]
      /\ UNCHANGED <<copied, rx, pending_chunks>>
  BY DEF ReceiveGossip, Arrivable, Arrived
<1>3. link[q][k] \in Seq(MessagesOf(own))
  BY SliceTypes
<1>4. /\ link[q][k] # <<>> /\ m = Head(link[q][k]) /\ m \in MessagesOf(own)
  BY <1>2, <1>3
<1>5. /\ Taken(p)' = Taken(p) /\ Unsent(p)' = Unsent(p) /\ copied'[p] = copied[p]
      /\ link'[p][n] = IF p = q /\ n = k THEN Tail(link[p][n]) ELSE link[p][n]
  BY <1>1, <1>2 DEF Taken, Unsent
<1>6. out # <<>> => Final(m) /\ out[1] = Carried(m, own)
  BY <1>1, <1>4, ReturnsCarried
<1>7. out # <<>> => out[1] \in Contents \cup {Garbage}
  <2>1. chunk_states[k] \in [TransferIds -> ChunkReceiveState \cup {NoTransfer}] /\ m \in NetworkMessage
    BY <1>1, <1>4 DEF StatesOf, MessagesOf
  <2>2. out \in Seq(Contents \cup {Garbage})
    BY <2>1, ContentOfProperties
  <2> HIDE DEF out
  <2> QED BY <2>2
<1> HIDE DEF m, out
<1>8. out # <<>> => entry \in Entry /\ entry.from = q /\ entry.content = out[1]
  BY <1>7
<1> HIDE DEF entry, Entry
<1>9. /\ delivered[n] \in Seq(Entry)
      /\ delivered'[n] = IF n = k /\ out # <<>> THEN Append(delivered[n], entry) ELSE delivered[n]
  BY <1>1, <1>2
<1>10. /\ Taken(p) \in Nat /\ link[p][n] \in Seq(MessagesOf(own))
  BY SliceTypes
<1>11. CASE n # k
  BY <1>5, <1>9, <1>11 DEF FlowsOn
<1>12. CASE n = k /\ p # q
  <2>1. CASE out = <<>>
    BY <1>5, <1>9, <1>12, <2>1 DEF FlowsOn
  <2>2. CASE out # <<>>
    <3>1. Flows(own, copied[p], Taken(p), Unsent(p), link[p][n], Append(delivered[n], entry), p)
      BY <1>8, <1>9, <1>12, <2>2, FlowsOther DEF FlowsOn
    <3> QED BY <1>5, <1>9, <1>12, <2>2, <3>1 DEF FlowsOn
  <2> QED BY <2>1, <2>2
<1>13. CASE n = k /\ p = q
  <2>1. CASE out = <<>>
    <3>1. Flows(own, copied[p], Taken(p), Unsent(p), Tail(link[p][n]), delivered[n], p)
      BY <1>4, <1>10, <1>13, FlowsDrop DEF FlowsOn
    <3> QED BY <1>5, <1>9, <1>13, <2>1, <3>1 DEF FlowsOn
  <2>2. CASE out # <<>>
    <3>1. /\ entry \in Entry /\ entry.from = p /\ entry.content = Carried(Head(link[p][n]), own)
          /\ Final(Head(link[p][n])) /\ link[p][n] # <<>>
      BY <1>4, <1>6, <1>8, <1>13, <2>2
    <3>2. Flows(own, copied[p], Taken(p), Unsent(p), Tail(link[p][n]),
                Append(delivered[n], entry), p)
      BY <1>9, <1>10, <3>1, FlowsDeliver DEF FlowsOn
    <3> QED BY <1>5, <1>9, <1>13, <2>2, <3>2 DEF FlowsOn
  <2> QED BY <2>1, <2>2
<1> QED BY <1>11, <1>12, <1>13

\* Every step of the specification keeps the places.
LEMMA InStepNext ==
    TypeOK /\ TypeOK' /\ Queued /\ InStep /\ [Next]_vars => InStep'
<1> SUFFICES ASSUME TypeOK, TypeOK', Queued, InStep, [Next]_vars, ~Reordering
             PROVE  \E own \in [1 .. uuids' -> Chunked] :
                        AllBelongs(own)' /\ \A p \in Peers, n \in Nodes : FlowsOn(own, p, n)'
  BY DEF InStep
<1>1. PICK own \in [1 .. uuids -> Chunked] :
        AllBelongs(own) /\ \A p \in Peers, n \in Nodes : FlowsOn(own, p, n)
  BY DEF InStep
<1>2. ASSUME NEW k \in Nodes, TakeChunked(k)
      PROVE  \E new \in [1 .. uuids' -> Chunked] :
                AllBelongs(new)' /\ \A p \in Peers, n \in Nodes : FlowsOn(new, p, n)'
  <2>1. PICK new \in [1 .. uuids' -> Chunked] :
            /\ AllBelongs(new)'
            /\ new[uuids + 1] = Head(rx[k])
            /\ \A t \in DOMAIN own : t \in DOMAIN new /\ new[t] = own[t]
            /\ ChunkMessages(Head(rx[k]), uuids + 1) \in Seq(MessagesOf(new))
    BY <1>1, <1>2, TransfersTakeChunked
  <2>2. ASSUME NEW p \in Peers, NEW n \in Nodes PROVE FlowsOn(new, p, n)'
    BY <1>1, <1>2, <2>1, StepTakeChunked
  <2> QED BY <2>1, <2>2
<1>3. CASE UNCHANGED uuids
  <2>1. AllBelongs(own)'
    BY <1>1, <1>3, TransfersKept
  <2>2. ASSUME NEW p \in Peers, NEW n \in Nodes PROVE FlowsOn(own, p, n)'
    <3>1. CASE UNCHANGED <<copied, rx, pending_chunks, link, delivered>>
      BY <1>1, <3>1, FlowsFrame
    <3>2. ASSUME NEW k \in Nodes, NEW c \in Contents, LocalCopy(k, c) PROVE FlowsOn(own, p, n)'
      BY <1>1, <3>2, StepLocalCopy
    <3>3. ASSUME NEW k \in LegacyNodes, NEW c \in Contents, LegacyCopy(k, c)
          PROVE  FlowsOn(own, p, n)'
      BY <1>1, <3>3, StepLegacyCopy
    <3>4. ASSUME NEW k \in Nodes, PublishPending(k) \/ TakeDirect(k) \/ Restart(k)
          PROVE  FlowsOn(own, p, n)'
      BY <1>1, <3>4, StepPublishPending, StepTakeDirect, StepRestart
    <3>5. ASSUME NEW q \in Peers, NEW k \in Nodes, ReceiveGossip(q, k) PROVE FlowsOn(own, p, n)'
      BY <1>1, <3>5, StepReceive
    <3>6. ASSUME NEW q \in Peers, NEW k \in Nodes, DropDuplicate(q, k) \/ Lose(q, k)
          PROVE  FlowsOn(own, p, n)'
      BY <1>1, <3>6, StepDrop
    <3>7. ASSUME NEW k \in Nodes PROVE ~TakeChunked(k)
      BY <1>3 DEF TypeOK, TakeChunked
    <3>8. ASSUME NEW k \in Nodes, OtherEvent(k) \/ \E t \in TransferIds : TimeOut(k, t)
          PROVE  UNCHANGED <<copied, rx, pending_chunks, link, delivered>>
      BY <3>8 DEF OtherEvent, TimeOut
    <3>9. CASE UNCHANGED vars
      BY <3>1, <3>9 DEF vars
    <3> QED BY <3>1, <3>2, <3>3, <3>4, <3>5, <3>6, <3>7, <3>8, <3>9 DEF Next
  <2> QED BY <1>1, <1>3, <2>1, <2>2
<1>4. UNCHANGED uuids \/ \E k \in Nodes : TakeChunked(k)
  BY DEF Next, vars, LocalCopy, PublishPending, TakeDirect, OtherEvent, TimeOut, Restart,
         LegacyCopy, ReceiveGossip, DropDuplicate, Lose
<1> QED BY <1>2, <1>3, <1>4

LEMMA InStepInit == Init => InStep
<1> SUFFICES ASSUME Init PROVE InStep
  OBVIOUS
<1>1. PICK own \in [1 .. uuids -> Chunked] : AllBelongs(own)
  BY TransfersInit DEF OneContentPerTransfer
<1>2. ASSUME NEW p \in Peers, NEW n \in Nodes PROVE FlowsOn(own, p, n)
  <2>1. link[p][n] = <<>> /\ delivered[n] = <<>> /\ Unsent(p) = <<>>
    BY DEF Init, Unsent
  <2>2. Placed(own, copied[p], Taken(p), <<>>, <<>>, <<>>, p, <<>>, <<>>)
    BY DEF Placed, Delivered, OnLink, BeforeLink, FromIn
  <2> QED BY <2>1, <2>2 DEF FlowsOn, Flows
<1> QED BY <1>1, <1>2 DEF InStep

\* On links that keep the order of messages the contents of one sender are handed to
\* the clipboard in the order they were copied, whatever is lost, timed out or restarted.
THEOREM InOrderHolds == Spec => []InOrder
<1>1. Spec => []Queued
  BY QueuedInit, QueuedNext, TypeCorrect, PTL DEF Spec
<1>2. Spec => []InStep
  BY <1>1, InStepInit, InStepNext, TypeCorrect, PTL DEF Spec
<1>3. TypeOK /\ Queued /\ InStep => InOrder
  <2> SUFFICES ASSUME TypeOK, Queued, InStep, ~Reordering, NEW p \in Peers, NEW n \in Nodes
               PROVE  \E at \in [DeliveredFrom(p, n) -> DOMAIN copied[p]] :
                        /\ \A i \in DeliveredFrom(p, n) :
                                delivered[n][i].content = copied[p][at[i]]
                        /\ \A i, j \in DeliveredFrom(p, n) : i < j => at[i] < at[j]
    BY DEF InOrder
  <2>1. PICK own \in [1 .. uuids -> Chunked] : AllBelongs(own) /\ FlowsOn(own, p, n)
    BY DEF InStep
  <2>2. PICK at, pos : Placed(own, copied[p], Taken(p), Unsent(p), link[p][n],
                              delivered[n], p, at, pos)
    BY <2>1 DEF FlowsOn, Flows
  <2>3. FromIn(delivered[n], p) = DeliveredFrom(p, n)
    BY DEF FromIn, DeliveredFrom
  <2>4. copied[p] \in Seq(Contents) /\ Taken(p) \in 0 .. Len(copied[p])
    BY <2>1, SliceTypes
  <2>5. 1 .. Taken(p) \subseteq DOMAIN copied[p]
    BY <2>4
  <2>6. at \in [DeliveredFrom(p, n) -> DOMAIN copied[p]]
    BY <2>2, <2>3, <2>5 DEF Placed
  <2> QED BY <2>2, <2>3, <2>6 DEF Placed, Delivered
<1> QED BY <1>1, <1>2, <1>3, TypeCorrect, PTL
===============================================================================
