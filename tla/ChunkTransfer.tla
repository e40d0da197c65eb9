----------------------------- MODULE ChunkTransfer -----------------------------
(* The transfer of clipboard contents between nodes: how `run` in            *)
(* src/src/network.rs turns a content into gossipsub messages                *)
(* (split_to_network_messages), publishes them one per iteration of its      *)
(* select loop, and how the receivers put them together again                *)
(* (handle_incoming_message, cleanup_stale_chunk_states).                     *)
(*                                                                           *)
(* A state of this module is a state in which every node's `run` waits in    *)
(* tokio::select!, or is about to pop pending_chunks.  Each action of a node *)
(* is one whole iteration from there: the event, the publish at the end of   *)
(* the loop body, and the cleanup at the top of the next iteration.          *)
EXTENDS Integers, Sequences, FiniteSets

CONSTANTS
    Nodes,            \* nodes that run this version of the program
    LegacyNodes,      \* peers that publish a bare ClipboardContent or bare text
    Contents,         \* clipboard contents
    FilesContents,    \* those that are ClipboardContent::Files
    Byte,             \* what a serialised content is made of
    Raw,              \* Raw[c]: the bincode bytes of content c
    Garbage,          \* what bytes that are no content's encoding decode to
    CHUNK_DATA_SIZE,
    NoTransfer,       \* "no entry under this transfer_id"
    ChannelCapacity,  \* mpsc::channel(32)
    Reordering,       \* messages may overtake each other and arrive again
    Faults,           \* losses, publish errors, time outs and restarts happen
    MaxCopies,        \* bound: MaxCopies[n] contents are copied at peer n
    MaxTransfers,     \* bound: number of uuids drawn for chunked transfers
    MaxDelivered      \* bound: contents handed to one node's clipboard

Peers == Nodes \cup LegacyNodes

ASSUME PeersAssumption == Nodes \cap LegacyNodes = {}
ASSUME RawAssumption ==
    /\ Raw \in [Contents -> Seq(Byte)]
    /\ \A c, d \in Contents : Raw[c] = Raw[d] => c = d
    /\ Garbage \notin Contents
    /\ FilesContents \subseteq Contents
ASSUME SizeAssumption ==
    /\ CHUNK_DATA_SIZE \in Nat \ {0}
    /\ ChannelCapacity \in Nat
    /\ MaxTransfers \in Nat
    /\ MaxDelivered \in Nat
    /\ MaxCopies \in [Peers -> Nat]
    /\ Reordering \in BOOLEAN /\ Faults \in BOOLEAN

TransferIds == 1 .. MaxTransfers

VARIABLES
    copied,        \* history: copied[p], the contents peer p sent, in order
    rx,            \* rx[n]: from the clipboard monitor to `run`
    pending_chunks,\* pending_chunks[n]: messages of the transfer being sent
    chunk_states,  \* chunk_states[n][t]: ChunkReceiveState or NoTransfer
    uuids,         \* number of transfer ids drawn so far
    link,          \* link[p][n]: messages of p on their way to n
    seen,          \* seen[n]: gossipsub's duplicate cache (message = its id)
    delivered      \* history: delivered[n], what `run` sent on tx, with the origin

vars == <<copied, rx, pending_chunks, chunk_states, uuids, link, seen, delivered>>

-------------------------------------------------------------------------------
(* Messages and their contents.                                              *)

\* SHA-256, collision free: the digest of different data is different.
sha256_hex(data) == [sha256 |-> data]
Hashes == [sha256 : Seq(Byte)]

Direct(c) == [type |-> "Direct", content |-> c]
ChunkStart(t, total, hash) ==
    [type |-> "ChunkStart", transfer_id |-> t, total_chunks |-> total, data_hash |-> hash]
Chunk(t, i, data) ==
    [type |-> "Chunk", transfer_id |-> t, index |-> i, data |-> data]
ChunkEnd(t) == [type |-> "ChunkEnd", transfer_id |-> t]
\* A message that has no NetworkMessage around the content.
Legacy(c) == [type |-> "Legacy", content |-> c]

NetworkMessage ==
         [type : {"Direct", "Legacy"}, content : Contents]
    \cup [type : {"ChunkStart"}, transfer_id : TransferIds,
          total_chunks : Nat, data_hash : Hashes]
    \cup [type : {"Chunk"}, transfer_id : TransferIds,
          index : Nat, data : Seq(Byte)]
    \cup [type : {"ChunkEnd"}, transfer_id : TransferIds]

\* The HashMap `received` is the set of its entries; `expired` says that
\* started_at lies more than CHUNK_TRANSFER_TIMEOUT_SECS back.
ChunkReceiveState ==
    [total_chunks : Nat, data_hash : Hashes,
     received : SUBSET [index : Nat, data : Seq(Byte)], expired : BOOLEAN]

\* slice::chunks of the standard library: as many pieces as it takes, all of
\* CHUNK_DATA_SIZE bytes but the last.
NumPieces(data) == (Len(data) - 1) \div CHUNK_DATA_SIZE + 1
Piece(data, i) ==
    LET last == (i + 1) * CHUNK_DATA_SIZE
    IN  SubSeq(data, i * CHUNK_DATA_SIZE + 1, IF last < Len(data) THEN last ELSE Len(data))

TotalChunksFloor(data) == Len(data) \div CHUNK_DATA_SIZE                \* mutant
TotalChunks(data) == (Len(data) + CHUNK_DATA_SIZE - 1) \div CHUNK_DATA_SIZE

IsDirect(c) == Len(Raw[c]) <= CHUNK_DATA_SIZE

ChunkMessagesFromOne(c, t) ==                                         \* mutant
    <<ChunkStart(t, TotalChunks(Raw[c]), sha256_hex(Raw[c]))>>
      \o [i \in 1 .. NumPieces(Raw[c]) |-> Chunk(t, i, Piece(Raw[c], i - 1))]
      \o <<ChunkEnd(t)>>
ChunkMessagesPartHash(c, t) ==                                        \* mutant
    <<ChunkStart(t, TotalChunks(Raw[c]), sha256_hex(Piece(Raw[c], 0)))>>
      \o [i \in 1 .. NumPieces(Raw[c]) |-> Chunk(t, i - 1, Piece(Raw[c], i - 1))]
      \o <<ChunkEnd(t)>>
\* The messages of a chunked transfer of c under transfer id t.
ChunkMessages(c, t) ==
    <<ChunkStart(t, TotalChunks(Raw[c]), sha256_hex(Raw[c]))>>
      \o [i \in 1 .. NumPieces(Raw[c]) |-> Chunk(t, i - 1, Piece(Raw[c], i - 1))]
      \o <<ChunkEnd(t)>>

\* What the ChunkEnd of a transfer finds in its state: received.len(),
\* received.get(i), and the data of all chunks in the order of their indices.
IsComplete(st) == Cardinality(st.received) = st.total_chunks
HasChunk(st, i) == \E e \in st.received : e.index = i
ChunkAt(st, i) ==
    IF HasChunk(st, i) THEN (CHOOSE e \in st.received : e.index = i).data ELSE <<>>
FullData(st) ==
    LET upTo[k \in 0 .. st.total_chunks] ==
            IF k = 0 THEN <<>> ELSE upTo[k - 1] \o ChunkAt(st, k - 1)
    IN  upTo[st.total_chunks]

\* The checks between ChunkEnd and the bytes of a content: <<>> is an error return.
ReassembleUnchecked(st) == <<FullData(st)>>                           \* mutant
Reassemble(st) ==
    IF /\ IsComplete(st)
       /\ \A i \in 0 .. st.total_chunks - 1 : HasChunk(st, i)
       /\ sha256_hex(FullData(st)) = st.data_hash
    THEN <<FullData(st)>>
    ELSE <<>>

FromBytesAsIs(data) == data                                           \* mutant
\* ClipboardContent::from_bytes.  Bytes that are nobody's encoding may well
\* have the shape of one: they decode to Garbage.
FromBytes(data) ==
    IF \E c \in Contents : Raw[c] = data
    THEN CHOOSE c \in Contents : Raw[c] = data
    ELSE Garbage

-------------------------------------------------------------------------------
(* handle_incoming_message: what a message does to chunk_states, and the     *)
(* content it returns, as a sequence of length 0 or 1.                       *)

StatesAfter(states, m) ==
    CASE m.type = "ChunkStart" ->
            [states EXCEPT ![m.transfer_id] =
                [total_chunks |-> m.total_chunks, data_hash |-> m.data_hash,
                 received |-> {}, expired |-> FALSE]]
      [] m.type = "Chunk" ->
            IF states[m.transfer_id] = NoTransfer THEN states
            ELSE [states EXCEPT ![m.transfer_id].received =
                    {e \in @ : e.index # m.index} \cup {[index |-> m.index, data |-> m.data]}]
      [] m.type = "ChunkEnd" -> [states EXCEPT ![m.transfer_id] = NoTransfer]
      [] OTHER -> states

\* A bare ClipboardContent::Files has the enum tag and the layout of a ChunkEnd,
\* whose transfer_id no transfer has: it returns nothing.  Every other bare
\* content fails NetworkMessage::from_bytes and takes the legacy branch.
ContentOf(states, m) ==
    CASE m.type = "Direct" -> <<m.content>>
      [] m.type = "Legacy" -> IF m.content \in FilesContents THEN <<>> ELSE <<m.content>>
      [] m.type = "ChunkEnd" ->
            LET st   == states[m.transfer_id]
                data == IF st = NoTransfer THEN <<>> ELSE Reassemble(st)
            IN  IF data = <<>> THEN <<>> ELSE <<FromBytes(data[1])>>
      [] OTHER -> <<>>

CleanupNothing(states) == states                                      \* mutant
cleanup_stale_chunk_states(states) ==
    [t \in TransferIds |->
        IF states[t] # NoTransfer /\ states[t].expired THEN NoTransfer ELSE states[t]]

-------------------------------------------------------------------------------
Init ==
    /\ copied = [p \in Peers |-> <<>>]
    /\ rx = [n \in Nodes |-> <<>>]
    /\ pending_chunks = [n \in Nodes |-> <<>>]
    /\ chunk_states = [n \in Nodes |-> [t \in TransferIds |-> NoTransfer]]
    /\ uuids = 0
    /\ link = [p \in Peers |-> [n \in Nodes |-> <<>>]]
    /\ seen = [n \in Nodes |-> {}]
    /\ delivered = [n \in Nodes |-> <<>>]

\* The message m leaves peer p for every other node.
Sent(p, m) ==
    [link EXCEPT ![p] = [n \in Nodes |-> IF n = p THEN @[n] ELSE Append(@[n], m)]]

\* seen[n] keeps every id.  An entry leaves the real cache after
\* duplicate_cache_time, so an id in it may or may not still be there.
IsDuplicate(n, m) == m \in seen[n]
IsFresh(n, m) == m \notin seen[n] \/ Faults

\* gossipsub.publish and the match on its error.
publish(n, m) ==
    \/ /\ IsFresh(n, m)
       /\ seen' = [seen EXCEPT ![n] = @ \cup {m}]
       /\ link' = Sent(n, m)
    \/ /\ IsDuplicate(n, m)          \* PublishError::Duplicate
       /\ UNCHANGED <<seen, link>>
    \/ /\ Faults                     \* any other PublishError: logged
       /\ UNCHANGED <<seen, link>>

\* The clipboard monitor sends a content to `run`.
LocalCopy(n, c) ==
    /\ Len(copied[n]) < MaxCopies[n]
    /\ Len(rx[n]) < ChannelCapacity
    /\ copied' = [copied EXCEPT ![n] = Append(@, c)]
    /\ rx' = [rx EXCEPT ![n] = Append(@, c)]
    /\ UNCHANGED <<pending_chunks, chunk_states, uuids, link, seen, delivered>>

\* A node with an older version publishes a content.
LegacyCopy(p, c) ==
    /\ Len(copied[p]) < MaxCopies[p]
    /\ copied' = [copied EXCEPT ![p] = Append(@, c)]
    /\ link' = Sent(p, Legacy(c))
    /\ UNCHANGED <<rx, pending_chunks, chunk_states, uuids, seen, delivered>>

Cleanup(n) ==
    chunk_states' = [chunk_states EXCEPT ![n] = cleanup_stale_chunk_states(@)]

\* pending_chunks.pop_front() comes before the select.
PublishPending(n) ==
    /\ pending_chunks[n] # <<>>
    /\ pending_chunks' = [pending_chunks EXCEPT ![n] = Tail(@)]
    /\ publish(n, Head(pending_chunks[n]))
    /\ Cleanup(n)
    /\ UNCHANGED <<copied, rx, uuids, delivered>>

\* The select is reached once every message of the previous content is out.
AlwaysWaiting(n) == TRUE                                              \* mutant
Waiting(n) == pending_chunks[n] = <<>>

\* rx.recv(), a content that fits in one message.
TakeDirect(n) ==
    /\ Waiting(n)
    /\ rx[n] # <<>>
    /\ IsDirect(Head(rx[n]))
    /\ rx' = [rx EXCEPT ![n] = Tail(@)]
    /\ publish(n, Direct(Head(rx[n])))
    /\ Cleanup(n)
    /\ UNCHANGED <<copied, pending_chunks, uuids, delivered>>

\* rx.recv(), a content that is split: the first message is published in this
\* iteration, the others wait in pending_chunks.
TakeChunked(n) ==
    /\ Waiting(n)
    /\ rx[n] # <<>>
    /\ ~IsDirect(Head(rx[n]))
    /\ uuids < MaxTransfers
    /\ uuids' = uuids + 1
    /\ rx' = [rx EXCEPT ![n] = Tail(@)]
    /\ LET msgs == ChunkMessages(Head(rx[n]), uuids + 1)
       IN  /\ pending_chunks' = [pending_chunks EXCEPT ![n] = @ \o Tail(msgs)]
           /\ publish(n, Head(msgs))
    /\ Cleanup(n)
    /\ UNCHANGED <<copied, delivered>>

\* The positions of link[p][n] that gossipsub may look at next, and what is left
\* of the link.  Over a mesh messages overtake each other, and a further copy of
\* one may always be on its way; the ones that never arrive again are lost.
Arrivable(p, n) == {i \in 1 .. Len(link[p][n]) : Reordering \/ i = 1}
Arrived(p, n) == IF Reordering THEN link ELSE [link EXCEPT ![p][n] = Tail(@)]

\* A gossipsub Event::Message: its id is new to the duplicate cache.
ReceiveGossip(p, n) ==
    \E i \in Arrivable(p, n) :
        LET m   == link[p][n][i]
            out == ContentOf(chunk_states[n], m)
        IN  /\ Waiting(n)
            /\ IsFresh(n, m)
            /\ Len(delivered[n]) + Len(out) <= MaxDelivered
            /\ seen' = [seen EXCEPT ![n] = @ \cup {m}]
            /\ chunk_states' = [chunk_states EXCEPT ![n] =
                                    cleanup_stale_chunk_states(StatesAfter(@, m))]
            /\ delivered' =
                 [delivered EXCEPT ![n] =
                    IF out = <<>> THEN @ ELSE Append(@, [from |-> p, content |-> out[1]])]
            /\ link' = Arrived(p, n)
            /\ UNCHANGED <<copied, rx, pending_chunks, uuids>>

\* A message whose id is in the duplicate cache is no event for `run`.
DropDuplicate(p, n) ==
    /\ Waiting(n)
    /\ ~Reordering
    /\ link[p][n] # <<>>
    /\ IsDuplicate(n, Head(link[p][n]))
    /\ link' = Arrived(p, n)
    /\ UNCHANGED <<copied, rx, pending_chunks, chunk_states, uuids, seen, delivered>>

\* Any other event of the select, the 30 s of idleness among them.
OtherEvent(n) ==
    /\ Waiting(n)
    /\ Cleanup(n)
    /\ UNCHANGED <<copied, rx, pending_chunks, uuids, link, seen, delivered>>

\* started_at.elapsed() passes CHUNK_TRANSFER_TIMEOUT_SECS.
TimeOut(n, t) ==
    /\ Faults
    /\ chunk_states[n][t] # NoTransfer
    /\ ~chunk_states[n][t].expired
    /\ chunk_states' = [chunk_states EXCEPT ![n][t].expired = TRUE]
    /\ UNCHANGED <<copied, rx, pending_chunks, uuids, link, seen, delivered>>

\* A connection drops, or a queue of gossipsub is full.
Lose(p, n) ==
    /\ Faults
    /\ ~Reordering
    /\ link[p][n] # <<>>
    /\ link' = Arrived(p, n)
    /\ UNCHANGED <<copied, rx, pending_chunks, chunk_states, uuids, seen, delivered>>

\* The watchdog: an iteration of more than 60 s ends `run` before it publishes,
\* and main starts a new network with new channels.
Restart(n) ==
    /\ Faults
    /\ rx' = [rx EXCEPT ![n] = <<>>]
    /\ pending_chunks' = [pending_chunks EXCEPT ![n] = <<>>]
    /\ chunk_states' = [chunk_states EXCEPT ![n] = [t \in TransferIds |-> NoTransfer]]
    /\ seen' = [seen EXCEPT ![n] = {}]
    /\ link' = [p \in Peers |-> [link[p] EXCEPT ![n] = <<>>]]
    /\ UNCHANGED <<copied, uuids, delivered>>

Next ==
    \/ \E n \in Nodes :
        \/ \E c \in Contents : LocalCopy(n, c)
        \/ PublishPending(n)
        \/ TakeDirect(n)
        \/ TakeChunked(n)
        \/ OtherEvent(n)
        \/ \E t \in TransferIds : TimeOut(n, t)
        \/ Restart(n)
    \/ \E p \in LegacyNodes, c \in Contents : LegacyCopy(p, c)
    \/ \E p \in Peers, n \in Nodes :
        \/ ReceiveGossip(p, n)
        \/ DropDuplicate(p, n)
        \/ Lose(p, n)

Spec == Init /\ [][Next]_vars

\* The loop of `run` always gets on: gossipsub and the channel are polled in
\* turn by select!, which starts at a random branch, and the clock advances.
Fairness ==
    \A n \in Nodes :
        /\ WF_vars(PublishPending(n))
        /\ WF_vars(TakeDirect(n))
        /\ WF_vars(TakeChunked(n))
        /\ WF_vars(OtherEvent(n))
        /\ \A t \in TransferIds : WF_vars(TimeOut(n, t))
        /\ \A p \in Peers : WF_vars(ReceiveGossip(p, n)) /\ WF_vars(DropDuplicate(p, n))

FairSpec == Spec /\ Fairness

-------------------------------------------------------------------------------
(* Properties.                                                               *)

RangeOf(seq) == {seq[i] : i \in DOMAIN seq}

CopiedContents == UNION {RangeOf(copied[p]) : p \in Peers}

\* Every variable has its type.
TypeOK ==
    /\ copied \in [Peers -> Seq(Contents)]
    /\ rx \in [Nodes -> Seq(Contents)]
    /\ pending_chunks \in [Nodes -> Seq(NetworkMessage)]
    /\ chunk_states \in [Nodes -> [TransferIds -> ChunkReceiveState \cup {NoTransfer}]]
    /\ uuids \in 0 .. MaxTransfers
    /\ link \in [Peers -> [Nodes -> Seq(NetworkMessage)]]
    /\ seen \in [Nodes -> SUBSET NetworkMessage]
    /\ delivered \in [Nodes -> Seq([from : Peers, content : Contents \cup {Garbage}])]

\* What handle_incoming_message returns, and `run` hands to the clipboard, is a
\* content that some peer copied: however messages are lost, repeated, reordered
\* or cut off by restarts, chunks never combine to anything else.
Integrity ==
    \A n \in Nodes : \A i \in DOMAIN delivered[n] :
        delivered[n][i].content \in CopiedContents

\* A transfer that has as many chunks as announced (the length test of ChunkEnd)
\* passes the two tests that follow it, the indices and the SHA-256: no order of
\* arrival makes a transfer that is complete fail.
CompleteMeansIntact ==
    \A n \in Nodes, t \in TransferIds :
        LET st == chunk_states[n][t]
        IN  st # NoTransfer /\ IsComplete(st) => Reassemble(st) # <<>>

\* What a message carries belongs to a content of S: the content itself, or the
\* digest the chunks will be held against.
CarriesOneOf(m, S) ==
    /\ m.type \in {"Direct", "Legacy"} => m.content \in S
    /\ m.type = "ChunkStart" => \E c \in S : m.data_hash = sha256_hex(Raw[c])

\* The digest of a transfer being received is that of a content of S.
VouchedBy(st, S) == st # NoTransfer => \E c \in S : st.data_hash = sha256_hex(Raw[c])

\* Why Integrity holds, as an inductive invariant: whatever is queued, under way or
\* being received goes back to a copied content.  Chunks themselves may say
\* anything: the digest in the receiver's state decides what they can become.
RxGenuine ==
    \A n \in Nodes : \A i \in DOMAIN rx[n] : rx[n][i] \in CopiedContents
PendingGenuine ==
    \A n \in Nodes : \A i \in DOMAIN pending_chunks[n] :
        CarriesOneOf(pending_chunks[n][i], CopiedContents)
LinksGenuine ==
    \A p \in Peers, n \in Nodes : \A i \in DOMAIN link[p][n] :
        CarriesOneOf(link[p][n][i], CopiedContents)
StatesGenuine ==
    \A n \in Nodes, t \in TransferIds : VouchedBy(chunk_states[n][t], CopiedContents)
Provenance ==
    TypeOK /\ RxGenuine /\ PendingGenuine /\ LinksGenuine /\ StatesGenuine /\ Integrity

\* The places in delivered[n] of what n was given from p.
DeliveredFrom(p, n) == {i \in DOMAIN delivered[n] : delivered[n][i].from = p}

\* On links that keep the order of messages, contents of one sender are handed to
\* the clipboard in the order they were copied, whatever is lost on the way and
\* whichever of them are chunked: a small content never overtakes a large one.
InOrder ==
    ~Reordering =>
        \A p \in Peers, n \in Nodes :
            LET got == DeliveredFrom(p, n)
            IN  \E at \in [got -> DOMAIN copied[p]] :
                    /\ \A i \in got : delivered[n][i].content = copied[p][at[i]]
                    /\ \A i, j \in got : i < j => at[i] < at[j]

\* The contents n's clipboard was given.
Given(n) == {delivered[n][i].content : i \in DOMAIN delivered[n]}

\* The network of p2p-clipboard is a lossy broadcast of whole contents.
Channel == INSTANCE ContentChannel WITH
    copied <- CopiedContents, delivered <- [n \in Nodes |-> Given(n)]
ImplementsChannel == Channel!Spec

\* With no faults every copied content reaches every other node (unless that node
\* copied it too: then its own publication is what the duplicate cache keeps).
EveryCopyDelivered ==
    \A p, n \in Nodes, c \in Contents :
        p # n /\ c \in RangeOf(copied[p]) ~> c \in Given(n) \cup RangeOf(copied[n])

\* A transfer whose ChunkEnd never comes does not stay in chunk_states for good.
NoTransferLeaks ==
    \A n \in Nodes, t \in TransferIds :
        chunk_states[n][t] # NoTransfer ~> chunk_states[n][t] = NoTransfer
===============================================================================
