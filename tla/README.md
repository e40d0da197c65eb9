# A TLA+ model of p2p-clipboard

p2p-clipboard keeps the clipboards of several machines the same. Each machine
watches its clipboard, publishes what is copied over libp2p gossipsub, and
writes what arrives from the others to its own clipboard. This directory models
the parts of the program in which concurrency, failures, order and time matter,
checks them with TLC on small instances, and proves the safety invariants and two
refinements with TLAPS for every instance.

## Inventory

| Component | State | Operations | Interacts with |
|---|---|---|---|
| Content transfer (`clipboard_content.rs`, `run` and `handle_incoming_message` in `network.rs`) | `pending_chunks`, `chunk_states`, the channel from the monitor, gossipsub's duplicate cache | split, publish, receive, reassemble, drop stale transfers, restart by the watchdog | clipboard side through two channels of 32, gossipsub |
| Clipboard side (`main.rs`) | the clipboard, `DeduplicationState` under a mutex, two channels | monitor thread: read, mark, send; proxy task: mark, write, fall back to text; restart loop | operating system clipboard, files, content transfer |
| Connection keeping (`run` in `network.rs`) | `endpoint_cache`, `unique_endpoints`, `current_listen_addresses`, `announced_identities`, `failing_connections`, timers of `retry_waiting_thread` | one branch per swarm event, retry callback, idle tick | libp2p swarm, Kademlia, identify, mDNS |
| mDNS discovery (`lib/mdns`) | per interface: probe state, timer, send buffer, records to hand on; per node: `discovered_nodes`, `closest_expiration`, `pending_events` | `InterfaceState::poll` (four priorities), `Behaviour::poll`, interfaces going up and down | UDP multicast, swarm; the two tasks meet in a channel of 10 |
| mDNS packets (`lib/mdns`: `dns.rs`, `query.rs`) | none | build and split answers, read packets | mDNS discovery; the service name depends on the pre-shared key |
| TLS with pre-shared key (`lib/tls`) | two certificates for the life of a process | make and verify certificates, handshake | swarm |
| Files and their lists (`native_clipboard.rs`, `main.rs`) | files below the receive directory | read and write lists of files, collect, save | operating system, clipboard side |
| Start-up (`start_network`, `main`) | none after set-up | arguments, keys, first dial | all others |
| Logging | log files | | |

What is hard here, and what the components have to get right:

* **Transfer.** A large content is many messages that overtake each other, get
  lost, arrive again or are cut off by a restart. Nothing but whole contents may
  come out; a complete transfer must not fail; contents must not overtake each
  other; half-received transfers must not accumulate.
* **Clipboard.** Two threads and a user change the clipboard; the only defence
  against sending back what was received is a key that both threads overwrite,
  under a lock that does not cover the write to the clipboard itself.
* **Connections.** Two collections hold the same endpoints and are changed in
  five places; addresses come with and without `/p2p`; several timers and dials
  of one endpoint are in flight together.
* **Discovery.** Two tasks with timers and a bounded channel; events must
  alternate, wake-ups must not be lost, live peers must not expire.
* **Files.** The list that was written and the one that is read back must have the
  same key, through three clipboard formats, four tools and two encodings of names;
  files are read and saved one by one and any of them may fail.
* **Admission.** Three things decide who becomes a peer: the mDNS service name, the
  certificates and the PeerId in the address. They must agree with each other, on
  both ends of a handshake that the client finishes first, while nodes restart with
  other keys and addresses move from machine to machine.

`PROJECT.json` lists these hazards one by one at the lines where they bite.

## Modules

| Module | Models |
|---|---|
| `ContentChannel` | abstract: a lossy broadcast of whole contents |
| `ChunkTransfer` | the transfer; implements `ContentChannel` |
| `ClipboardSync` | monitor, proxy and dedup state of several machines |
| `PeerConnections` | connections, retries and boot node of one machine |
| `PeerDiscovery` | abstract: addresses become known and cease to be, in turns |
| `MdnsDiscovery` | mDNS of several machines; implements `PeerDiscovery` |
| `NativeClipboard` | lists of files in the clipboards of Linux, Windows and other systems |
| `FileClipboard` | monitor, proxy and disk of several machines that exchange files; extends `NativeClipboard` |
| `TlsCertificates` | making and verifying certificates |
| `MdnsPackets` | the answer to an mDNS query in packets |
| `PeerAdmission` | start-up, discovery and handshake of several machines and another program; extends the two above |
| `MC...` | constants for TLC |
| `...Proofs` | theorems about the module of that name |
| `RecursionLemmas` | induction over numbers and sequences, and recursive functions, for the proofs |

Definitions marked `mutant` are plausible errors in the code they stand next to.
They are used by nothing; replacing the definition that follows by one of them
makes a property fail.

### ChunkTransfer

One action is one iteration of `run`'s loop. `PublishPending` is the case in
which `pending_chunks` is not empty; the select is not reached then, which is
the guard `Waiting` of all the others. `TakeDirect` and `TakeChunked` are
`rx.recv()` with the two outcomes of `split_to_network_messages`;
`ReceiveGossip` is a gossipsub message with all of `handle_incoming_message`;
`OtherEvent` stands for all events that do not concern the transfer. Every
iteration ends with the clean-up at the top of the next one. `Restart` is the
return of the watchdog, which comes after the select and before the publication
and therefore loses what was to be published.

Contents have encodings (`Raw`), sequences of abstract bytes; chunks are pieces
of them, so reassembly, the count of chunks and the digest are computed and not
assumed. SHA-256 and the hash that makes gossipsub's message ids are free of
collisions. Encoded contents are pairwise different (`RawAssumption`), as bincode's
are. `total_size` only sizes a buffer and is left out. A bare
`ClipboardContent::Files` of an older node is read as a `ChunkEnd`, as the enum
tags make it. Gossipsub is a link per pair of peers; with `Reordering` messages
arrive in any order and any number of times, otherwise first in, first out. With
`Faults` messages get lost, publications fail, entries leave the duplicate cache,
transfers pass 120 s and nodes restart.

### ClipboardSync

Monitor and proxy are split where they touch shared state: the monitor reads the
clipboard (`MonitorRead`), looks at the dedup state and changes it under the lock
(`MonitorMark`), and sends (`MonitorSend`); the proxy takes a content and changes
the dedup state (`ProxyTake`), and writes (`ProxyWrite`, or `ProxyFallback` and
then the paths as text). Contents are items with a kind. A key is what the code
compares: the text, a hash of the RGBA pixels when an image is read and of the PNG
when one is written, a hash of the paths, which for received files are in the
receive directory. Changes of the clipboard between two looks of the monitor are
one notification. A restart gives a node new channels, a new dedup state and a new
monitor; the proxy of its previous life may still write what it has (`oldq`).

The network in this module is `ChunkTransfer` at the level of contents with FIFO
links and no loss: a content sent in one message is subject to the duplicate
cache, one sent in chunks is not, for its transfer id is new each time.

### PeerConnections

One action is one event of the swarm with the whole branch of `run` for it. The
swarm is the environment: it opens connections when dialled or called, closes
them with or without an I/O error, and fails dials with the error kinds that
`run` tells apart: `hold` ("NetworkUnreachable", "Timeout"), `refused` (any other
inner error), `opaque` (no inner error), `unsupported`, `dead` (NoAddresses,
LocalPeerId, WrongPeerId, Denied) and `aborted`. An address is a socket with or
without a `/p2p` suffix; a dial with one tries the addresses that Kademlia and
mDNS add. `endpoint_cache` is a bag, for nothing reads its order. `timers` counts
the tasks of an endpoint anywhere between the retry queue and the callback queue.
The idle tick closes connections of peers without topics; that is a
`ConnectionClosed` without cause. The tick needs 30 s without an event, so it
comes when no retry (at most 17 s) and no dial (at most 10 s) is under way.

### MdnsDiscovery

The branches of `InterfaceState::poll` are actions in the order of their priority:
a branch waits for those before it. `BehaviourPoll` is one turn of
`Behaviour::poll`'s loop without pending events; `Emit` returns one to the swarm.
Time is discrete and passes once there is nothing to do, unless a machine stalls
(one of the faults, with losses, interfaces going down, read errors and changes of
listen addresses). A task runs when it is woken: by its channel, by an event of
the interface watcher, or by the timer it polled last. `known` counts what the
program has been told.

### NativeClipboard and FileClipboard

A name is a sequence of bytes and a path a sequence of names, because the encodings
of names are what the program gets right or wrong here: file managers write
percent-encoded URIs, this program writes paths as they are, and `url_decode` takes
every byte for a character. What a clipboard holds is a function from formats to
lines. A machine is one of Linux with some of `xclip`, `xsel` and `wl-clipboard`,
Windows, or another system, and accesses to files fail on it or not; which it is, is
chosen in `Init`. A disk is a function from existing paths to contents. `Without` is
what the two loops that collect files make of the rest of it: `read_dir`, each entry of
a directory and each `fs::read` may give an error, a path may be gone, and then they go
on without it and what is below it (`MonitorSend`). `save_received_files`
is a loop in which each write succeeds, fails or leaves part of a file. At the start
every disk is a finite tree that has the receive directory (`HomeAssumption`), as
`get_file_receive_dir` makes it, and users select some of what is in one directory, as
they do in a file manager (`SelectionsAssumption`).

The split of monitor and proxy is that of `ClipboardSync`, whose races are left out:
users copy when all is at rest, though they may change and remove files at any time, also
between the mark in the dedup state and the reading of the files. `last` is the
history that `CopiesArrive` is about: of the copied files, those that were there and
could be read when they were sent. Images,
restarts and gossipsub's duplicate cache are left out as well; without the cache the
absence of loops rests on the dedup state alone.

### TlsCertificates, MdnsPackets and PeerAdmission

Cryptography is symbolic: a signature is a record of who signed what, and what is
sealed under a pre-shared key and a host key opens under the same two only. A
certificate is what `certificate.rs` reads of it: algorithms of key and signature,
dates, extensions in their order. `Conforms` states the rules of the libp2p TLS
specification that the comments quote, independently of the code that implements
them. `MdnsPackets` counts bytes, since the sizes decide what a receiver can parse.

In `PeerAdmission` a process is started with arguments (`Start` is `start_network`
with its errors), answers queries of others (`Answer`: query, packets, losses and
reading in one step), dials what it has found, and goes through a handshake in three
steps (`ServerHello`, `ClientFinishes`, `ServerFinishes`). The swarm compares the
PeerId of a finished handshake with the one in the address (`RightPeer`), for the
verifier is never given one. Machines swap addresses, or another program gets one
(`Move`). That program presents every certificate of `MCPeerAdmission` in either
role, of all combinations of algorithms of key and signature: a key may be of another
kind than its name says, and sign with what it can. `ForeignAssumption` and
`PresentedAssumption` restrict none of that; they say that host keys are host keys and
that no part of an extension is the error value. `Supported` says which algorithms are
taken: also an Ed25519 key under any name but that of elliptic curves, whose algorithm
`signature_scheme` does not look at (`certificate.rs:513`), and handshakes signed with PKCS1,
which `verification_schemes` offers (`verifier.rs:107`) although TLS 1.3 has dropped
them (RFC 8446, 4.2.3). `NothingAssumption` says that an error value is none of
the signatures, schemes and extension contents that stand for success. Addresses have
at most `MAX_VALUE` bytes in a record, as those of this program do (`NodesAssumption`).

## What TLC checks

| Run | Properties | Bounds | States |
|---|---|---|---|
| `chunk_chaos` | `Integrity`, `CompleteMeansIntact`, `Provenance`, `ImplementsChannel` | 2 nodes, 2 copies of contents of 1, 3 and 4 bytes in chunks of 2 | 683 000 |
| `chunk_fifo` | `InOrder`, `NoTransferLeaks` | 2 nodes, an older one, 3 copies, 1 transfer, faults | 386 000 |
| `chunk_reliable` | `InOrder`, `EveryCopyDelivered` | 3 copies at two nodes, 3 transfers, no faults | 13 000 |
| `clipboard_races` | `DedupCurrent`, `DedupInv` | 2 nodes, 3 copies, channels of 1, restarts | 1 231 000 |
| `clipboard_quiet` | `NoEcho`, `Synchronized`, `ComesToRest` | 3 nodes, 4 items, 3 copies, failures, patient users | 425 000 |
| `peer_chaos` | `CacheMirrorsSet`, `CachedIsConnected`, `RoutingAnnounced` | 1 peer with 4 sockets, 4 events, 5 kinds of errors | 147 000 |
| `peer_retry` | `NoOrphanedRetry`, `BootReconnects` | 2 peers, 5 events | 113 000 |
| `mdns` | `EventsInv`, `WakesInTime`, `NoFalseExpiry`, `ImplementsDiscovery`, `FoundDespiteLoss`, `GoneIsForgotten` | 2 nodes, 1 fault of any kind | 341 000 |
| `files` | `CopiesArrive`, `PasteHasAll`, `NoEcho`, `NoLoop` | 2 machines of 7 kinds, 5 selections, 2 copies, 1 edit or removal | 1 638 000 |
| `admission` | `SamePskOnly`, `Authentic`, `NoHalfOpen`, `DiscoveredIsAdmitted`, `AddressesFound`, `ForeignByTheRules` | 2 machines, 3 starts of 11 kinds, 1 connection, 1 move, 162 kinds of other programs | 442 000 |

The type invariant of each module is checked in one of its runs. The bounds hold what
the properties are about: contents below, at and next to a multiple of the chunk size;
two transfers at once, so that chunks can mix; three copies, so that a text is copied,
replaced and copied again; as many events as it takes to fail, retry four times and give
up; a time to live one unit longer than the query interval, as in `Config::default`. A
second fault, a third node or a second address in `mdns` exceed what TLC can do; the
proofs are not bound by that. In `files` the selections are a file, a directory that on
the other machine is a file, a directory with a blank in its name and one file with `%`
in its, and two files of which one is not ASCII: with two copies a received file can be
in the way of the next. In `admission` a machine is started again, so that records,
connections and keys of a previous life are around; nodes have 1, 23 and 30 addresses,
that is one packet, one that just fits in the receiver's buffer whatever its names are,
and two. Connections do not depend on each other, so that one at a time is enough; the
other program talks while no other node runs, with all its certificates at the first
process and two of them at later ones.

Deadlock is not checked in `clipboard_quiet`, `clipboard_image_loop`, `files`,
`files_echo` and `admission`: users may stop copying and processes stop, and then
nothing is left to do.

**Fairness.** Transfer: every node's loop gets on, its queue and gossipsub are both
served (`tokio::select!` starts at a random branch) and time passes. Clipboard:
monitor thread, proxy task and network get on; no user has to copy. Connections:
dials end, timers fire, and the idle tick comes when nothing else does. Discovery:
the executor polls woken tasks and time passes. Nothing is assumed of faults,
users, interfaces or peers.

### Where the code does not do what it says

* `clipboard_image_loop`: a received image is never recognised as such, because
  the proxy stores the hash of the PNG and the monitor compares that of the pixels.
  An image that fits in one message is stopped by gossipsub's duplicate cache; a
  larger one goes back and forth for ever.
* `files_echo`: on Linux a received list with a name that is not ASCII is read back
  without that name, because `url_decode` turns each byte into a character and
  `parse_uri_list` leaves out what does not exist. The rest of the list is taken for
  a copy of the user and sent back, once (`NoLoop` holds).

Three more things the models contain and the properties make room for:

* A local copy that the monitor handles between the proxy's update of the dedup state
  and its write makes the received text be sent back (`main.rs:305`). `NoEcho` of
  `ClipboardSync` is therefore stated for sequential users.
* A text copied again within gossipsub's duplicate cache time, after another one, is
  dropped as a duplicate and the other machines keep what was copied in between
  (`network.rs:694`). `clipboard_quiet` has users who wait for that reason.
* A content that `try_send` could not put in the channel, or that a failing access
  lost, is not sent again. `Synchronized` excepts copies that were `lost` in this way.

Images in `clipboard_quiet` are small, because of the loop above.

## What is proved

TLAPS checks all proofs, for every value of the constants that satisfies the
named assumptions.

* **`ChunkTransferProofs`.** `Integrity` is not inductive: a delivery can only be
  judged by where its bytes come from. `Provenance` adds that queued contents were
  copied, that `Direct` messages under way carry copied contents, and that the
  digest in every `ChunkStart` under way and in every `ChunkReceiveState` is that of
  a copied content. Chunks themselves may be anything: the comparison of digests
  at `ChunkEnd` and the injectivity of encodings do the rest. The refinement of
  `ContentChannel` follows: a delivery is a `Deliver` of a content that was copied.

  `CompleteMeansIntact` needs more, namely that the chunks are right and not only the
  digest. `OneContentPerTransfer` says that each transfer id was drawn for one content
  and that all messages and all receivers' states under it are parts of that content,
  in any order and after any restart. A state that has as many chunks as were announced
  then has all of them (a count of finite sets), and joining them gives the content back.
  The last step is an induction over the recursive function that joins them.

  `InOrder` follows from two invariants. `Queued`: what waits in the monitor's channel
  is the tail of what was copied. `InStep`: for every link there are places among the
  sender's copies that increase from what was delivered over what is on the link, in
  the order it is there, to what is pending at the sender. A content counts where its
  delivery is decided: at its `Direct` message or at its `ChunkEnd`.
* **`ClipboardSyncProofs`.** `DedupCurrent` speaks of rest
  only. `DedupInv` says what holds on the way: unless a change is to be looked at or the
  proxy is about to make one, the monitor works on what is in the clipboard and its key
  is in the dedup state once it has passed the lock; and never more than one key is set.

  `NoEcho` is proved for users who copy when all is at rest and nodes that stay up;
  without the first it is false (see above). `WaveInv` describes the one content that
  is then on its way: it is at its origin, or it spreads, each other machine being at a
  stage of receiving it, or it is an image, which does bounce. The machine's dedup key
  is that of what the proxy writes, in every form that it may fall back to.
  `Synchronized` is proved for patient users, who also wait for the duplicate cache to
  forget. `SyncInv` adds that, as long as nothing is lost, a new content has not left its
  machine and nobody has seen it, or it is the only one around and every machine has
  it, is taking it, or has it on a link: what the duplicate cache drops is there already.
* **`PeerConnectionsProofs`.** `ConnInv` is the conjunction of `TypeOK` and the
  three properties of `peer_chaos`; `CachedIsConnected` needs the counting of
  connections in `TypeOK`, and the bound on retries comes with the types.
  `NoOrphanedRetry` is inductive given `ConnInv`, under the hypothesis that dial errors
  are of the kinds on which the code queues or removes a task; the others are listed
  under the limits below.
* **`MdnsDiscoveryProofs`.** `EventsInv` relates the queue of
  pending events, what the program has been told and what the Behaviour lists
  (`Balanced`); with `TypeOK` it is inductive, and it gives the refinement of
  `PeerDiscovery`. `WakesInTime` becomes inductive with the fact that a Behaviour with
  something pending is awake. `NoFalseExpiry` is proved for every time to live that is
  longer than the query interval, as in `Config::default` (six and five minutes,
  `lib/mdns/src/lib.rs:80`). Its invariant `FaultlessInv` follows a record around: as
  time only passes when nothing is left to do, the list of every node is as fresh as
  the last query of the node or a fresh record is in a packet, a buffer or the channel.
* **`PeerAdmissionProofs`.** The inductive invariant ties each
  connection to the processes at its ends: a process whose number is that of the
  connection is the one that dialled or answered (`EndsOK`), every flight is the one its
  process presents (`FlightsOK`), and every identity was accepted on the flight that is
  there (`AcceptedOK`). Three lemmas about certificates do the rest: an extension opens
  under the pre-shared key it was sealed with only (`ExtensionOpens`), a generated
  certificate proves the identity it was made with or nothing (`GeneratedProves`), and
  what `parse` returns is a host key (`ParsedIsHostKey`).

  These say who is not admitted; `NoHalfOpen`, `DiscoveredIsAdmitted` and
  `ForeignByTheRules` also say who is. `DInv` adds that each end of a connection has
  decided as the verifier decides on the flight that is there (`Decision`), and that
  what is found belongs to a process with the same service name (`FoundOK`). The lemma
  `AcceptedIsAdmissible` shows that parsing, the choice of algorithms and verification
  accept a certificate and a handshake if and only if they conform to the rules and
  are of a supported kind, for all algorithms, keys, dates, extensions and signatures.


  `AddressesFound` rests on three facts about `MdnsPackets`, each for lists of any
  length: the loop over the listen addresses keeps all of the first 65535
  (`AllAnswered`), every one that is kept is in one of the packets of 29
  (`PacketsCover`), and a packet of at most `SafeRecords` records fits in the buffer of
  the receiver (`FewRecordsFit`, from the longest name and the longest address this
  program has). Its inductive invariant `HInv` says that what was heard without loss has
  been found, for as long as the process that answered runs.
* **`NativeClipboardProofs`.** What the clipboard does to a list of files, for names of
  any length: decoding gives back what a file manager encoded if the name is ASCII
  (`ReadsCopy`), and a plain name, one of printable ASCII without `%` and without a
  blank at its end, is the same when it was written as it is, trimmed and decoded, in
  each of the formats and with each of the tools. Two paths with the same string are
  the same path.
* **`FileClipboardProofs`.** `TypeOK` is proved without conditions. Its inductive
  form `TypeInv` adds the shape of every message and of every list, and the disks
  (`DiskOK`); `SaveFacts` is the invariant of the loop of `save_received_files`: each
  turn leaves a tree, keeps files files and directories directories, and changes
  nothing but the files of the content.

  `NoEcho`, `NoLoop`, `PasteHasAll` and `CopiesArrive` are proved under two hypotheses
  on the disks and machines: `PlainNames`, that all names are plain (`files_echo` is
  what happens otherwise), and `ListsAreRead`, that no machine sends URIs as text,
  because it reads them as a list of files (see the limits; all machines of `files` do).
  They hold then for any number of machines of any kinds, any trees, selections, copies,
  edits and removals, and any failures of reads and writes; `NoEcho` in the form
  `NeverEchoes`, and `NoLoop` with one content for each copy. `WaveInv` is the inductive
  invariant: at most one content is under way; the machine where the user copied has
  done with its proxy and works on the user's list; at every other machine the list that
  the proxy saved, writes, or has written exists on its disk and is the one in the dedup
  state, in whichever format the monitor reads it back. Given that, `PasteInv` says that
  saved files keep their bytes and are at or below a path of the list, which needs that
  no two files of a content have the same name (`CollectDistinct`, from
  `SelectionsAssumption`). `ArriveInv` says that the monitor where the user copied does
  not lose a new list between reading, marking and sending, and that each other machine
  has the files or a content with all of them, as they were at some time since the copy,
  whatever users change or remove meanwhile: fewer files on disk are fewer entries, and
  no others (`FewerEntries`), and what is removed is not below the receive directory
  (`NotRemoved`).

Recursive functions, such as the loops over addresses, bytes, lines and files, are
unfolded and reasoned about with the lemmas of `RecursionLemmas`: the induction theorems
of the library cannot be instantiated, so each induction is one by contradiction from
the least number at which the claim fails (`LeastNatural`, from the well-foundedness of
`<`, and `InductionUpTo`, stated for a set of numbers instead of a predicate).

Only model-checked:

* everything temporal under fairness (`EveryCopyDelivered`, `NoTransferLeaks`,
  `ComesToRest`, `BootReconnects`, `FoundDespiteLoss`, `GoneIsForgotten`), which the
  prover does not support;
* the four properties of files where names are not plain. Echoes of several machines
  may then meet, and the properties are checked for two machines (`files`).

## Limits, and what is not modelled

* `closest_expiration` of the mDNS Behaviour is not reset when the last node expires,
  though its comment says `None`; the timer has fired by then, and the model keeps it.
* Image codecs, the calls of the Windows API, DER and X.509 parsing, the text of
  arguments, the options of the swarm's behaviours, and logging. Kademlia's query
  results are only logged.
* mDNS: one interface per node; service-discovery queries are left out. In
  `MdnsDiscovery` an answer is one packet; its split is in `MdnsPackets`.
* `MAX_RECORDS_PER_PACKET` is 29, but a packet of that many records may be longer than
  the receiver's buffer of 4096 bytes and is then ignored. `AddressesFound` is about
  packets of at most `SafeRecords` = 23 records, which always fit.
* A TXT record may have 331 bytes, more than `MAX_TXT_RECORD_SIZE`; with addresses of
  this program it has 171 at most.
* A node whose clock is outside 1975..4096 rejects all certificates, its peers'
  clocks notwithstanding, and is then the one case of a connection that the client
  reports and the server turns down.
* Two nodes with the same machine id have the same PeerId and do not see each other.
  An unreadable PEER_ID after `--connect` makes `start_network` panic.
* Files: the dedup state keys lists of paths, so a file that is edited and copied again
  is skipped (`CopiesArrive` excepts it); files of the same name overwrite each other in
  the receive directory, and a directory that is pasted from there contains what earlier
  copies left in it; empty directories are not sent; a directory with one file is pasted
  as that file; names that are not ASCII are not found on Linux, and the text of the
  list is sent instead. `NoLoop` is about names that are no escape sequence once they
  are decoded: each further level of escapes may cost one more round. Only one of the
  two formats that the comment of `set_clipboard_file_list` names
  (`src/src/native_clipboard.rs:262`) is offered at a time, as a comment within the
  function says, and `PasteHasAll` asks for one. Paths are written into URIs as they
  are: a file manager that takes `%41` for an escape does not find a received name that
  has it, so `PasteHasAll` excepts names with `%` on Linux (its other clause, that saved
  files are on disk with their bytes, does not); `files` has such a name. A user who
  removes what they have just copied before the monitor has looked at the clipboard is
  not modelled: the list is then taken for text. A text of `file://` URIs that arrives
  at a Linux machine with `xsel` alone is taken for a list of that machine's own files;
  the machines of `files` do not send such a text. Files of the same name that were
  selected in several directories, as in the results of a search, overwrite each other
  (`SelectionsAssumption`).
* `NoOrphanedRetry` is about addresses that name their peer, and about the errors
  for which the code queues or removes a task. After `Aborted`, an error without an
  inner one, or a failed dial of the plain boot address, a record stays in
  `failing_connections` until the endpoint fails again.
* `BootReconnects` needs a listen address that `is_network_ok` accepts. With a
  loopback listener only, a retry comes back every few seconds and the idle tick
  never does.

## Plan

Done, in this order: transfer, clipboard, connections, discovery, each with its
checks and its first proofs; then files and native clipboards, certificates,
admission and the packets of mDNS; then theorems for every safety invariant that a run
checks, and for both refinements. What could come next:

1. `ClipboardSync` over `ContentChannel` instead of its own links, so that the two
   halves of the program meet in one specification; lossy links on the clipboard
   side.
2. Several interfaces per node and service discovery in `MdnsDiscovery`.
3. `NoEcho` of files for names that are not plain, with what is left of a list after
   each echo as the measure.
