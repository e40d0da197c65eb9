----------------------------- MODULE ClipboardSync -----------------------------
(* The clipboard side of p2p-clipboard (src/src/main.rs): the monitor thread *)
(* that reads the clipboard after each change and sends what is new, the     *)
(* proxy task that writes what arrives from the network, and the             *)
(* DeduplicationState they share so that what the proxy writes is not sent   *)
(* back.  Each access to the shared state under its lock, each access to the *)
(* clipboard and each use of a channel is a step of its own.                 *)
(*                                                                           *)
(* The network between the nodes is the one of ChunkTransfer without faults, *)
(* at the level of contents: FIFO links; a content sent in one message is    *)
(* known to gossipsub by its bytes, a large one gets a new uuid every time.  *)
EXTENDS Integers, Sequences, FiniteSets

CONSTANTS
    Nodes,
    Items,           \* what a user can copy
    Kind,            \* Kind[x]: "text", "image" or "files"
    LargeItems,      \* the items that are sent in chunks
    Empty,           \* what is in the clipboard at the start
    None,            \* Option::None
    ChannelCapacity, \* mpsc::channel(32)
    User,            \* when users copy, see Copy
    Restarts,        \* the watchdog of `run` may restart a node
    Failures,        \* accesses to the clipboard and to files may fail
    MaxCopies        \* bound: number of copies made by all users

Kinds == {"text", "image", "files"}

ASSUME ItemsAssumption ==
    /\ Kind \in [Items -> Kinds]
    /\ LargeItems \subseteq Items
    /\ Empty \notin Items
ASSUME BoundsAssumption ==
    /\ ChannelCapacity \in Nat
    /\ MaxCopies \in Nat
    /\ User \in {"patient", "sequential", "concurrent"}
    /\ Restarts \in BOOLEAN /\ Failures \in BOOLEAN

VARIABLES
    clip,      \* clip[n]: the content of n's clipboard and whether the proxy wrote it
    notified,  \* notified[n]: a change the monitor has not looked at
    dedup,     \* dedup[n]: DeduplicationState, the last key of each kind
    monitor,   \* monitor[n]: where get_clipboard_content is
    proxy,     \* proxy[n]: where set_clipboard_content is
    fromq,     \* fromq[n]: the from_clipboard channel
    toq,       \* toq[n]: the to_clipboard channel
    oldq,      \* oldq[n]: what the proxy of n's previous life has left to write
    link,      \* link[m][n]: contents on their way from m to n
    seen,      \* seen[n]: ids in gossipsub's duplicate cache
    lost,      \* history: nodes at which something has failed since the last new copy
    copies     \* number of copies made so far

vars == <<clip, notified, dedup, monitor, proxy, fromq, toq, oldq, link, seen, lost, copies>>

-------------------------------------------------------------------------------
(* Contents and keys.                                                        *)

\* A content is an item, or the text that lists the paths of received files.
Forms == {"native", "paths"}
Contents == [item : Items, form : Forms]
Entries == [item : Items, form : Forms, remote : BOOLEAN]
EmptyClip == [item |-> Empty, form |-> "native", remote |-> FALSE]

KindOf(x) == IF x.form = "paths" THEN "text" ELSE Kind[x.item]
IsLarge(x) == x.form = "native" /\ x.item \in LargeItems
ContentOf(e) == [item |-> e.item, form |-> e.form]

\* What the monitor compares: the text, the hash of the RGBA pixels, the hash of
\* the paths, which for received files lie in the receive directory.
ReadKey(e) ==
    CASE KindOf(e) = "text"  -> <<e.form, e.item>>
      [] KindOf(e) = "image" -> <<"rgba", e.item>>
      [] KindOf(e) = "files" -> <<IF e.remote THEN "received" ELSE "local", e.item>>

SetKeyByKind(c) == <<KindOf(c), c.item>>                               \* mutant
\* What the proxy stores: for an image the hash of its PNG encoding.
SetKey(c) ==
    CASE KindOf(c) = "text"  -> <<c.form, c.item>>
      [] KindOf(c) = "image" -> <<"png", c.item>>
      [] KindOf(c) = "files" -> <<"received", c.item>>

Keys == {"native", "paths", "rgba", "png", "local", "received"} \X Items

ASSUME NoneAssumption == None \notin Keys

DedupNew == [k \in Kinds |-> None]
OnlyThisField(old, kind, key) == [old EXCEPT ![kind] = key]            \* mutant
\* One field is set and the two others are cleared.
OnlyKey(old, kind, key) == [DedupNew EXCEPT ![kind] = key]

\* The dedup state describes the content e, and nothing else.
Describes(d, e) == d = OnlyKey(DedupNew, KindOf(e), ReadKey(e))

Idle == [pc |-> "idle"]

-------------------------------------------------------------------------------
Init ==
    /\ clip = [n \in Nodes |-> EmptyClip]
    /\ notified = [n \in Nodes |-> FALSE]
    /\ dedup = [n \in Nodes |-> DedupNew]
    /\ monitor = [n \in Nodes |-> Idle]
    /\ proxy = [n \in Nodes |-> Idle]
    /\ fromq = [n \in Nodes |-> <<>>]
    /\ toq = [n \in Nodes |-> <<>>]
    /\ oldq = [n \in Nodes |-> <<>>]
    /\ link = [m \in Nodes |-> [n \in Nodes |-> <<>>]]
    /\ seen = [n \in Nodes |-> {}]
    /\ lost = {}
    /\ copies = 0

\* Nothing is left to do at n's clipboard.
LocallyQuiet(n) == ~notified[n] /\ monitor[n] = Idle /\ proxy[n] = Idle

\* Nothing is left to do anywhere.
Quiet ==
    \A n \in Nodes :
        /\ LocallyQuiet(n)
        /\ fromq[n] = <<>> /\ toq[n] = <<>> /\ oldq[n] = <<>>
        /\ \A m \in Nodes : link[m][n] = <<>>

\* The clipboard of n changes: the monitor will be called.  Changes made before
\* it looks are one call.
SetClip(n, e) ==
    /\ clip' = [clip EXCEPT ![n] = e]
    /\ notified' = [notified EXCEPT ![n] = TRUE]

\* A user copies something.  A sequential user waits until all machines are at
\* rest, a patient one longer than gossipsub's duplicate_cache_time as well.
Copy(n, x) ==
    /\ copies < MaxCopies
    /\ User # "concurrent" => Quiet
    /\ User = "patient" => \A m \in Nodes : seen[m] = {}
    /\ copies' = copies + 1
    /\ SetClip(n, [item |-> x, form |-> "native", remote |-> FALSE])
    /\ lost' = IF Describes(dedup[n], clip'[n]) THEN lost ELSE {}
    /\ UNCHANGED <<dedup, monitor, proxy, fromq, toq, oldq, link, seen>>

-------------------------------------------------------------------------------
(* The monitor thread: on_clipboard_change -> get_clipboard_content.         *)

\* The probes for files, an image and text.  Content that changes between two
\* probes can make them all fail; the change it made is a further call.
MonitorRead(n) ==
    /\ notified[n]
    /\ monitor[n] = Idle
    /\ notified' = [notified EXCEPT ![n] = FALSE]
    /\ \/ /\ monitor' = [monitor EXCEPT ![n] = [pc |-> "read", entry |-> clip[n]]]
          /\ UNCHANGED lost
       \/ /\ Failures
          /\ lost' = lost \cup {n}
          /\ UNCHANGED monitor
    /\ UNCHANGED <<clip, dedup, proxy, fromq, toq, oldq, link, seen, copies>>

MonitorMarkForgets(n) ==                                               \* mutant
    LET e == monitor[n].entry
    IN  /\ monitor[n].pc = "read"
        /\ monitor' = [monitor EXCEPT ![n] =
                IF dedup[n][KindOf(e)] = ReadKey(e) THEN Idle ELSE [pc |-> "send", entry |-> e]]
        /\ UNCHANGED <<clip, notified, dedup, proxy, fromq, toq, oldq, link, seen, lost, copies>>
\* Under the lock: skip what is known, else remember it.
MonitorMark(n) ==
    LET e == monitor[n].entry
    IN  /\ monitor[n].pc = "read"
        /\ \/ /\ dedup[n][KindOf(e)] = ReadKey(e)
              /\ monitor' = [monitor EXCEPT ![n] = Idle]
              /\ UNCHANGED dedup
           \/ /\ dedup[n][KindOf(e)] # ReadKey(e)
              /\ dedup' = [dedup EXCEPT ![n] = OnlyKey(@, KindOf(e), ReadKey(e))]
              /\ monitor' = [monitor EXCEPT ![n] = [pc |-> "send", entry |-> e]]
        /\ UNCHANGED <<clip, notified, proxy, fromq, toq, oldq, link, seen, lost, copies>>

\* try_send: nothing happens when the channel is full, when the files cannot be
\* read or when the image cannot be encoded.
MonitorSend(n) ==
    LET e == monitor[n].entry
    IN  /\ monitor[n].pc = "send"
        /\ monitor' = [monitor EXCEPT ![n] = Idle]
        /\ \/ /\ Len(fromq[n]) < ChannelCapacity
              /\ fromq' = [fromq EXCEPT ![n] = Append(@, ContentOf(e))]
              /\ UNCHANGED lost
           \/ /\ \/ Len(fromq[n]) = ChannelCapacity
                 \/ Failures /\ KindOf(e) # "text"
              /\ lost' = lost \cup {n}
              /\ UNCHANGED fromq
        /\ UNCHANGED <<clip, notified, dedup, proxy, toq, oldq, link, seen, copies>>

-------------------------------------------------------------------------------
(* The proxy task: channel_proxy -> set_clipboard_content.                   *)

ProxyLeavesDedup(n, c) == dedup[n]                                     \* mutant
\* The dedup state that is stored before the clipboard is written.
DedupBefore(n, c) == OnlyKey(dedup[n], KindOf(c), SetKey(c))

\* First half: the content is taken and the dedup state updated.
ProxyTake(n) ==
    /\ proxy[n] = Idle
    /\ toq[n] # <<>>
    /\ toq' = [toq EXCEPT ![n] = Tail(@)]
    /\ \/ /\ dedup' = [dedup EXCEPT ![n] = DedupBefore(n, Head(toq[n]))]
          /\ proxy' = [proxy EXCEPT ![n] = [pc |-> "write", content |-> Head(toq[n])]]
          /\ UNCHANGED lost
       \/ /\ Failures                  \* Clipboard::new failed, or no file was saved
          /\ lost' = lost \cup {n}
          /\ UNCHANGED <<dedup, proxy>>
    /\ UNCHANGED <<clip, notified, monitor, fromq, oldq, link, seen, copies>>

Received(c) == [item |-> c.item, form |-> c.form, remote |-> TRUE]

\* Second half: the clipboard is written, or the write fails.
ProxyWrite(n) ==
    LET c == proxy[n].content
    IN  /\ proxy[n].pc = "write"
        /\ proxy' = [proxy EXCEPT ![n] = Idle]
        /\ \/ /\ SetClip(n, Received(c))
              /\ UNCHANGED lost
           \/ /\ Failures /\ KindOf(c) # "files"
              /\ lost' = lost \cup {n}
              /\ UNCHANGED <<clip, notified>>
        /\ UNCHANGED <<dedup, monitor, fromq, toq, oldq, link, seen, copies>>

\* The native file list cannot be written: its paths will be, as text.
ProxyFallback(n) ==
    LET c     == proxy[n].content
        paths == [item |-> c.item, form |-> "paths"]
    IN  /\ Failures
        /\ proxy[n].pc = "write"
        /\ KindOf(c) = "files"
        /\ dedup' = [dedup EXCEPT ![n] = [@ EXCEPT !["text"] = SetKey(paths)]]
        /\ proxy' = [proxy EXCEPT ![n].content = paths]
        /\ lost' = lost \cup {n}
        /\ UNCHANGED <<clip, notified, monitor, fromq, toq, oldq, link, seen, copies>>

-------------------------------------------------------------------------------
(* The network, and the restart of a node.                                   *)

\* `run` takes a content from the channel and publishes it.  One that fits in a
\* message and is in the duplicate cache is dropped.
Publish(n) ==
    LET c == Head(fromq[n])
    IN  /\ fromq[n] # <<>>
        /\ fromq' = [fromq EXCEPT ![n] = Tail(@)]
        /\ \/ /\ IsLarge(c) \/ c \notin seen[n]
              /\ seen' = [seen EXCEPT ![n] = IF IsLarge(c) THEN @ ELSE @ \cup {c}]
              /\ link' = [link EXCEPT ![n] =
                            [m \in Nodes |-> IF m = n THEN @[m] ELSE Append(@[m], c)]]
           \/ /\ ~IsLarge(c) /\ c \in seen[n]
              /\ UNCHANGED <<seen, link>>
        /\ UNCHANGED <<clip, notified, dedup, monitor, proxy, toq, oldq, lost, copies>>

\* A content arrives and is sent to the proxy, unless it is a duplicate; `run`
\* waits while the channel is full.
Receive(m, n) ==
    LET c == Head(link[m][n])
    IN  /\ link[m][n] # <<>>
        /\ link' = [link EXCEPT ![m][n] = Tail(@)]
        /\ \/ /\ IsLarge(c) \/ c \notin seen[n]
              /\ Len(toq[n]) < ChannelCapacity
              /\ seen' = [seen EXCEPT ![n] = IF IsLarge(c) THEN @ ELSE @ \cup {c}]
              /\ toq' = [toq EXCEPT ![n] = Append(@, c)]
           \/ /\ ~IsLarge(c) /\ c \in seen[n]
              /\ UNCHANGED <<seen, toq>>
        /\ UNCHANGED <<clip, notified, dedup, monitor, proxy, fromq, oldq, lost, copies>>

\* duplicate_cache_time passes while the system is at rest.
CacheExpires(n) ==
    /\ User = "patient"
    /\ Quiet
    /\ seen[n] # {}
    /\ seen' = [seen EXCEPT ![n] = {}]
    /\ UNCHANGED <<clip, notified, dedup, monitor, proxy, fromq, toq, oldq, link, lost, copies>>

\* main starts over: new channels, a new dedup state, a new monitor that hears of
\* later changes only.  The old monitor has lost its receiver; the old proxy is
\* told to stop but not waited for, and may go on with what is in its channel.
\* Bound: a node does not restart again before that.
Restart(n) ==
    /\ Restarts
    /\ oldq[n] = <<>>
    /\ dedup' = [dedup EXCEPT ![n] = DedupNew]
    /\ notified' = [notified EXCEPT ![n] = FALSE]
    /\ monitor' = [monitor EXCEPT ![n] = Idle]
    /\ proxy' = [proxy EXCEPT ![n] = Idle]
    /\ fromq' = [fromq EXCEPT ![n] = <<>>]
    /\ toq' = [toq EXCEPT ![n] = <<>>]
    /\ oldq' = [oldq EXCEPT ![n] =
                    IF proxy[n] = Idle THEN toq[n] ELSE <<proxy[n].content>> \o toq[n]]
    /\ link' = [m \in Nodes |-> [link[m] EXCEPT ![n] = <<>>]]
    /\ seen' = [seen EXCEPT ![n] = {}]
    /\ lost' = lost \cup {n}
    /\ UNCHANGED <<clip, copies>>

\* The old proxy writes; the dedup state it updates is nobody's any more.
OldProxyWrite(n) ==
    /\ oldq[n] # <<>>
    /\ oldq' = [oldq EXCEPT ![n] = Tail(@)]
    /\ SetClip(n, Received(Head(oldq[n])))
    /\ UNCHANGED <<dedup, monitor, proxy, fromq, toq, link, seen, lost, copies>>

OldProxyStops(n) ==
    /\ oldq[n] # <<>>
    /\ oldq' = [oldq EXCEPT ![n] = <<>>]
    /\ UNCHANGED <<clip, notified, dedup, monitor, proxy, fromq, toq, link, seen, lost, copies>>

Next ==
    \E n \in Nodes :
        \/ \E x \in Items : Copy(n, x)
        \/ MonitorRead(n) \/ MonitorMark(n) \/ MonitorSend(n)
        \/ ProxyTake(n) \/ ProxyWrite(n) \/ ProxyFallback(n)
        \/ Publish(n)
        \/ \E m \in Nodes : Receive(m, n)
        \/ CacheExpires(n)
        \/ Restart(n) \/ OldProxyWrite(n) \/ OldProxyStops(n)

Spec == Init /\ [][Next]_vars

\* Threads, tasks and the network get on.  Nothing makes a user copy.
Fairness ==
    \A n \in Nodes :
        /\ WF_vars(MonitorRead(n)) /\ WF_vars(MonitorMark(n)) /\ WF_vars(MonitorSend(n))
        /\ WF_vars(ProxyTake(n)) /\ WF_vars(ProxyWrite(n))
        /\ WF_vars(Publish(n))
        /\ \A m \in Nodes : WF_vars(Receive(m, n))

FairSpec == Spec /\ Fairness

-------------------------------------------------------------------------------
(* Properties.                                                               *)

\* Every variable has its type.
TypeOK ==
    /\ clip \in [Nodes -> Entries \cup {EmptyClip}]
    /\ notified \in [Nodes -> BOOLEAN]
    /\ dedup \in [Nodes -> [Kinds -> Keys \cup {None}]]
    /\ monitor \in [Nodes -> {Idle} \cup [pc : {"read", "send"}, entry : Entries]]
    /\ proxy \in [Nodes -> {Idle} \cup [pc : {"write"}, content : Contents]]
    /\ fromq \in [Nodes -> Seq(Contents)]
    /\ toq \in [Nodes -> Seq(Contents)]
    /\ oldq \in [Nodes -> Seq(Contents)]
    /\ link \in [Nodes -> [Nodes -> Seq(Contents)]]
    /\ seen \in [Nodes -> SUBSET Contents]
    /\ lost \subseteq Nodes
    /\ copies \in 0 .. MaxCopies

\* Whenever the monitor and the proxy of a node have nothing left to do, the dedup
\* state they share describes what is in the clipboard (or is that of a node that
\* has just restarted).  A state left behind by a race would make
\* get_clipboard_content skip a later copy as already known.
DedupCurrent ==
    ~Failures =>
        \A n \in Nodes :
            LocallyQuiet(n) => dedup[n] = DedupNew \/ Describes(dedup[n], clip[n])

\* Why, as an inductive invariant: unless a change is to be looked at or the proxy
\* is about to make one, the monitor works on what is in the clipboard, and has
\* left its key in the dedup state once it has passed the lock.
HasOneKey(d) ==
    \E kind \in Kinds, key \in Keys \cup {None} : d = OnlyKey(DedupNew, kind, key)
MonitorIsCurrent(n) ==
    /\ monitor[n] = Idle => dedup[n] = DedupNew \/ Describes(dedup[n], clip[n])
    /\ monitor[n].pc = "read" => monitor[n].entry = clip[n]
    /\ monitor[n].pc = "send" => Describes(dedup[n], clip[n])
DedupInv ==
    /\ TypeOK
    /\ \A n \in Nodes : notified[n] => clip[n] \in Entries
    /\ ~Failures =>
            \A n \in Nodes :
                /\ HasOneKey(dedup[n])
                /\ ~notified[n] /\ proxy[n] = Idle => MonitorIsCurrent(n)

\* Text and files that set_clipboard_content wrote are not sent back by
\* get_clipboard_content.
NoEcho ==
    \A n \in Nodes :
        monitor[n].pc = "send" /\ KindOf(monitor[n].entry) # "image" =>
            ~monitor[n].entry.remote

\* When all is at rest, all machines have the same in their clipboards, unless an
\* access, a full channel or a restart has lost something since the last copy of
\* what was new to its machine.  Such losses do not last: the next new copy makes all
\* machines the same again.
Synchronized ==
    Quiet /\ lost = {} => \A m, n \in Nodes : ContentOf(clip[m]) = ContentOf(clip[n])

\* Copying does not start a loop: all machines come to rest again and again.
ComesToRest == []<>Quiet
===============================================================================
