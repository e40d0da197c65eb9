-------------------------- MODULE ClipboardSyncProofs --------------------------
(* Proofs about ClipboardSync, for any number of nodes and items, any        *)
(* capacity of the channels, and every interleaving of users, monitors,      *)
(* proxies and restarts.                                                     *)
EXTENDS ClipboardSync, TLAPS

-------------------------------------------------------------------------------
(* Keys.                                                                     *)

\* The monitor's key of an entry and the proxy's key of a content are keys.
LEMMA KeyType ==
    /\ \A e \in Entries : KindOf(e) \in Kinds /\ ReadKey(e) \in Keys
    /\ \A x \in Contents : KindOf(x) \in Kinds /\ SetKey(x) \in Keys
<1> USE ItemsAssumption DEF Kinds, Keys, Forms
<1>1. ASSUME NEW e \in Entries PROVE KindOf(e) \in Kinds /\ ReadKey(e) \in Keys
  <2>1. e.item \in Items /\ e.form \in Forms
    BY DEF Entries
  <2>2. KindOf(e) \in Kinds
    BY <2>1 DEF KindOf
  <2>3. CASE KindOf(e) = "text"
    BY <2>1, <2>3 DEF ReadKey
  <2>4. CASE KindOf(e) = "image"
    BY <2>1, <2>4 DEF ReadKey
  <2>5. CASE KindOf(e) = "files"
    BY <2>1, <2>5 DEF ReadKey
  <2> QED BY <2>2, <2>3, <2>4, <2>5
<1>2. ASSUME NEW x \in Contents PROVE KindOf(x) \in Kinds /\ SetKey(x) \in Keys
  <2>1. x.item \in Items /\ x.form \in Forms
    BY DEF Contents
  <2>2. KindOf(x) \in Kinds
    BY <2>1 DEF KindOf
  <2>3. CASE KindOf(x) = "text"
    BY <2>1, <2>3 DEF SetKey
  <2>4. CASE KindOf(x) = "image"
    BY <2>1, <2>4 DEF SetKey
  <2>5. CASE KindOf(x) = "files"
    BY <2>1, <2>5 DEF SetKey
  <2> QED BY <2>2, <2>3, <2>4, <2>5
<1> QED BY <1>1, <1>2

DedupStates == [Kinds -> Keys \cup {None}]

\* A dedup state with one key is a dedup state, and so is the new one.
LEMMA OnlyKeyType ==
    /\ DedupNew \in DedupStates
    /\ \A d : \A kind \in Kinds, key \in Keys : OnlyKey(d, kind, key) \in DedupStates
BY DEF DedupNew, OnlyKey, DedupStates

-------------------------------------------------------------------------------
(* TypeOK and the conjunct on notified are kept by every step.               *)

Typed == TypeOK /\ \A n \in Nodes : notified[n] => clip[n] \in Entries

LEMMA TypedInit == Init => Typed
BY BoundsAssumption, OnlyKeyType DEF Init, Typed, TypeOK, DedupStates

\* Writing an entry to the clipboard.
LEMMA SetClipType ==
    ASSUME Typed, NEW n \in Nodes, NEW e \in Entries, SetClip(n, e)
    PROVE  /\ clip' \in [Nodes -> Entries \cup {EmptyClip}]
           /\ notified' \in [Nodes -> BOOLEAN]
           /\ \A k \in Nodes : notified'[k] => clip'[k] \in Entries
           /\ clip'[n] = e /\ notified'[n]
<1>1. /\ clip \in [Nodes -> Entries \cup {EmptyClip}]
      /\ notified \in [Nodes -> BOOLEAN]
      /\ \A k \in Nodes : notified[k] => clip[k] \in Entries
  BY DEF Typed, TypeOK
<1>2. clip' = [clip EXCEPT ![n] = e] /\ notified' = [notified EXCEPT ![n] = TRUE]
  BY DEF SetClip
<1> QED BY <1>1, <1>2

LEMMA CopyType ==
    ASSUME Typed, NEW n \in Nodes, NEW x \in Items, Copy(n, x) PROVE Typed'
<1> DEFINE e == [item |-> x, form |-> "native", remote |-> FALSE]
<1>1. e \in Entries
  BY DEF Entries, Forms
<1>2. SetClip(n, e) /\ copies' = copies + 1 /\ copies < MaxCopies
  BY DEF Copy
<1> HIDE DEF e
<1>3. copies' \in 0 .. MaxCopies
  BY <1>2, BoundsAssumption DEF Typed, TypeOK
<1> QED BY <1>1, <1>2, <1>3, SetClipType DEF Copy, Typed, TypeOK

LEMMA MonitorType ==
    ASSUME Typed, NEW n \in Nodes, MonitorRead(n) \/ MonitorMark(n) \/ MonitorSend(n)
    PROVE  Typed'
<1> DEFINE Working == {Idle} \cup [pc : {"read", "send"}, entry : Entries]
<1>1. /\ monitor \in [Nodes -> Working]
      /\ dedup \in [Nodes -> DedupStates]
      /\ notified \in [Nodes -> BOOLEAN]
      /\ fromq \in [Nodes -> Seq(Contents)]
  BY DEF Typed, TypeOK, DedupStates
<1>2. monitor[n].pc \in {"read", "send"} => monitor[n].entry \in Entries
  BY <1>1 DEF Idle
<1>3. CASE MonitorRead(n)
  <2>1. clip[n] \in Entries
    BY <1>3 DEF MonitorRead, Typed
  <2>2. monitor' \in [Nodes -> Working]
    <3> DEFINE new == [pc |-> "read", entry |-> clip[n]]
    <3>1. new \in Working
      BY <2>1
    <3>2. monitor' = [monitor EXCEPT ![n] = new] \/ monitor' = monitor
      BY <1>3 DEF MonitorRead
    <3> HIDE DEF new, Working
    <3> QED BY <1>1, <3>1, <3>2
  <2>3. /\ notified' \in [Nodes -> BOOLEAN]
        /\ \A k \in Nodes : notified'[k] => clip[k] \in Entries
    BY <1>1, <1>3 DEF MonitorRead, Typed
  <2> QED BY <1>3, <2>2, <2>3 DEF MonitorRead, Typed, TypeOK
<1>4. CASE MonitorMark(n)
  <2> DEFINE e == monitor[n].entry
  <2>1. e \in Entries
    BY <1>2, <1>4 DEF MonitorMark
  <2>2. OnlyKey(dedup[n], KindOf(e), ReadKey(e)) \in DedupStates
    BY <2>1, KeyType, OnlyKeyType
  <2>3. dedup' \in [Nodes -> DedupStates]
    BY <1>1, <1>4, <2>2 DEF MonitorMark
  <2>4. monitor' \in [Nodes -> Working]
    <3> DEFINE new == [pc |-> "send", entry |-> e]
    <3>1. new \in Working /\ Idle \in Working
      BY <2>1
    <3>2. monitor' = [monitor EXCEPT ![n] = new] \/ monitor' = [monitor EXCEPT ![n] = Idle]
      BY <1>4 DEF MonitorMark
    <3> HIDE DEF new, Working
    <3> QED BY <1>1, <3>1, <3>2
  <2> QED BY <1>4, <2>3, <2>4 DEF MonitorMark, Typed, TypeOK, DedupStates
<1>5. CASE MonitorSend(n)
  <2> DEFINE x == ContentOf(monitor[n].entry)
  <2>1. x \in Contents
    BY <1>2, <1>5 DEF MonitorSend, ContentOf, Contents, Entries
  <2> HIDE DEF x
  <2>2. fromq' \in [Nodes -> Seq(Contents)]
    <3>1. fromq' = [fromq EXCEPT ![n] = Append(@, x)] \/ fromq' = fromq
      BY <1>5 DEF MonitorSend, x
    <3>2. Append(fromq[n], x) \in Seq(Contents)
      BY <1>1, <2>1
    <3> HIDE DEF Working
    <3> QED BY <1>1, <3>1, <3>2
  <2>3. monitor' \in [Nodes -> Working]
    BY <1>1, <1>5 DEF MonitorSend
  <2> QED BY <1>5, <2>2, <2>3 DEF MonitorSend, Typed, TypeOK
<1> QED BY <1>3, <1>4, <1>5

LEMMA ReceivedType == \A x \in Contents : Received(x) \in Entries
BY DEF Received, Contents, Entries

LEMMA ProxyType ==
    ASSUME Typed, NEW n \in Nodes, ProxyTake(n) \/ ProxyWrite(n) \/ ProxyFallback(n)
    PROVE  Typed'
<1> DEFINE Writing == {Idle} \cup [pc : {"write"}, content : Contents]
<1>1. /\ proxy \in [Nodes -> Writing]
      /\ dedup \in [Nodes -> DedupStates]
      /\ toq \in [Nodes -> Seq(Contents)]
  BY DEF Typed, TypeOK, DedupStates
<1>2. proxy[n].pc = "write" => proxy[n].content \in Contents
  BY <1>1 DEF Idle
<1>3. CASE ProxyTake(n)
  <2> DEFINE x == Head(toq[n])
  <2>1. x \in Contents /\ Tail(toq[n]) \in Seq(Contents)
    BY <1>1, <1>3 DEF ProxyTake
  <2>2. DedupBefore(n, x) \in DedupStates
    BY <2>1, KeyType, OnlyKeyType DEF DedupBefore
  <2>3. toq' \in [Nodes -> Seq(Contents)]
    BY <1>1, <1>3, <2>1 DEF ProxyTake
  <2>4. dedup' \in [Nodes -> DedupStates]
    BY <1>1, <1>3, <2>2 DEF ProxyTake
  <2>5. proxy' \in [Nodes -> Writing]
    BY <1>1, <1>3, <2>1 DEF ProxyTake
  <2> QED BY <1>3, <2>3, <2>4, <2>5 DEF ProxyTake, Typed, TypeOK, DedupStates
<1>4. CASE ProxyWrite(n)
  <2>1. Received(proxy[n].content) \in Entries
    BY <1>2, <1>4, ReceivedType DEF ProxyWrite
  <2>2. proxy' \in [Nodes -> Writing]
    BY <1>1, <1>4 DEF ProxyWrite
  <2>3. CASE SetClip(n, Received(proxy[n].content))
    BY <1>4, <2>1, <2>2, <2>3, SetClipType DEF ProxyWrite, Typed, TypeOK
  <2>4. CASE UNCHANGED <<clip, notified>>
    BY <1>4, <2>2, <2>4 DEF ProxyWrite, Typed, TypeOK
  <2> QED BY <1>4, <2>3, <2>4 DEF ProxyWrite
<1>5. CASE ProxyFallback(n)
  <2> DEFINE paths == [item |-> proxy[n].content.item, form |-> "paths"]
             d == [dedup[n] EXCEPT !["text"] = SetKey(paths)]
  <2>1. paths \in Contents /\ proxy[n] \in [pc : {"write"}, content : Contents]
    BY <1>1, <1>2, <1>5 DEF ProxyFallback, Contents, Forms, Idle
  <2>2. SetKey(paths) \in Keys
    BY <2>1, KeyType
  <2>3. dedup' = [dedup EXCEPT ![n] = d] /\ proxy' = [proxy EXCEPT ![n].content = paths]
    BY <1>5 DEF ProxyFallback
  <2> HIDE DEF paths
  <2>4. d \in DedupStates
    BY <1>1, <2>2 DEF DedupStates, Kinds
  <2> HIDE DEF d
  <2>5. dedup' \in [Nodes -> DedupStates]
    BY <1>1, <2>3, <2>4
  <2>6. [proxy[n] EXCEPT !.content = paths] \in [pc : {"write"}, content : Contents]
    BY <2>1
  <2>7. proxy' \in [Nodes -> Writing]
    BY <1>1, <2>3, <2>6
  <2> QED BY <1>5, <2>5, <2>7 DEF ProxyFallback, Typed, TypeOK, DedupStates
<1> QED BY <1>3, <1>4, <1>5

LEMMA NetworkType ==
    ASSUME Typed, NEW n \in Nodes, NEW m \in Nodes,
           Publish(n) \/ Receive(m, n) \/ CacheExpires(n)
    PROVE  Typed'
<1>1. /\ fromq \in [Nodes -> Seq(Contents)] /\ toq \in [Nodes -> Seq(Contents)]
      /\ link \in [Nodes -> [Nodes -> Seq(Contents)]]
      /\ seen \in [Nodes -> SUBSET Contents]
  BY DEF Typed, TypeOK
<1>2. CASE Publish(n)
  <2> DEFINE x == Head(fromq[n])
             row == [k \in Nodes |-> IF k = n THEN link[n][k] ELSE Append(link[n][k], x)]
  <2>1. x \in Contents /\ fromq' \in [Nodes -> Seq(Contents)]
    BY <1>1, <1>2 DEF Publish
  <2> HIDE DEF x
  <2>2. row \in [Nodes -> Seq(Contents)]
    BY <1>1, <2>1
  <2>3. link' = [link EXCEPT ![n] = row] \/ link' = link
    BY <1>2 DEF Publish, x
  <2> HIDE DEF row
  <2>4. link' \in [Nodes -> [Nodes -> Seq(Contents)]]
    BY <1>1, <2>2, <2>3
  <2>5. seen' \in [Nodes -> SUBSET Contents]
    <3>1. seen' = seen \/ seen' = [seen EXCEPT ![n] = @] \/ seen' = [seen EXCEPT ![n] = @ \cup {x}]
      BY <1>2 DEF Publish, x
    <3> QED BY <1>1, <2>1, <3>1
  <2> QED BY <1>2, <2>1, <2>4, <2>5 DEF Publish, Typed, TypeOK
<1>3. CASE Receive(m, n)
  <2> DEFINE x == Head(link[m][n])
  <2>1. x \in Contents /\ Tail(link[m][n]) \in Seq(Contents)
    BY <1>1, <1>3 DEF Receive
  <2>2. link' \in [Nodes -> [Nodes -> Seq(Contents)]]
    BY <1>1, <1>3, <2>1 DEF Receive
  <2> HIDE DEF x
  <2>3. toq' \in [Nodes -> Seq(Contents)] /\ seen' \in [Nodes -> SUBSET Contents]
    <3>1. toq' = toq \/ toq' = [toq EXCEPT ![n] = Append(@, x)]
      BY <1>3 DEF Receive, x
    <3>2. seen' = seen \/ seen' = [seen EXCEPT ![n] = @] \/ seen' = [seen EXCEPT ![n] = @ \cup {x}]
      BY <1>3 DEF Receive, x
    <3>3. Append(toq[n], x) \in Seq(Contents)
      BY <1>1, <2>1
    <3>4. toq' \in [Nodes -> Seq(Contents)]
      BY <1>1, <3>1, <3>3
    <3>5. seen' \in [Nodes -> SUBSET Contents]
      BY <1>1, <2>1, <3>2
    <3> QED BY <3>4, <3>5
  <2> QED BY <1>3, <2>2, <2>3 DEF Receive, Typed, TypeOK
<1>4. CASE CacheExpires(n)
  BY <1>1, <1>4 DEF CacheExpires, Typed, TypeOK
<1> QED BY <1>2, <1>3, <1>4

LEMMA RestartType ==
    ASSUME Typed, NEW n \in Nodes, Restart(n) \/ OldProxyWrite(n) \/ OldProxyStops(n)
    PROVE  Typed'
<1>1. CASE Restart(n)
  <2> USE <1>1 DEF Restart
  <2>1. /\ dedup' \in [Nodes -> DedupStates]
        /\ notified' \in [Nodes -> BOOLEAN]
        /\ \A k \in Nodes : notified'[k] => clip'[k] \in Entries
    BY OnlyKeyType DEF Typed, TypeOK, DedupStates
  <2>2. /\ monitor' \in [Nodes -> {Idle} \cup [pc : {"read", "send"}, entry : Entries]]
        /\ proxy' \in [Nodes -> {Idle} \cup [pc : {"write"}, content : Contents]]
    BY DEF Typed, TypeOK
  <2>3. fromq' \in [Nodes -> Seq(Contents)] /\ toq' \in [Nodes -> Seq(Contents)]
    BY DEF Typed, TypeOK
  <2>4. link' \in [Nodes -> [Nodes -> Seq(Contents)]] /\ seen' \in [Nodes -> SUBSET Contents]
    BY DEF Typed, TypeOK
  <2> DEFINE rest == IF proxy[n] = Idle THEN toq[n] ELSE <<proxy[n].content>> \o toq[n]
  <2>5. rest \in Seq(Contents)
    <3>1. toq[n] \in Seq(Contents) /\ (proxy[n] # Idle => proxy[n].content \in Contents)
      BY DEF Typed, TypeOK
    <3> QED BY <3>1
  <2> HIDE DEF rest
  <2>6. oldq' \in [Nodes -> Seq(Contents)]
    BY <2>5 DEF Typed, TypeOK, rest
  <2> QED BY <2>1, <2>2, <2>3, <2>4, <2>6 DEF Typed, TypeOK, DedupStates
<1>2. CASE OldProxyWrite(n)
  <2> USE <1>2 DEF OldProxyWrite
  <2>1. Head(oldq[n]) \in Contents /\ oldq' \in [Nodes -> Seq(Contents)]
    BY DEF Typed, TypeOK
  <2>2. Received(Head(oldq[n])) \in Entries
    BY <2>1, ReceivedType
  <2> QED BY <2>1, <2>2, SetClipType DEF Typed, TypeOK
<1>3. CASE OldProxyStops(n)
  BY <1>3 DEF OldProxyStops, Typed, TypeOK
<1> QED BY <1>1, <1>2, <1>3

LEMMA TypedNext == Typed /\ [Next]_vars => Typed'
<1> SUFFICES ASSUME Typed, [Next]_vars PROVE Typed'
  OBVIOUS
<1>1. CASE UNCHANGED vars
  BY <1>1 DEF vars, Typed, TypeOK
<1>2. CASE Next
  BY <1>2, CopyType, MonitorType, ProxyType, NetworkType, RestartType DEF Next
<1> QED BY <1>1, <1>2

-------------------------------------------------------------------------------
(* DedupInv is inductive.                                                    *)

\* The part of DedupInv that is about node k.
Current(k) ==
    /\ HasOneKey(dedup[k])
    /\ ~notified[k] /\ proxy[k] = Idle => MonitorIsCurrent(k)

\* A step that leaves the five variables of a node alone keeps its part.
LEMMA CurrentFrame ==
    ASSUME NEW k \in Nodes, Current(k),
           clip'[k] = clip[k], notified'[k] = notified[k], dedup'[k] = dedup[k],
           monitor'[k] = monitor[k], proxy'[k] = proxy[k]
    PROVE  Current(k)'
BY DEF Current, MonitorIsCurrent, Describes

\* Once a change is noted, or the proxy is about to make one, little is claimed.
LEMMA CurrentVacuous ==
    ASSUME NEW k \in Nodes, HasOneKey(dedup'[k]), notified'[k] \/ proxy'[k] # Idle
    PROVE  Current(k)'
BY DEF Current

\* The dedup states the monitor, the proxy and a restart leave have one key.
LEMMA OneKey ==
    /\ HasOneKey(DedupNew)
    /\ \A d : \A kind \in Kinds, key \in Keys : HasOneKey(OnlyKey(d, kind, key))
<1>1. DedupNew = OnlyKey(DedupNew, "text", None) /\ "text" \in Kinds
  BY DEF OnlyKey, DedupNew, Kinds
<1>2. \A d, kind, key : OnlyKey(d, kind, key) = OnlyKey(DedupNew, kind, key)
  BY DEF OnlyKey
<1> HIDE DEF OnlyKey
<1>3. HasOneKey(DedupNew)
  BY <1>1 DEF HasOneKey
<1>4. ASSUME NEW d, NEW kind \in Kinds, NEW key \in Keys PROVE HasOneKey(OnlyKey(d, kind, key))
  BY <1>2 DEF HasOneKey
<1> QED BY <1>3, <1>4

\* A hit: the one key of the state is the key of the entry.
LEMMA HitDescribes ==
    ASSUME NEW d, HasOneKey(d), NEW e \in Entries, d[KindOf(e)] = ReadKey(e)
    PROVE  Describes(d, e)
<1>1. PICK kind \in Kinds, key \in Keys \cup {None} : d = OnlyKey(DedupNew, kind, key)
  BY DEF HasOneKey
<1>2. KindOf(e) \in Kinds /\ ReadKey(e) \in Keys /\ ReadKey(e) # None
  BY KeyType, NoneAssumption
<1>3. d[KindOf(e)] = IF kind = KindOf(e) THEN key ELSE None
  BY <1>1, <1>2 DEF OnlyKey, DedupNew
<1>4. kind = KindOf(e) /\ key = ReadKey(e)
  BY <1>2, <1>3
<1> QED BY <1>1, <1>4 DEF Describes

\* A step keeps the part of a node, unless an access to the clipboard or to a file
\* fails in it.
LEMMA CurrentNext ==
    ASSUME Typed, Failures => lost' = {}, NEW k \in Nodes, Current(k), [Next]_vars
    PROVE  Current(k)'
<1>1. /\ clip \in [Nodes -> Entries \cup {EmptyClip}]
      /\ notified \in [Nodes -> BOOLEAN]
      /\ dedup \in [Nodes -> DedupStates]
      /\ monitor \in [Nodes -> {Idle} \cup [pc : {"read", "send"}, entry : Entries]]
      /\ proxy \in [Nodes -> {Idle} \cup [pc : {"write"}, content : Contents]]
  BY DEF Typed, TypeOK, DedupStates
<1>2. CASE UNCHANGED <<clip, notified, dedup, monitor, proxy>>
  BY <1>2, CurrentFrame
<1>3. ASSUME NEW n \in Nodes, NEW e, SetClip(n, e), UNCHANGED <<dedup, monitor>>,
             \A j \in Nodes : j # n => proxy'[j] = proxy[j]
      PROVE  Current(k)'
  <2>1. CASE k = n
    BY <1>1, <1>3, <2>1, CurrentVacuous DEF SetClip, Current
  <2>2. CASE k # n
    BY <1>1, <1>3, <2>2, CurrentFrame DEF SetClip
  <2> QED BY <2>1, <2>2
<1>4. ASSUME NEW n \in Nodes, MonitorRead(n) PROVE Current(k)'
  <2>1. CASE k = n
    <3>1. /\ monitor'[k] = [pc |-> "read", entry |-> clip[k]]
          /\ clip'[k] = clip[k] /\ dedup'[k] = dedup[k]
      BY <1>1, <1>4, <2>1 DEF MonitorRead
    <3>2. MonitorIsCurrent(k)'
      BY <3>1 DEF MonitorIsCurrent, Idle
    <3> QED BY <3>1, <3>2 DEF Current
  <2>2. CASE k # n
    BY <1>1, <1>4, <2>2, CurrentFrame DEF MonitorRead
  <2> QED BY <2>1, <2>2
<1>5. ASSUME NEW n \in Nodes, MonitorMark(n) PROVE Current(k)'
  <2>1. CASE k = n
    <3> DEFINE e == monitor[k].entry
               d == OnlyKey(dedup[k], KindOf(e), ReadKey(e))
    <3>1. e \in Entries /\ UNCHANGED <<clip, notified, proxy>> /\ monitor[k].pc = "read"
      BY <1>1, <1>5, <2>1 DEF MonitorMark, Idle
    <3>2. ~notified[k] /\ proxy[k] = Idle => e = clip[k]
      BY <3>1 DEF Current, MonitorIsCurrent
    <3>3. CASE /\ dedup[k][KindOf(e)] = ReadKey(e)
               /\ monitor' = [monitor EXCEPT ![k] = Idle] /\ UNCHANGED dedup
      <4>1. Describes(dedup[k], e)
        BY <3>1, <3>3, HitDescribes DEF Current
      <4>2. monitor'[k] = Idle
        BY <1>1, <3>3
      <4> QED BY <3>1, <3>2, <3>3, <4>1, <4>2 DEF Current, MonitorIsCurrent, Describes, Idle
    <3>4. CASE /\ dedup' = [dedup EXCEPT ![k] = OnlyKey(@, KindOf(e), ReadKey(e))]
               /\ monitor' = [monitor EXCEPT ![k] = [pc |-> "send", entry |-> e]]
      <4>1. dedup'[k] = d /\ monitor'[k] = [pc |-> "send", entry |-> e]
        BY <1>1, <3>4
      <4>2. HasOneKey(d)
        BY <3>1, KeyType, OneKey
      <4>3. Describes(d, e)
        BY DEF Describes, OnlyKey
      <4> QED BY <3>1, <3>2, <4>1, <4>2, <4>3 DEF Current, MonitorIsCurrent, Describes, Idle
    <3> QED BY <1>5, <2>1, <3>3, <3>4 DEF MonitorMark
  <2>2. CASE k # n
    BY <1>1, <1>5, <2>2, CurrentFrame DEF MonitorMark
  <2> QED BY <2>1, <2>2
<1>6. ASSUME NEW n \in Nodes, MonitorSend(n) PROVE Current(k)'
  <2>1. CASE k = n
    <3>1. UNCHANGED <<clip, notified, proxy, dedup>> /\ monitor[k].pc = "send" /\ monitor'[k] = Idle
      BY <1>1, <1>6, <2>1 DEF MonitorSend
    <3> QED BY <3>1 DEF Current, MonitorIsCurrent, Describes, Idle
  <2>2. CASE k # n
    BY <1>1, <1>6, <2>2, CurrentFrame DEF MonitorSend
  <2> QED BY <2>1, <2>2
<1>7. ASSUME NEW n \in Nodes, ProxyTake(n) PROVE Current(k)'
  <2> DEFINE x == Head(toq[n])
             new == [pc |-> "write", content |-> x]
  <2>1. /\ dedup' = [dedup EXCEPT ![n] = DedupBefore(n, x)]
        /\ proxy' = [proxy EXCEPT ![n] = new]
        /\ UNCHANGED <<clip, notified, monitor>>
    BY <1>7 DEF ProxyTake
  <2>2. x \in Contents
    BY <1>7 DEF ProxyTake, Typed, TypeOK
  <2>3. new # Idle
    BY DEF Idle
  <2>4. HasOneKey(DedupBefore(n, x))
    BY <2>2, KeyType, OneKey DEF DedupBefore
  <2> HIDE DEF new, x
  <2>5. CASE k = n
    BY <1>1, <2>1, <2>3, <2>4, <2>5, CurrentVacuous
  <2>6. CASE k # n
    BY <1>1, <2>1, <2>6, CurrentFrame
  <2> QED BY <2>5, <2>6
<1>8. ASSUME NEW n \in Nodes, Restart(n) PROVE Current(k)'
  <2>1. CASE k = n
    <3>1. dedup'[k] = DedupNew /\ monitor'[k] = Idle
      BY <1>1, <1>8, <2>1 DEF Restart
    <3> QED BY <3>1, OneKey DEF Current, MonitorIsCurrent, Idle
  <2>2. CASE k # n
    BY <1>1, <1>8, <2>2, CurrentFrame DEF Restart
  <2> QED BY <2>1, <2>2
<1>9. ASSUME NEW n \in Nodes, NEW x \in Items, Copy(n, x) PROVE Current(k)'
  BY <1>3, <1>9 DEF Copy
<1>10. ASSUME NEW n \in Nodes, ProxyWrite(n) PROVE Current(k)'
  BY <1>1, <1>3, <1>10 DEF ProxyWrite
<1>11. ASSUME NEW n \in Nodes, OldProxyWrite(n) PROVE Current(k)'
  BY <1>3, <1>11 DEF OldProxyWrite
<1>12. ASSUME NEW n \in Nodes, NEW m \in Nodes,
              \/ Publish(n) \/ Receive(m, n) \/ CacheExpires(n) \/ OldProxyStops(n)
       PROVE  Current(k)'
  BY <1>2, <1>12 DEF Publish, Receive, CacheExpires, OldProxyStops
<1>13. ASSUME NEW n \in Nodes, ProxyFallback(n) PROVE FALSE
  BY <1>13 DEF ProxyFallback
<1>14. CASE UNCHANGED vars
  BY <1>2, <1>14 DEF vars
<1>15. CASE Next
  BY <1>4, <1>5, <1>6, <1>7, <1>8, <1>9, <1>10, <1>11, <1>12, <1>13, <1>15 DEF Next
<1> QED BY <1>14, <1>15

-------------------------------------------------------------------------------
(* The theorems.                                                             *)

LEMMA DedupInvInit == Init => DedupInv
<1> SUFFICES ASSUME Init PROVE DedupInv
  OBVIOUS
<1>1. Typed
  BY TypedInit
<1>2. ASSUME NEW n \in Nodes PROVE HasOneKey(dedup[n]) /\ MonitorIsCurrent(n)
  <2>1. dedup[n] = DedupNew /\ monitor[n] = Idle
    BY DEF Init
  <2> QED BY <2>1, OneKey DEF MonitorIsCurrent, Idle
<1> QED BY <1>1, <1>2 DEF DedupInv, Typed

LEMMA DedupInvNext == DedupInv /\ [Next]_vars => DedupInv'
<1> SUFFICES ASSUME DedupInv, [Next]_vars PROVE DedupInv'
  OBVIOUS
<1>1. Typed /\ Typed'
  BY TypedNext DEF DedupInv, Typed
<1>2. ASSUME ~Failures, NEW k \in Nodes PROVE Current(k)'
  <2>1. Current(k)
    BY <1>2 DEF DedupInv, Current
  <2> QED BY <1>1, <1>2, <2>1, CurrentNext
<1> QED BY <1>1, <1>2 DEF DedupInv, Typed, Current

\* The inductive invariant holds of every reachable state.
THEOREM DedupInvariant == Spec => []DedupInv
BY DedupInvInit, DedupInvNext, PTL DEF Spec

\* The variables keep their types.
THEOREM TypeCorrect == Spec => []TypeOK
<1>1. DedupInv => TypeOK
  BY DEF DedupInv
<1> QED BY <1>1, DedupInvariant, PTL

\* No interleaving of the user, the monitor, the proxy and a restart leaves a dedup
\* state behind that does not describe the clipboard.
THEOREM DedupCurrentHolds == Spec => []DedupCurrent
<1>1. DedupInv => DedupCurrent
  BY DEF DedupInv, DedupCurrent, LocallyQuiet, MonitorIsCurrent
<1> QED BY <1>1, DedupInvariant, PTL

-------------------------------------------------------------------------------
(* Proofs about ClipboardSync with users who copy one after the other, for   *)
(* any number of nodes, items and copies, any capacity of the channels, and  *)
(* with accesses to the clipboard and to files that fail: what the proxy     *)
(* writes is not sent back, and the machines end up with the same content.   *)
(*                                                                           *)
(* What follows one copy is a wave: it starts at the machine of the user and *)
(* passes through every other machine, and the next copy waits for its end.  *)

-------------------------------------------------------------------------------
(* The course of a wave.                                                     *)

Local(c) == [item |-> c.item, form |-> c.form, remote |-> FALSE]

\* A content, and the text that replaces files which cannot be written as such.
FormsOf(c) == {c, [item |-> c.item, form |-> "paths"]}

\* The proxy of n has left the key of f in the dedup state.
Known(n, f) ==
    IF KindOf(f) = "files" THEN dedup[n] = OnlyKey(DedupNew, "files", SetKey(f))
    ELSE dedup[n][KindOf(f)] = SetKey(f)

\* Machine n has nothing to do.
AtRest(n) == LocallyQuiet(n) /\ fromq[n] = <<>> /\ toq[n] = <<>>

\* The content c that was copied at o has not left o.
AtOrigin(o, c) ==
    /\ \A n \in Nodes : n # o => AtRest(n)
    /\ \A m, n \in Nodes : link[m][n] = <<>>
    /\ clip[o] = Local(c) /\ proxy[o] = Idle /\ toq[o] = <<>>
    /\ \/ notified[o] /\ monitor[o] = Idle /\ fromq[o] = <<>>
       \/ /\ ~notified[o] /\ fromq[o] = <<>>
          /\ \E pc \in {"read", "send"} : monitor[o] = [pc |-> pc, entry |-> Local(c)]
       \/ ~notified[o] /\ monitor[o] = Idle /\ fromq[o] = <<c>>

\* n deals with f: it is to be written, has been written, or is read again.
Handling(n, f) ==
    /\ KindOf(f) # "image" /\ Known(n, f)
    /\ \/ ~notified[n] /\ monitor[n] = Idle /\ proxy[n] = [pc |-> "write", content |-> f]
       \/ notified[n] /\ monitor[n] = Idle /\ proxy[n] = Idle /\ clip[n] = Received(f)
       \/ ~notified[n] /\ proxy[n] = Idle /\ monitor[n] = [pc |-> "read", entry |-> Received(f)]

\* Where n is with the copy of c that o has sent it.
Stage(n, o, c) ==
    \/ /\ LocallyQuiet(n)
       /\ \/ link[o][n] = <<>> /\ toq[n] = <<>>
          \/ link[o][n] = <<c>> /\ toq[n] = <<>>
          \/ link[o][n] = <<>> /\ toq[n] = <<c>>
    \/ /\ link[o][n] = <<>> /\ toq[n] = <<>>
       /\ \E f \in FormsOf(c) : Handling(n, f)

\* o has sent c to the others and has nothing more to do.
Spreading(o, c) ==
    /\ \A n \in Nodes : fromq[n] = <<>> /\ Stage(n, o, c)
    /\ \A m, n \in Nodes : m # o => link[m][n] = <<>>

\* An image is sent back: all machines may be at work, but only on images.
Images == {x \in Contents : KindOf(x) = "image"}
ImageWave ==
    \A n \in Nodes :
        /\ notified[n] => KindOf(clip[n]) = "image"
        /\ monitor[n] # Idle => KindOf(monitor[n].entry) = "image"
        /\ proxy[n] # Idle => proxy[n].content \in Images
        /\ fromq[n] \in Seq(Images) /\ toq[n] \in Seq(Images)
        /\ \A m \in Nodes : link[m][n] \in Seq(Images)

\* What a user copies is skipped as known only if the dedup state describes it.
LocalHits(d) ==
    \A x \in Items :
        LET e == [item |-> x, form |-> "native", remote |-> FALSE]
        IN  d[KindOf(e)] = ReadKey(e) => Describes(d, e)

\* The inductive invariant for NoEcho.
WaveInv ==
    /\ \A n \in Nodes : oldq[n] = <<>> /\ LocalHits(dedup[n])
    /\ \/ ImageWave
       \/ \E o \in Nodes, c \in Contents :
            KindOf(c) # "image" /\ (AtOrigin(o, c) \/ Spreading(o, c))

-------------------------------------------------------------------------------
(* What a wave leaves behind, as long as nothing is lost.                    *)

\* c is new at o and has not left o; nobody has seen it.
FreshAt(o, c) ==
    /\ AtOrigin(o, c)
    /\ \A n \in Nodes : seen[n] = {}
    /\ IF notified[o] \/ monitor[o].pc = "read"
       THEN dedup[o][KindOf(Local(c))] # ReadKey(Local(c))
       ELSE Describes(dedup[o], clip[o])

\* c is all there is on its way.
OnlyContent(c) ==
    \A n \in Nodes :
        /\ notified[n] => ContentOf(clip[n]) = c
        /\ monitor[n] # Idle => ContentOf(monitor[n].entry) = c
        /\ proxy[n] # Idle => proxy[n].content = c
        /\ fromq[n] \in Seq({c}) /\ toq[n] \in Seq({c})
        /\ \A m \in Nodes : link[m][n] \in Seq({c})
        /\ seen[n] \subseteq {c}

\* n has c in its clipboard, and its dedup state is, or will be, that of c.
Has(n, c) == ContentOf(clip[n]) = c /\ Current(n)

\* n is about to write c.
Takes(n) == toq[n] # <<>> \/ proxy[n] # Idle

\* n has dealt with c in some way.
Touched(n) == notified[n] \/ monitor[n] # Idle \/ fromq[n] # <<>> \/ seen[n] # {}

Reached(n, c) ==
    /\ proxy[n] # Idle => HasOneKey(dedup[n])
    /\ Touched(n) => Takes(n) \/ Has(n, c)
    /\ Takes(n) \/ Has(n, c) \/ \E m \in Nodes : link[m][n] # <<>>

Spread(c) == OnlyContent(c) /\ \A n \in Nodes : Reached(n, c)

\* The inductive invariant for Synchronized, together with WaveInv.
SyncInv ==
    lost = {} => (\E c : Spread(c)) \/ \E o \in Nodes, c \in Contents : FreshAt(o, c)

-------------------------------------------------------------------------------
(* Contents, entries and keys.                                               *)

LEMMA IdleFacts ==
    /\ Idle.pc = "idle"
    /\ \A pc, e : Idle # [pc |-> pc, entry |-> e] /\ Idle # [pc |-> pc, content |-> e]
  BY DEF Idle

\* An entry has the kind of its content, whoever wrote it.
LEMMA KindFacts ==
    /\ \A e : KindOf(ContentOf(e)) = KindOf(e)
    /\ \A c : KindOf(Received(c)) = KindOf(c) /\ KindOf(Local(c)) = KindOf(c)
    /\ \A e \in Entries : ContentOf(e) \in Contents
    /\ \A c \in Contents : ContentOf(Local(c)) = c /\ ContentOf(Received(c)) = c
    /\ \A c \in Contents : Local(c) \in Entries /\ Received(c) \in Entries
  BY DEF KindOf, ContentOf, Received, Local, Entries, Contents

\* What the monitor reads of text or files from the network, the proxy has stored.
LEMMA KeysMeet ==
    ASSUME NEW f \in Contents, KindOf(f) # "image"
    PROVE  ReadKey(Received(f)) = SetKey(f)
  <1>1. KindOf(f) \in {"text", "files"}
    BY KeyType DEF Kinds
  <1>2. KindOf(Received(f)) = KindOf(f)
    BY KindFacts
  <1>3. Received(f).form = f.form /\ Received(f).item = f.item /\ Received(f).remote
    BY DEF Received
  <1> QED
    BY <1>1, <1>2, <1>3 DEF ReadKey, SetKey

\* FormsOf(c) are contents; a list of paths is a text.
LEMMA FormsFacts ==
    ASSUME NEW c \in Contents
    PROVE  /\ FormsOf(c) \subseteq Contents
           /\ KindOf([item |-> c.item, form |-> "paths"]) = "text"
           /\ \A f \in FormsOf(c) : KindOf(f) = "files" => f = c
  BY DEF FormsOf, Contents, Forms, KindOf

\* A dedup state with one key does not hide what a user copies.
LEMMA OneKeyHits ==
    ASSUME NEW d, HasOneKey(d) PROVE LocalHits(d)
  <1> SUFFICES ASSUME NEW x \in Items,
                      d[KindOf([item |-> x, form |-> "native", remote |-> FALSE])]
                        = ReadKey([item |-> x, form |-> "native", remote |-> FALSE])
               PROVE  Describes(d, [item |-> x, form |-> "native", remote |-> FALSE])
    BY DEF LocalHits
  <1>1. [item |-> x, form |-> "native", remote |-> FALSE] \in Entries
    BY DEF Entries, Forms
  <1> QED
    BY <1>1, HitDescribes

\* Neither does one with the keys of received files and of the text of their paths.
LEMMA FallbackHits ==
    ASSUME NEW f \in Contents, KindOf(f) = "files",
           NEW d, d = [OnlyKey(DedupNew, "files", SetKey(f))
                        EXCEPT !["text"] = SetKey([item |-> f.item, form |-> "paths"])]
    PROVE  LocalHits(d)
  <1>1. SetKey([item |-> f.item, form |-> "paths"]) = <<"paths", f.item>>
    BY DEF SetKey, KindOf
  <1>2. SetKey(f) = <<"received", f.item>>
    BY DEF SetKey
  <1>3. d["text"] = <<"paths", f.item>> /\ d["files"] = <<"received", f.item>> /\ d["image"] = None
    BY <1>1, <1>2 DEF OnlyKey, DedupNew, Kinds
  <1> SUFFICES ASSUME NEW x \in Items
               PROVE  LET e == [item |-> x, form |-> "native", remote |-> FALSE]
                      IN  d[KindOf(e)] # ReadKey(e)
    BY DEF LocalHits
  <1> DEFINE e == [item |-> x, form |-> "native", remote |-> FALSE]
  <1>4. e \in Entries /\ e.form = "native" /\ e.remote = FALSE
    BY DEF Entries, Forms
  <1>5. KindOf(e) \in Kinds /\ ReadKey(e) # None
    BY <1>4, KeyType, NoneAssumption
  <1> HIDE DEF e
  <1>6. ASSUME KindOf(e) = "text" PROVE d[KindOf(e)] # ReadKey(e)
    BY <1>3, <1>4, <1>6 DEF ReadKey
  <1>7. ASSUME KindOf(e) = "image" PROVE d[KindOf(e)] # ReadKey(e)
    BY <1>3, <1>5, <1>7
  <1>8. ASSUME KindOf(e) = "files" PROVE d[KindOf(e)] # ReadKey(e)
    BY <1>3, <1>4, <1>8 DEF ReadKey
  <1>9. d[KindOf(e)] # ReadKey(e)
    BY <1>5, <1>6, <1>7, <1>8 DEF Kinds
  <1> QED
    BY <1>9 DEF e

-------------------------------------------------------------------------------
(* A copy starts a wave.                                                     *)

\* The variables of Typed that the waves are about.
LEMMA WaveTypes ==
    ASSUME Typed
    PROVE  /\ clip \in [Nodes -> Entries \cup {EmptyClip}]
           /\ notified \in [Nodes -> BOOLEAN]
           /\ dedup \in [Nodes -> DedupStates]
           /\ monitor \in [Nodes -> {Idle} \cup [pc : {"read", "send"}, entry : Entries]]
           /\ proxy \in [Nodes -> {Idle} \cup [pc : {"write"}, content : Contents]]
           /\ fromq \in [Nodes -> Seq(Contents)]
           /\ toq \in [Nodes -> Seq(Contents)]
           /\ link \in [Nodes -> [Nodes -> Seq(Contents)]]
           /\ seen \in [Nodes -> SUBSET Contents]
           /\ lost \subseteq Nodes
           /\ \A n \in Nodes : notified[n] => clip[n] \in Entries
  BY DEF Typed, TypeOK, DedupStates

LEMMA CopyStarts ==
    ASSUME Typed, User # "concurrent", NEW n \in Nodes, NEW x \in Items, Copy(n, x)
    PROVE  AtOrigin(n, [item |-> x, form |-> "native"])'
  <1> DEFINE c == [item |-> x, form |-> "native"]
  <1>1. c \in Contents /\ Local(c) = [item |-> x, form |-> "native", remote |-> FALSE]
    BY DEF Contents, Forms, Local
  <1>2. /\ Quiet
        /\ clip' = [clip EXCEPT ![n] = Local(c)]
        /\ notified' = [notified EXCEPT ![n] = TRUE]
        /\ UNCHANGED <<dedup, monitor, proxy, fromq, toq, oldq, link, seen>>
    BY <1>1 DEF Copy, SetClip
  <1> HIDE DEF c
  <1>3. \A k \in Nodes : AtRest(k) /\ \A m \in Nodes : link[m][k] = <<>>
    BY <1>2 DEF Quiet, AtRest
  <1>4. \A k \in Nodes : k # n => notified'[k] = notified[k]
    BY <1>2, WaveTypes
  <1>5. clip'[n] = Local(c) /\ notified'[n]
    BY <1>2, WaveTypes
  <1>6. \A k \in Nodes : k # n => AtRest(k)'
    BY <1>2, <1>3, <1>4 DEF AtRest, LocallyQuiet
  <1>7. AtOrigin(n, c)'
    BY <1>2, <1>3, <1>5, <1>6 DEF AtOrigin, AtRest, LocallyQuiet
  <1> QED
    BY <1>7 DEF c

\* If it is an image, its wave is one of images.
LEMMA ImageStarts ==
    ASSUME NEW o \in Nodes, NEW c \in Contents, KindOf(c) = "image", AtOrigin(o, c)'
    PROVE  ImageWave'
  <1>1. c \in Images /\ KindOf(Local(c)) = "image"
    BY KindFacts DEF Images
  <1>2. <<>> \in Seq(Images) /\ <<c>> \in Seq(Images)
    BY <1>1
  <1>3. ASSUME NEW n \in Nodes, n # o
        PROVE  (/\ ~notified[n] /\ monitor[n] = Idle /\ proxy[n] = Idle
                /\ fromq[n] = <<>> /\ toq[n] = <<>>)'
    BY <1>3 DEF AtOrigin, AtRest, LocallyQuiet
  <1>4. (/\ clip[o] = Local(c) /\ proxy[o] = Idle /\ toq[o] = <<>>
         /\ monitor[o] # Idle => monitor[o].entry = Local(c)
         /\ fromq[o] = <<>> \/ fromq[o] = <<c>>)'
    BY DEF AtOrigin
  <1>5. \A m, n \in Nodes : link'[m][n] = <<>>
    BY DEF AtOrigin
  <1> QED
    BY <1>1, <1>2, <1>3, <1>4, <1>5 DEF ImageWave

\* Machines that are at rest are at the end of any wave.
LEMMA RestSpreads ==
    ASSUME \A n \in Nodes : AtRest(n)', \A m, n \in Nodes : link'[m][n] = <<>>,
           NEW o \in Nodes, NEW c
    PROVE  Spreading(o, c)'
  BY DEF Spreading, Stage, AtRest

-------------------------------------------------------------------------------
(* Steps.                                                                    *)

\* Without restarts nobody is left behind, and the dedup states go on hiding nothing.
LEMMA HitsNext ==
    ASSUME Typed, ~Restarts, \A n \in Nodes : oldq[n] = <<>> /\ LocalHits(dedup[n]), [Next]_vars,
           \A n \in Nodes :
                ProxyFallback(n) =>
                    dedup[n] = OnlyKey(DedupNew, "files", SetKey(proxy[n].content)),
           NEW k \in Nodes
    PROVE  oldq'[k] = <<>> /\ LocalHits(dedup'[k])
  <1>1. dedup \in [Nodes -> DedupStates]
    BY WaveTypes
  <1>2. CASE UNCHANGED <<dedup, oldq>>
    BY <1>2
  <1>3. ASSUME NEW n \in Nodes, NEW d, LocalHits(d), dedup' = [dedup EXCEPT ![n] = d], UNCHANGED oldq
        PROVE  oldq'[k] = <<>> /\ LocalHits(dedup'[k])
    BY <1>1, <1>3
  <1>4. ASSUME NEW n \in Nodes, MonitorMark(n)
        PROVE  oldq'[k] = <<>> /\ LocalHits(dedup'[k])
    <2> DEFINE e == monitor[n].entry
               d == OnlyKey(dedup[n], KindOf(e), ReadKey(e))
    <2>1. e \in Entries
      BY <1>4, WaveTypes, IdleFacts DEF MonitorMark
    <2>2. LocalHits(d)
      BY <2>1, KeyType, OneKey, OneKeyHits
    <2>3. (dedup' = dedup \/ dedup' = [dedup EXCEPT ![n] = d]) /\ UNCHANGED oldq
      BY <1>4 DEF MonitorMark
    <2> HIDE DEF d
    <2> QED
      BY <1>2, <1>3, <2>2, <2>3
  <1>5. ASSUME NEW n \in Nodes, ProxyTake(n)
        PROVE  oldq'[k] = <<>> /\ LocalHits(dedup'[k])
    <2> DEFINE d == DedupBefore(n, Head(toq[n]))
    <2>1. Head(toq[n]) \in Contents
      BY <1>5, WaveTypes DEF ProxyTake
    <2>2. LocalHits(d)
      BY <2>1, KeyType, OneKey, OneKeyHits DEF DedupBefore
    <2>3. (dedup' = dedup \/ dedup' = [dedup EXCEPT ![n] = d]) /\ UNCHANGED oldq
      BY <1>5 DEF ProxyTake
    <2> HIDE DEF d
    <2> QED
      BY <1>2, <1>3, <2>2, <2>3
  <1>6. ASSUME NEW n \in Nodes, ProxyFallback(n)
        PROVE  oldq'[k] = <<>> /\ LocalHits(dedup'[k])
    <2> DEFINE f == proxy[n].content
               d == [dedup[n] EXCEPT !["text"] = SetKey([item |-> f.item, form |-> "paths"])]
    <2>1. f \in Contents /\ KindOf(f) = "files"
      BY <1>6, WaveTypes, IdleFacts DEF ProxyFallback
    <2>2. dedup[n] = OnlyKey(DedupNew, "files", SetKey(f))
      BY <1>6
    <2>3. dedup' = [dedup EXCEPT ![n] = d] /\ UNCHANGED oldq
      BY <1>6 DEF ProxyFallback
    <2>4. LocalHits(d)
      BY <2>1, <2>2, FallbackHits
    <2> HIDE DEF d
    <2> QED
      BY <1>3, <2>3, <2>4
  <1>7. ASSUME NEW n \in Nodes, Restart(n) \/ OldProxyWrite(n) \/ OldProxyStops(n) PROVE FALSE
    BY <1>7 DEF Restart, OldProxyWrite, OldProxyStops
  <1>8. CASE UNCHANGED vars
    BY <1>2, <1>8 DEF vars
  <1>9. CASE Next
    BY <1>2, <1>4, <1>5, <1>6, <1>7, <1>9
       DEF Next, Copy, MonitorRead, MonitorSend, ProxyWrite, Publish, Receive, CacheExpires
  <1> QED
    BY <1>8, <1>9

\* A step of a wave of images is about images.
LEMMA ImageMonitors ==
    ASSUME Typed, ImageWave, NEW n \in Nodes, MonitorRead(n) \/ MonitorMark(n) \/ MonitorSend(n)
    PROVE  ImageWave'
  <1>1. UNCHANGED <<clip, proxy, toq, link>>
    BY DEF MonitorRead, MonitorMark, MonitorSend
  <1>2. \A k \in Nodes : notified'[k] => notified[k]
    BY WaveTypes DEF MonitorRead, MonitorMark, MonitorSend
  <1>3. \A k \in Nodes : monitor'[k] # Idle => KindOf(monitor'[k].entry) = "image"
    <2>1. monitor[n].pc \in {"read", "send"} => monitor[n] # Idle
      BY IdleFacts
    <2>2. CASE MonitorRead(n)
      BY <2>2, WaveTypes DEF MonitorRead, ImageWave
    <2>3. CASE MonitorMark(n)
      <3> DEFINE new == [pc |-> "send", entry |-> monitor[n].entry]
      <3>1. KindOf(new.entry) = "image"
        BY <2>1, <2>3 DEF MonitorMark, ImageWave
      <3>2. monitor' = [monitor EXCEPT ![n] = Idle] \/ monitor' = [monitor EXCEPT ![n] = new]
        BY <2>3 DEF MonitorMark
      <3> HIDE DEF new
      <3> QED
        BY <3>1, <3>2, WaveTypes DEF ImageWave
    <2>4. CASE MonitorSend(n)
      BY <2>1, <2>4, WaveTypes DEF MonitorSend, ImageWave
    <2> QED
      BY <2>2, <2>3, <2>4
  <1>4. \A k \in Nodes : fromq'[k] \in Seq(Images)
    <2>1. CASE fromq' = fromq
      BY <2>1 DEF ImageWave
    <2>2. CASE MonitorSend(n)
      <3> DEFINE x == ContentOf(monitor[n].entry)
      <3>1. monitor[n] # Idle /\ monitor[n].entry \in Entries
        BY <2>2, WaveTypes, IdleFacts DEF MonitorSend
      <3>2. x \in Images
        BY <3>1, KindFacts DEF ImageWave, Images
      <3>3. fromq' = fromq \/ fromq' = [fromq EXCEPT ![n] = Append(@, x)]
        BY <2>2 DEF MonitorSend
      <3> HIDE DEF x
      <3>4. Append(fromq[n], x) \in Seq(Images)
        BY <3>2 DEF ImageWave
      <3> QED
        BY <2>1, <3>3, <3>4, WaveTypes DEF ImageWave
    <2> QED
      BY <2>1, <2>2 DEF MonitorRead, MonitorMark
  <1> QED
    BY <1>1, <1>2, <1>3, <1>4 DEF ImageWave

LEMMA ImageProxies ==
    ASSUME Typed, ImageWave, NEW n \in Nodes, ProxyTake(n) \/ ProxyWrite(n)
    PROVE  ImageWave'
  <1>1. UNCHANGED <<monitor, fromq, link>>
    BY DEF ProxyTake, ProxyWrite
  <1>2. CASE ProxyTake(n)
    <2> DEFINE x == Head(toq[n])
    <2>1. x \in Images /\ Tail(toq[n]) \in Seq(Images)
      BY <1>2 DEF ProxyTake, ImageWave
    <2>2. /\ toq' = [toq EXCEPT ![n] = Tail(toq[n])]
          /\ proxy' = proxy \/ proxy' = [proxy EXCEPT ![n] = [pc |-> "write", content |-> x]]
          /\ UNCHANGED <<clip, notified>>
      BY <1>2 DEF ProxyTake
    <2> HIDE DEF x
    <2>3. \A k \in Nodes : toq'[k] \in Seq(Images)
      BY <2>1, <2>2, WaveTypes DEF ImageWave
    <2>4. \A k \in Nodes : proxy'[k] # Idle => proxy'[k].content \in Images
      BY <2>1, <2>2, WaveTypes DEF ImageWave
    <2> QED
      BY <1>1, <2>2, <2>3, <2>4 DEF ImageWave
  <1>3. CASE ProxyWrite(n)
    <2> DEFINE x == proxy[n].content
    <2>1. x \in Images
      BY <1>3, IdleFacts DEF ProxyWrite, ImageWave
    <2>2. KindOf(Received(x)) = "image"
      BY <2>1, KindFacts DEF Images
    <2>3. /\ proxy' = [proxy EXCEPT ![n] = Idle] /\ UNCHANGED toq
          /\ \/ UNCHANGED <<clip, notified>>
             \/ /\ clip' = [clip EXCEPT ![n] = Received(x)]
                /\ notified' = [notified EXCEPT ![n] = TRUE]
      BY <1>3 DEF ProxyWrite, SetClip
    <2> HIDE DEF x
    <2>4. \A k \in Nodes : notified'[k] => KindOf(clip'[k]) = "image"
      BY <2>2, <2>3, WaveTypes DEF ImageWave
    <2>5. \A k \in Nodes : proxy'[k] # Idle => proxy'[k].content \in Images
      BY <2>3, WaveTypes DEF ImageWave
    <2> QED
      BY <1>1, <2>3, <2>4, <2>5 DEF ImageWave
  <1> QED
    BY <1>2, <1>3

LEMMA ImageNetwork ==
    ASSUME Typed, ImageWave, NEW n \in Nodes, NEW m \in Nodes, Publish(n) \/ Receive(m, n)
    PROVE  ImageWave'
  <1>1. UNCHANGED <<clip, notified, monitor, proxy>>
    BY DEF Publish, Receive
  <1>2. CASE Publish(n)
    <2> DEFINE x == Head(fromq[n])
               row == [k \in Nodes |-> IF k = n THEN link[n][k] ELSE Append(link[n][k], x)]
    <2>1. x \in Images /\ Tail(fromq[n]) \in Seq(Images)
      BY <1>2 DEF Publish, ImageWave
    <2>2. /\ fromq' = [fromq EXCEPT ![n] = Tail(fromq[n])] /\ UNCHANGED toq
          /\ link' = link \/ link' = [link EXCEPT ![n] = row]
      BY <1>2 DEF Publish
    <2> HIDE DEF x
    <2>3. \A k \in Nodes : row[k] \in Seq(Images)
      BY <2>1 DEF ImageWave
    <2> HIDE DEF row
    <2>4. \A k, j \in Nodes : link'[j][k] \in Seq(Images)
      BY <2>2, <2>3, WaveTypes DEF ImageWave
    <2>5. \A k \in Nodes : fromq'[k] \in Seq(Images)
      BY <2>1, <2>2, WaveTypes DEF ImageWave
    <2> QED
      BY <1>1, <2>2, <2>4, <2>5 DEF ImageWave
  <1>3. CASE Receive(m, n)
    <2> DEFINE x == Head(link[m][n])
    <2>1. x \in Images /\ Tail(link[m][n]) \in Seq(Images)
      BY <1>3 DEF Receive, ImageWave
    <2>2. /\ link' = [link EXCEPT ![m][n] = Tail(link[m][n])] /\ UNCHANGED fromq
          /\ toq' = toq \/ toq' = [toq EXCEPT ![n] = Append(toq[n], x)]
      BY <1>3 DEF Receive
    <2> HIDE DEF x
    <2>3. \A k, j \in Nodes : link'[j][k] \in Seq(Images)
      BY <2>1, <2>2, WaveTypes DEF ImageWave
    <2>4. Append(toq[n], x) \in Seq(Images)
      BY <2>1 DEF ImageWave
    <2>5. \A k \in Nodes : toq'[k] \in Seq(Images)
      BY <2>2, <2>4, WaveTypes DEF ImageWave
    <2> QED
      BY <1>1, <2>2, <2>3, <2>5 DEF ImageWave
  <1> QED
    BY <1>2, <1>3

-------------------------------------------------------------------------------
(* A content on its way out of the machine it was copied at.                 *)

\* Only the monitor of o and `run` at o have something to do.
LEMMA OriginSteps ==
    ASSUME NEW o \in Nodes, NEW c, AtOrigin(o, c), NEW n \in Nodes, NEW m \in Nodes
    PROVE  /\ MonitorRead(n) \/ MonitorMark(n) \/ MonitorSend(n) \/ Publish(n) => n = o
           /\ ~ProxyTake(n) /\ ~ProxyWrite(n) /\ ~ProxyFallback(n) /\ ~Receive(m, n)
  <1>1. proxy[n] = Idle /\ toq[n] = <<>> /\ link[m][n] = <<>>
    BY DEF AtOrigin, AtRest, LocallyQuiet
  <1>2. n # o => ~notified[n] /\ monitor[n] = Idle /\ fromq[n] = <<>>
    BY DEF AtOrigin, AtRest, LocallyQuiet
  <1> QED
    BY <1>1, <1>2, IdleFacts
       DEF MonitorRead, MonitorMark, MonitorSend, Publish, ProxyTake, ProxyWrite, ProxyFallback, Receive

\* It stays there while only o's part changes, and may be given up.
LEMMA OriginFrame ==
    ASSUME Typed, NEW o \in Nodes, NEW c, AtOrigin(o, c),
           UNCHANGED <<clip, proxy, toq, link>>,
           \A n \in Nodes :
                n # o => notified'[n] = notified[n] /\ monitor'[n] = monitor[n] /\ fromq'[n] = fromq[n],
           \/ ~notified'[o] /\ fromq'[o] = <<>>
              /\ \E pc \in {"read", "send"} : monitor'[o] = [pc |-> pc, entry |-> Local(c)]
           \/ ~notified'[o] /\ monitor'[o] = Idle /\ fromq'[o] \in {<<>>, <<c>>}
    PROVE  \/ AtOrigin(o, c)'
           \/ Spreading(o, c)' /\ monitor'[o] = Idle /\ fromq'[o] = <<>>
  <1>1. \A n \in Nodes : n # o => AtRest(n)'
    BY DEF AtOrigin, AtRest, LocallyQuiet
  <1>2. (/\ \A m, n \in Nodes : link[m][n] = <<>>
         /\ clip[o] = Local(c) /\ proxy[o] = Idle /\ toq[o] = <<>>)'
    BY DEF AtOrigin
  <1>3. CASE monitor'[o] = Idle /\ fromq'[o] = <<>> /\ ~notified'[o]
    <2>1. AtRest(o)'
      BY <1>2, <1>3 DEF AtRest, LocallyQuiet
    <2> QED
      BY <1>1, <1>2, <1>3, <2>1, RestSpreads
  <1>4. CASE ~(monitor'[o] = Idle /\ fromq'[o] = <<>> /\ ~notified'[o])
    BY <1>1, <1>2, <1>4 DEF AtOrigin
  <1> QED
    BY <1>3, <1>4

LEMMA OriginMonitor ==
    ASSUME Typed, NEW o \in Nodes, NEW c \in Contents, AtOrigin(o, c),
           MonitorRead(o) \/ MonitorMark(o) \/ MonitorSend(o)
    PROVE  \/ AtOrigin(o, c)'
           \/ Spreading(o, c)' /\ monitor'[o] = Idle /\ fromq'[o] = <<>>
  <1>1. CASE MonitorRead(o)
    <2>1. monitor[o] = Idle /\ fromq[o] = <<>> /\ clip[o] = Local(c)
      BY <1>1, IdleFacts DEF MonitorRead, AtOrigin
    <2>2. ~notified'[o] /\ (monitor'[o] = Idle \/ monitor'[o] = [pc |-> "read", entry |-> Local(c)])
      BY <1>1, <2>1, WaveTypes DEF MonitorRead
    <2>3. UNCHANGED <<clip, proxy, toq, link, fromq>>
      BY <1>1 DEF MonitorRead
    <2>4. \A n \in Nodes : n # o => notified'[n] = notified[n] /\ monitor'[n] = monitor[n]
      BY <1>1, WaveTypes DEF MonitorRead
    <2> QED
      BY <2>1, <2>2, <2>3, <2>4, OriginFrame
  <1>2. CASE MonitorMark(o)
    <2>1. ~notified[o] /\ fromq[o] = <<>> /\ monitor[o].entry = Local(c)
      BY <1>2, IdleFacts DEF MonitorMark, AtOrigin
    <2>2. monitor'[o] = Idle \/ monitor'[o] = [pc |-> "send", entry |-> Local(c)]
      BY <1>2, <2>1, WaveTypes DEF MonitorMark
    <2>3. UNCHANGED <<clip, proxy, toq, link, fromq, notified>>
      BY <1>2 DEF MonitorMark
    <2>4. \A n \in Nodes : n # o => monitor'[n] = monitor[n]
      BY <1>2, WaveTypes DEF MonitorMark
    <2> QED
      BY <2>1, <2>2, <2>3, <2>4, OriginFrame
  <1>3. CASE MonitorSend(o)
    <2>1. ~notified[o] /\ fromq[o] = <<>> /\ monitor[o].entry = Local(c)
      BY <1>3, IdleFacts DEF MonitorSend, AtOrigin
    <2>2. monitor'[o] = Idle
      BY <1>3, WaveTypes DEF MonitorSend
    <2>3. fromq'[o] \in {<<>>, <<c>>}
      BY <1>3, <2>1, WaveTypes, KindFacts DEF MonitorSend
    <2>4. UNCHANGED <<clip, proxy, toq, link, notified>>
      BY <1>3 DEF MonitorSend
    <2>5. \A n \in Nodes : n # o => monitor'[n] = monitor[n] /\ fromq'[n] = fromq[n]
      BY <1>3, WaveTypes DEF MonitorSend
    <2> QED
      BY <2>1, <2>2, <2>3, <2>4, <2>5, OriginFrame
  <1> QED
    BY <1>1, <1>2, <1>3

\* The content is sent to all others, or dropped as known to gossipsub.
LEMMA OriginPublish ==
    ASSUME Typed, NEW o \in Nodes, NEW c \in Contents, AtOrigin(o, c), Publish(o)
    PROVE  /\ Spreading(o, c)'
           /\ IsLarge(c) \/ c \notin seen[o] =>
                /\ \A n \in Nodes : n # o => link'[o][n] = <<c>>
                /\ seen' = [seen EXCEPT ![o] = IF IsLarge(c) THEN @ ELSE @ \cup {c}]
  <1>1. /\ ~notified[o] /\ monitor[o] = Idle /\ proxy[o] = Idle /\ toq[o] = <<>>
        /\ fromq[o] = <<c>>
    BY DEF Publish, AtOrigin
  <1>2. Head(fromq[o]) = c /\ Tail(fromq[o]) = <<>>
    BY <1>1
  <1>3. UNCHANGED <<notified, monitor, proxy, toq>> /\ fromq' = [fromq EXCEPT ![o] = <<>>]
    BY <1>2 DEF Publish
  <1> DEFINE row == [n \in Nodes |-> IF n = o THEN link[o][n] ELSE Append(link[o][n], c)]
  <1>4. \/ /\ IsLarge(c) \/ c \notin seen[o]
           /\ link' = [link EXCEPT ![o] = row]
           /\ seen' = [seen EXCEPT ![o] = IF IsLarge(c) THEN @ ELSE @ \cup {c}]
        \/ link' = link /\ ~IsLarge(c) /\ c \in seen[o]
    BY <1>2 DEF Publish
  <1>5. \A m, n \in Nodes : link[m][n] = <<>>
    BY DEF AtOrigin
  <1>6. row[o] = <<>> /\ \A n \in Nodes : n # o => row[n] = <<c>>
    <2>1. \A s : s = <<>> => Append(s, c) = <<c>>
      OBVIOUS
    <2> QED
      BY <1>5, <2>1
  <1> HIDE DEF row
  <1>7. /\ \A m, n \in Nodes : m # o => link'[m][n] = <<>>
        /\ \A n \in Nodes : link'[o][n] = <<>> \/ link'[o][n] = <<c>>
    <2>1. CASE link' = link
      BY <1>5, <2>1
    <2>2. CASE link' = [link EXCEPT ![o] = row]
      <3>1. link'[o] = row /\ \A m \in Nodes : m # o => link'[m] = link[m]
        BY <2>2, WaveTypes
      <3> QED
        BY <1>5, <1>6, <3>1
    <2> QED
      BY <1>4, <2>1, <2>2
  <1>8. \A n \in Nodes : LocallyQuiet(n)' /\ fromq'[n] = <<>> /\ toq'[n] = <<>>
    BY <1>1, <1>3, WaveTypes DEF AtOrigin, AtRest, LocallyQuiet
  <1>9. Spreading(o, c)'
    BY <1>7, <1>8 DEF Spreading, Stage
  <1>10. link' = [link EXCEPT ![o] = row] => \A n \in Nodes : n # o => link'[o][n] = <<c>>
    BY <1>6, WaveTypes
  <1> QED
    BY <1>4, <1>9, <1>10

-------------------------------------------------------------------------------
(* A content on its way through the other machines.                          *)

\* What happens at one machine does not touch the others.
LEMMA SpreadFrame ==
    ASSUME NEW o \in Nodes, NEW c, Spreading(o, c), NEW n \in Nodes,
           Stage(n, o, c)', UNCHANGED fromq,
           \A k \in Nodes :
                k # n => /\ clip'[k] = clip[k] /\ notified'[k] = notified[k]
                         /\ dedup'[k] = dedup[k] /\ monitor'[k] = monitor[k]
                         /\ proxy'[k] = proxy[k] /\ toq'[k] = toq[k]
                         /\ link'[o][k] = link[o][k],
           \A m \in Nodes : m # o => link'[m] = link[m]
    PROVE  Spreading(o, c)'
  <1>1. ASSUME NEW k \in Nodes, k # n PROVE Stage(k, o, c)'
    <2>1. Stage(k, o, c)
      BY DEF Spreading
    <2> QED
      BY <1>1, <2>1 DEF Stage, LocallyQuiet, Handling, Known
  <1> QED
    BY <1>1 DEF Spreading

\* A machine with something to do has one thing to do.
LEMMA StageCases ==
    ASSUME NEW o \in Nodes, NEW c, Spreading(o, c), NEW n \in Nodes
    PROVE  /\ fromq[n] = <<>>
           /\ ~LocallyQuiet(n) =>
                /\ link[o][n] = <<>> /\ toq[n] = <<>>
                /\ \E f \in FormsOf(c) : Handling(n, f)
           /\ toq[n] # <<>> => LocallyQuiet(n) /\ link[o][n] = <<>> /\ toq[n] = <<c>>
           /\ link[o][n] # <<>> => LocallyQuiet(n) /\ link[o][n] = <<c>> /\ toq[n] = <<>>
           /\ \A m \in Nodes : m # o => link[m][n] = <<>>
  <1>1. fromq[n] = <<>> /\ Stage(n, o, c) /\ \A m \in Nodes : m # o => link[m][n] = <<>>
    BY DEF Spreading
  <1> QED
    BY <1>1 DEF Stage

\* The monitor finds the key of what the proxy wrote.
LEMMA KnownHit ==
    ASSUME NEW n \in Nodes, NEW f \in Contents, KindOf(f) # "image", Known(n, f)
    PROVE  dedup[n][KindOf(Received(f))] = ReadKey(Received(f))
  <1>1. KindOf(Received(f)) = KindOf(f) /\ ReadKey(Received(f)) = SetKey(f)
    BY KindFacts, KeysMeet
  <1>2. dedup[n][KindOf(f)] = SetKey(f)
    BY DEF Known, OnlyKey, DedupNew, Kinds
  <1> QED
    BY <1>1, <1>2

LEMMA SpreadMonitor ==
    ASSUME Typed, NEW o \in Nodes, NEW c \in Contents, Spreading(o, c), NEW n \in Nodes,
           MonitorRead(n) \/ MonitorMark(n) \/ MonitorSend(n)
    PROVE  /\ Spreading(o, c)'
           /\ ~MonitorSend(n)
           /\ MonitorMark(n) => dedup' = dedup
  <1>1. ~LocallyQuiet(n)
    BY IdleFacts DEF LocallyQuiet, MonitorRead, MonitorMark, MonitorSend
  <1>2. link[o][n] = <<>> /\ toq[n] = <<>>
    BY <1>1, StageCases
  <1>3. PICK f \in FormsOf(c) : Handling(n, f)
    BY <1>1, StageCases
  <1>4. f \in Contents /\ KindOf(f) # "image" /\ Known(n, f)
    BY <1>3, FormsFacts DEF Handling
  <1>5. ~MonitorSend(n)
    BY <1>3, IdleFacts DEF Handling, MonitorSend
  <1>6. UNCHANGED <<clip, proxy, toq, link>>
    BY DEF MonitorRead, MonitorMark, MonitorSend
  <1>7. CASE MonitorRead(n)
    <2>1. proxy[n] = Idle /\ clip[n] = Received(f) /\ monitor[n] = Idle
      BY <1>3, <1>7, IdleFacts DEF Handling, MonitorRead
    <2>2. ~notified'[n] /\ (monitor'[n] = Idle \/ monitor'[n] = [pc |-> "read", entry |-> Received(f)])
      BY <1>7, <2>1, WaveTypes DEF MonitorRead
    <2>3. UNCHANGED <<dedup, fromq>>
      BY <1>7 DEF MonitorRead
    <2>4. Stage(n, o, c)'
      <3>1. CASE monitor'[n] = Idle
        BY <1>2, <1>6, <2>1, <2>2, <3>1 DEF Stage, LocallyQuiet
      <3>2. CASE monitor'[n] = [pc |-> "read", entry |-> Received(f)]
        <4>1. Handling(n, f)'
          BY <1>4, <1>6, <2>1, <2>2, <2>3, <3>2 DEF Handling, Known
        <4> QED
          BY <1>2, <1>6, <4>1 DEF Stage
      <3> QED
        BY <2>2, <3>1, <3>2
    <2>5. \A k \in Nodes : k # n => notified'[k] = notified[k] /\ monitor'[k] = monitor[k]
      BY <1>7, WaveTypes DEF MonitorRead
    <2>6. Spreading(o, c)'
      BY <1>6, <2>3, <2>4, <2>5, SpreadFrame
    <2>7. ~MonitorMark(n)
      BY <2>1, IdleFacts DEF MonitorMark
    <2> QED
      BY <1>5, <2>6, <2>7
  <1>8. CASE MonitorMark(n)
    <2>1. ~notified[n] /\ proxy[n] = Idle /\ monitor[n].entry = Received(f)
      BY <1>3, <1>8, IdleFacts DEF Handling, MonitorMark
    <2>2. dedup[n][KindOf(Received(f))] = ReadKey(Received(f))
      BY <1>4, KnownHit
    <2>3. monitor' = [monitor EXCEPT ![n] = Idle] /\ UNCHANGED <<dedup, fromq, notified>>
      BY <1>8, <2>1, <2>2 DEF MonitorMark
    <2>4. monitor'[n] = Idle /\ \A k \in Nodes : k # n => monitor'[k] = monitor[k]
      BY <2>3, WaveTypes
    <2>5. Stage(n, o, c)'
      BY <1>2, <1>6, <2>1, <2>3, <2>4 DEF Stage, LocallyQuiet
    <2>6. Spreading(o, c)'
      BY <1>6, <2>3, <2>4, <2>5, SpreadFrame
    <2> QED
      BY <1>5, <2>3, <2>6
  <1> QED
    BY <1>5, <1>7, <1>8

LEMMA SpreadTake ==
    ASSUME Typed, NEW o \in Nodes, NEW c \in Contents, KindOf(c) # "image", Spreading(o, c),
           NEW n \in Nodes, ProxyTake(n)
    PROVE  Spreading(o, c)'
  <1>1. toq[n] = <<c>> /\ link[o][n] = <<>> /\ ~notified[n] /\ monitor[n] = Idle /\ proxy[n] = Idle
    BY StageCases DEF ProxyTake, LocallyQuiet
  <1>2. Head(toq[n]) = c /\ Tail(toq[n]) = <<>>
    BY <1>1
  <1>3. toq' = [toq EXCEPT ![n] = <<>>] /\ UNCHANGED <<clip, notified, monitor, fromq, link>>
    BY <1>2 DEF ProxyTake
  <1>4. toq'[n] = <<>> /\ \A k \in Nodes : k # n => toq'[k] = toq[k]
    BY <1>3, WaveTypes
  <1>5. CASE UNCHANGED <<dedup, proxy>>
    <2>1. Stage(n, o, c)'
      BY <1>1, <1>3, <1>4, <1>5 DEF Stage, LocallyQuiet
    <2> QED
      BY <1>3, <1>4, <1>5, <2>1, SpreadFrame
  <1>6. CASE /\ dedup' = [dedup EXCEPT ![n] = DedupBefore(n, c)]
             /\ proxy' = [proxy EXCEPT ![n] = [pc |-> "write", content |-> c]]
    <2>1. dedup'[n] = OnlyKey(DedupNew, KindOf(c), SetKey(c))
      BY <1>6, WaveTypes DEF DedupBefore, OnlyKey
    <2>2. proxy'[n] = [pc |-> "write", content |-> c]
      BY <1>6, WaveTypes
    <2>3. KindOf(c) \in Kinds
      BY KeyType
    <2>4. Known(n, c)'
      <3>1. dedup'[n][KindOf(c)] = SetKey(c)
        BY <2>1, <2>3 DEF OnlyKey, DedupNew
      <3> QED
        BY <2>1, <3>1 DEF Known
    <2>5. Handling(n, c)' /\ c \in FormsOf(c)
      BY <1>1, <1>3, <2>2, <2>4 DEF Handling, FormsOf
    <2>6. Stage(n, o, c)'
      BY <1>1, <1>3, <1>4, <2>5 DEF Stage
    <2>7. \A k \in Nodes : k # n => dedup'[k] = dedup[k] /\ proxy'[k] = proxy[k]
      BY <1>6, WaveTypes
    <2> QED
      BY <1>3, <1>4, <2>6, <2>7, SpreadFrame
  <1> QED
    BY <1>2, <1>5, <1>6 DEF ProxyTake

LEMMA SpreadWrite ==
    ASSUME Typed, NEW o \in Nodes, NEW c \in Contents, Spreading(o, c), NEW n \in Nodes,
           ProxyWrite(n) \/ ProxyFallback(n)
    PROVE  /\ Spreading(o, c)'
           /\ ProxyFallback(n) => dedup[n] = OnlyKey(DedupNew, "files", SetKey(proxy[n].content))
  <1>1. ~LocallyQuiet(n)
    BY IdleFacts DEF LocallyQuiet, ProxyWrite, ProxyFallback
  <1>2. link[o][n] = <<>> /\ toq[n] = <<>>
    BY <1>1, StageCases
  <1>3. PICK f \in FormsOf(c) : Handling(n, f)
    BY <1>1, StageCases
  <1>4. /\ f \in Contents /\ KindOf(f) # "image" /\ Known(n, f)
        /\ ~notified[n] /\ monitor[n] = Idle /\ proxy[n] = [pc |-> "write", content |-> f]
    BY <1>3, FormsFacts, IdleFacts DEF Handling, ProxyWrite, ProxyFallback
  <1>5. proxy[n].content = f
    BY <1>4
  <1>6. UNCHANGED <<monitor, fromq, toq, link>>
    BY DEF ProxyWrite, ProxyFallback
  <1>7. CASE ProxyWrite(n)
    <2>1. /\ UNCHANGED dedup /\ proxy' = [proxy EXCEPT ![n] = Idle]
          /\ \/ UNCHANGED <<clip, notified>>
             \/ /\ clip' = [clip EXCEPT ![n] = Received(f)]
                /\ notified' = [notified EXCEPT ![n] = TRUE]
      BY <1>5, <1>7 DEF ProxyWrite, SetClip
    <2>2. /\ proxy'[n] = Idle
          /\ \A k \in Nodes : k # n => proxy'[k] = proxy[k] /\ clip'[k] = clip[k] /\ notified'[k] = notified[k]
      BY <2>1, WaveTypes
    <2>3. Stage(n, o, c)'
      <3>1. CASE UNCHANGED <<clip, notified>>
        BY <1>2, <1>4, <1>6, <2>2, <3>1 DEF Stage, LocallyQuiet
      <3>2. CASE clip'[n] = Received(f) /\ notified'[n]
        <4>1. Handling(n, f)'
          BY <1>4, <1>6, <2>1, <2>2, <3>2 DEF Handling, Known
        <4> QED
          BY <1>2, <1>6, <4>1 DEF Stage
      <3> QED
        BY <2>1, <3>1, <3>2, WaveTypes
    <2>4. ~ProxyFallback(n) \/ KindOf(f) = "files"
      BY <1>5 DEF ProxyFallback
    <2> QED
      BY <1>4, <1>5, <1>6, <2>1, <2>2, <2>3, <2>4, SpreadFrame DEF Known
  <1>8. CASE ProxyFallback(n)
    <2> DEFINE paths == [item |-> c.item, form |-> "paths"]
               new == [pc |-> "write", content |-> paths]
    <2>1. KindOf(f) = "files" /\ f = c
      BY <1>3, <1>5, <1>8, FormsFacts DEF ProxyFallback
    <2>2. dedup[n] = OnlyKey(DedupNew, "files", SetKey(f))
      BY <1>4, <2>1 DEF Known
    <2>3. paths \in FormsOf(c) /\ KindOf(paths) = "text"
      BY FormsFacts DEF FormsOf
    <2>4. /\ dedup' = [dedup EXCEPT ![n] = [dedup[n] EXCEPT !["text"] = SetKey(paths)]]
          /\ proxy' = [proxy EXCEPT ![n].content = paths]
          /\ UNCHANGED <<clip, notified>>
      BY <1>5, <1>8, <2>1 DEF ProxyFallback
    <2> HIDE DEF paths
    <2>5. dedup'[n]["text"] = SetKey(paths)
      BY <2>4, WaveTypes DEF DedupStates, Kinds
    <2>6. proxy'[n] = new
      BY <1>4, <2>4, WaveTypes
    <2>7. Handling(n, paths)'
      BY <1>4, <1>6, <2>3, <2>4, <2>5, <2>6 DEF Handling, Known
    <2>8. Stage(n, o, c)'
      BY <1>2, <1>6, <2>3, <2>7 DEF Stage
    <2>9. \A k \in Nodes : k # n => dedup'[k] = dedup[k] /\ proxy'[k] = proxy[k]
      BY <2>4, WaveTypes
    <2> QED
      BY <1>5, <1>6, <2>2, <2>4, <2>8, <2>9, SpreadFrame
  <1> QED
    BY <1>7, <1>8

LEMMA SpreadReceive ==
    ASSUME Typed, NEW o \in Nodes, NEW c \in Contents, Spreading(o, c),
           NEW n \in Nodes, NEW m \in Nodes, Receive(m, n)
    PROVE  Spreading(o, c)'
  <1>1. m = o /\ link[o][n] = <<c>> /\ toq[n] = <<>> /\ LocallyQuiet(n)
    BY StageCases DEF Receive
  <1>2. /\ Head(link[m][n]) = c /\ Tail(link[m][n]) = <<>>
        /\ Append(toq[n], c) = <<c>>
    BY <1>1
  <1>3. /\ link' = [link EXCEPT ![o][n] = <<>>]
        /\ toq' = toq \/ toq' = [toq EXCEPT ![n] = <<c>>]
        /\ UNCHANGED <<clip, notified, dedup, monitor, proxy, fromq>>
    BY <1>1, <1>2 DEF Receive
  <1>4. /\ link'[o][n] = <<>>
        /\ \A k \in Nodes : k # n => link'[o][k] = link[o][k]
        /\ \A j \in Nodes : j # o => link'[j] = link[j]
    BY <1>3, WaveTypes
  <1>5. /\ toq'[n] = <<>> \/ toq'[n] = <<c>>
        /\ \A k \in Nodes : k # n => toq'[k] = toq[k]
    BY <1>1, <1>3, WaveTypes
  <1>6. Stage(n, o, c)'
    BY <1>1, <1>3, <1>4, <1>5 DEF Stage, LocallyQuiet
  <1> QED
    BY <1>3, <1>4, <1>5, <1>6, SpreadFrame

-------------------------------------------------------------------------------
(* Nothing is sent back.                                                     *)

LEMMA WaveInit == Init => WaveInv
  <1> SUFFICES ASSUME Init PROVE WaveInv
    OBVIOUS
  <1>1. ASSUME NEW n \in Nodes PROVE oldq[n] = <<>> /\ LocalHits(dedup[n])
    <2>1. dedup[n] = DedupNew /\ oldq[n] = <<>>
      BY DEF Init
    <2> QED
      BY <2>1, OneKey, OneKeyHits
  <1>2. ImageWave
    BY DEF Init, ImageWave
  <1> QED
    BY <1>1, <1>2 DEF WaveInv

\* The step of a wave is a step of the same wave, or a copy that starts another.
LEMMA OriginNext ==
    ASSUME Typed, NEW o \in Nodes, NEW c \in Contents, AtOrigin(o, c),
           NEW n \in Nodes, NEW m \in Nodes,
           \/ MonitorRead(n) \/ MonitorMark(n) \/ MonitorSend(n)
           \/ ProxyTake(n) \/ ProxyWrite(n) \/ ProxyFallback(n)
           \/ Publish(n) \/ Receive(m, n)
    PROVE  AtOrigin(o, c)' \/ Spreading(o, c)'
  <1>1. n = o /\ (MonitorRead(o) \/ MonitorMark(o) \/ MonitorSend(o) \/ Publish(o))
    BY OriginSteps
  <1> QED
    BY <1>1, OriginMonitor, OriginPublish

LEMMA SpreadNext ==
    ASSUME Typed, NEW o \in Nodes, NEW c \in Contents, KindOf(c) # "image", Spreading(o, c),
           NEW n \in Nodes, NEW m \in Nodes,
           \/ MonitorRead(n) \/ MonitorMark(n) \/ MonitorSend(n)
           \/ ProxyTake(n) \/ ProxyWrite(n) \/ ProxyFallback(n)
           \/ Publish(n) \/ Receive(m, n)
    PROVE  Spreading(o, c)'
  <1>1. ~Publish(n)
    BY StageCases DEF Publish
  <1> QED
    BY <1>1, SpreadMonitor, SpreadTake, SpreadWrite, SpreadReceive

\* In a wave of text or files that replaced the file list by its paths, the list
\* was the only thing known.
LEMMA FallbackKnows ==
    ASSUME Typed, WaveInv, NEW n \in Nodes, ProxyFallback(n)
    PROVE  /\ ~ImageWave
           /\ dedup[n] = OnlyKey(DedupNew, "files", SetKey(proxy[n].content))
  <1>1. ~ImageWave
    BY IdleFacts DEF ProxyFallback, ImageWave, Images
  <1>2. ASSUME NEW o \in Nodes, NEW c \in Contents, AtOrigin(o, c) PROVE FALSE
    BY <1>2, OriginSteps
  <1> QED
    BY <1>1, <1>2, SpreadWrite DEF WaveInv

LEMMA WaveNext ==
    ASSUME User # "concurrent", ~Restarts, Typed, WaveInv, [Next]_vars
    PROVE  WaveInv'
  <1> DEFINE Wave == \/ ImageWave
                     \/ \E o \in Nodes, c \in Contents :
                            KindOf(c) # "image" /\ (AtOrigin(o, c) \/ Spreading(o, c))
  <1>1. \A n \in Nodes : oldq'[n] = <<>> /\ LocalHits(dedup'[n])
    BY FallbackKnows, HitsNext DEF WaveInv
  <1>2. CASE UNCHANGED <<clip, notified, dedup, monitor, proxy, fromq, toq, oldq, link>>
    <2>1. ImageWave => ImageWave'
      BY <1>2 DEF ImageWave
    <2>2. ASSUME NEW o \in Nodes, NEW c \in Contents
          PROVE  (AtOrigin(o, c) => AtOrigin(o, c)') /\ (Spreading(o, c) => Spreading(o, c)')
      BY <1>2 DEF AtOrigin, AtRest, LocallyQuiet, Spreading, Stage, Handling, Known
    <2>3. Wave'
      BY <2>1, <2>2 DEF WaveInv
    <2> QED
      BY <1>1, <2>3 DEF WaveInv
  <1>3. ASSUME NEW n \in Nodes, NEW x \in Items, Copy(n, x) PROVE Wave'
    <2> DEFINE c == [item |-> x, form |-> "native"]
    <2>1. c \in Contents
      BY DEF Contents, Forms
    <2>2. AtOrigin(n, c)'
      BY <1>3, CopyStarts
    <2> HIDE DEF c
    <2> QED
      BY <2>1, <2>2, ImageStarts
  <1>4. ASSUME NEW n \in Nodes, NEW m \in Nodes,
               \/ MonitorRead(n) \/ MonitorMark(n) \/ MonitorSend(n)
               \/ ProxyTake(n) \/ ProxyWrite(n) \/ ProxyFallback(n)
               \/ Publish(n) \/ Receive(m, n)
        PROVE  Wave'
    <2>1. CASE ImageWave
      BY <1>4, <2>1, FallbackKnows, ImageMonitors, ImageProxies, ImageNetwork
    <2>2. CASE ~ImageWave
      <3>1. PICK o \in Nodes, c \in Contents : KindOf(c) # "image" /\ (AtOrigin(o, c) \/ Spreading(o, c))
        BY <2>2 DEF WaveInv
      <3>2. AtOrigin(o, c)' \/ Spreading(o, c)'
        BY <1>4, <3>1, OriginNext, SpreadNext
      <3> QED
        BY <3>1, <3>2
    <2> QED
      BY <2>1, <2>2
  <1>5. ASSUME NEW n \in Nodes, Restart(n) \/ OldProxyWrite(n) \/ OldProxyStops(n) PROVE FALSE
    BY <1>5 DEF WaveInv, Restart, OldProxyWrite, OldProxyStops
  <1>6. CASE UNCHANGED vars
    BY <1>2, <1>6 DEF vars
  <1>7. ASSUME NEW n \in Nodes, CacheExpires(n) PROVE WaveInv'
    BY <1>2, <1>7 DEF CacheExpires
  <1>8. Wave' => WaveInv'
    BY <1>1 DEF WaveInv
  <1> HIDE DEF Wave
  <1>9. CASE Next
    BY <1>3, <1>4, <1>5, <1>7, <1>8, <1>9 DEF Next
  <1> QED
    BY <1>6, <1>9

LEMMA WaveIsSilent == WaveInv => NoEcho
  <1> SUFFICES ASSUME WaveInv, NEW n \in Nodes,
                      monitor[n].pc = "send", KindOf(monitor[n].entry) # "image"
               PROVE  ~monitor[n].entry.remote
    BY DEF NoEcho
  <1>1. monitor[n] # Idle
    BY IdleFacts
  <1>2. PICK o \in Nodes, c \in Contents : AtOrigin(o, c) \/ Spreading(o, c)
    BY <1>1 DEF WaveInv, ImageWave
  <1>3. CASE AtOrigin(o, c)
    BY <1>1, <1>3 DEF AtOrigin, AtRest, LocallyQuiet, Local
  <1>4. CASE Spreading(o, c)
    <2>1. PICK f : Handling(n, f)
      BY <1>1, <1>4, StageCases DEF LocallyQuiet
    <2> QED
      BY <1>1, <2>1 DEF Handling
  <1> QED
    BY <1>2, <1>3, <1>4

\* With users who copy one after the other and nodes that stay up, no text and no
\* files written by set_clipboard_content are sent back by get_clipboard_content,
\* whatever access to the clipboard or to a file fails.
THEOREM NoEchoHolds ==
    ASSUME User # "concurrent", ~Restarts
    PROVE  Spec => []NoEcho
  <1>1. Init => Typed /\ WaveInv
    BY TypedInit, WaveInit
  <1>2. Typed /\ WaveInv /\ [Next]_vars => Typed' /\ WaveInv'
    BY TypedNext, WaveNext
  <1> QED
    BY <1>1, <1>2, WaveIsSilent, PTL DEF Spec

-------------------------------------------------------------------------------
(* All machines end up with what was copied last.                            *)

\* A dedup state describes one content.
LEMMA DescribesOne ==
    ASSUME NEW d, NEW e1 \in Entries, NEW e2 \in Entries \cup {EmptyClip},
           Describes(d, e1), Describes(d, e2)
    PROVE  ContentOf(e1) = ContentOf(e2)
  <1>1. KindOf(e1) \in Kinds /\ ReadKey(e1) # None
    BY KeyType, NoneAssumption
  <1>2. d[KindOf(e1)] = ReadKey(e1)
    BY <1>1 DEF Describes, OnlyKey, DedupNew
  <1>3. d[KindOf(e1)] = IF KindOf(e1) = KindOf(e2) THEN ReadKey(e2) ELSE None
    BY <1>1 DEF Describes, OnlyKey, DedupNew
  <1>4. KindOf(e1) = KindOf(e2) /\ ReadKey(e1) = ReadKey(e2)
    BY <1>1, <1>2, <1>3
  <1>5. e1.form \in Forms /\ e2.form \in Forms
    BY DEF Entries, EmptyClip, Forms
  <1>6. ASSUME NEW e, KindOf(e) # "text" PROVE e.form # "paths"
    BY <1>6 DEF KindOf
  <1>7. CASE KindOf(e1) = "text"
    BY <1>4, <1>7 DEF ReadKey, ContentOf
  <1>8. CASE KindOf(e1) = "image"
    <2>1. e1.form = "native" /\ e2.form = "native"
      BY <1>4, <1>5, <1>6, <1>8 DEF Forms
    <2> QED
      BY <1>4, <1>8, <2>1 DEF ReadKey, ContentOf
  <1>9. CASE KindOf(e1) = "files"
    <2>1. e1.form = "native" /\ e2.form = "native"
      BY <1>4, <1>5, <1>6, <1>9 DEF Forms
    <2> QED
      BY <1>4, <1>9, <2>1 DEF ReadKey, ContentOf
  <1> QED
    BY <1>1, <1>7, <1>8, <1>9 DEF Kinds

\* The new dedup state describes nothing.
LEMMA NewDescribesNothing ==
    ASSUME NEW e \in Entries PROVE ~Describes(DedupNew, e)
  <1>1. KindOf(e) \in Kinds /\ ReadKey(e) # None
    BY KeyType, NoneAssumption
  <1> QED
    BY <1>1 DEF Describes, OnlyKey, DedupNew

\* Without failures: what happens to the dedup states, and no list of paths is written.
LEMMA OneKeyNext ==
    ASSUME Typed, ~Restarts, lost' = {}, NEW k \in Nodes, HasOneKey(dedup[k]), [Next]_vars
    PROVE  HasOneKey(dedup'[k])
  <1>1. dedup \in [Nodes -> DedupStates]
    BY WaveTypes
  <1>2. CASE UNCHANGED dedup
    BY <1>2
  <1>3. ASSUME NEW n \in Nodes, NEW d, HasOneKey(d), dedup' = [dedup EXCEPT ![n] = d]
        PROVE  HasOneKey(dedup'[k])
    BY <1>1, <1>3
  <1>4. ASSUME NEW n \in Nodes, MonitorMark(n) PROVE HasOneKey(dedup'[k])
    <2> DEFINE e == monitor[n].entry
               d == OnlyKey(dedup[n], KindOf(e), ReadKey(e))
    <2>1. e \in Entries
      BY <1>4, WaveTypes, IdleFacts DEF MonitorMark
    <2>2. HasOneKey(d)
      BY <2>1, KeyType, OneKey
    <2>3. dedup' = dedup \/ dedup' = [dedup EXCEPT ![n] = d]
      BY <1>4 DEF MonitorMark
    <2> HIDE DEF d
    <2> QED
      BY <1>2, <1>3, <2>2, <2>3
  <1>5. ASSUME NEW n \in Nodes, ProxyTake(n) PROVE HasOneKey(dedup'[k])
    <2> DEFINE d == DedupBefore(n, Head(toq[n]))
    <2>1. Head(toq[n]) \in Contents
      BY <1>5, WaveTypes DEF ProxyTake
    <2>2. HasOneKey(d)
      BY <2>1, KeyType, OneKey DEF DedupBefore
    <2>3. dedup' = dedup \/ dedup' = [dedup EXCEPT ![n] = d]
      BY <1>5 DEF ProxyTake
    <2> HIDE DEF d
    <2> QED
      BY <1>2, <1>3, <2>2, <2>3
  <1>6. ASSUME NEW n \in Nodes, ProxyFallback(n) \/ Restart(n) PROVE FALSE
    BY <1>6 DEF ProxyFallback, Restart
  <1>7. CASE UNCHANGED vars
    BY <1>2, <1>7 DEF vars
  <1>8. CASE Next
    BY <1>2, <1>4, <1>5, <1>6, <1>8
       DEF Next, Copy, MonitorRead, MonitorSend, ProxyWrite, Publish, Receive, CacheExpires,
           OldProxyWrite, OldProxyStops
  <1> QED
    BY <1>7, <1>8

\* A step with only c on its way leaves only c on its way.
LEMMA OnlyMonitors ==
    ASSUME Typed, NEW c, OnlyContent(c), NEW n \in Nodes,
           MonitorRead(n) \/ MonitorMark(n) \/ MonitorSend(n)
    PROVE  OnlyContent(c)'
  <1>1. UNCHANGED <<clip, proxy, toq, link, seen>>
    BY DEF MonitorRead, MonitorMark, MonitorSend
  <1>2. \A k \in Nodes : notified'[k] => notified[k]
    BY WaveTypes DEF MonitorRead, MonitorMark, MonitorSend
  <1>3. \A k \in Nodes : monitor'[k] # Idle => ContentOf(monitor'[k].entry) = c
    <2>1. monitor[n].pc \in {"read", "send"} => monitor[n] # Idle
      BY IdleFacts
    <2>2. CASE MonitorRead(n)
      <3> DEFINE new == [pc |-> "read", entry |-> clip[n]]
      <3>1. ContentOf(new.entry) = c
        BY <2>2 DEF MonitorRead, OnlyContent
      <3>2. monitor' = monitor \/ monitor' = [monitor EXCEPT ![n] = new]
        BY <2>2 DEF MonitorRead
      <3> HIDE DEF new
      <3> QED
        BY <3>1, <3>2, WaveTypes DEF OnlyContent
    <2>3. CASE MonitorMark(n)
      <3> DEFINE new == [pc |-> "send", entry |-> monitor[n].entry]
      <3>1. ContentOf(new.entry) = c
        BY <2>1, <2>3 DEF MonitorMark, OnlyContent
      <3>2. monitor' = [monitor EXCEPT ![n] = Idle] \/ monitor' = [monitor EXCEPT ![n] = new]
        BY <2>3 DEF MonitorMark
      <3> HIDE DEF new
      <3>3. \A k \in Nodes : monitor[k] # Idle => ContentOf(monitor[k].entry) = c
        BY DEF OnlyContent
      <3>4. \A k \in Nodes : monitor'[k] \in {monitor[k], Idle, new}
        BY <3>2, WaveTypes
      <3> QED
        BY <3>1, <3>3, <3>4
    <2>4. CASE MonitorSend(n)
      BY <2>1, <2>4, WaveTypes DEF MonitorSend, OnlyContent
    <2> QED
      BY <2>2, <2>3, <2>4
  <1>4. \A k \in Nodes : fromq'[k] \in Seq({c})
    <2>1. CASE fromq' = fromq
      BY <2>1 DEF OnlyContent
    <2>2. CASE MonitorSend(n)
      <3>1. ContentOf(monitor[n].entry) = c
        BY <2>2, IdleFacts DEF MonitorSend, OnlyContent
      <3>2. fromq' = fromq \/ fromq' = [fromq EXCEPT ![n] = Append(@, c)]
        BY <2>2, <3>1 DEF MonitorSend
      <3>3. Append(fromq[n], c) \in Seq({c})
        BY DEF OnlyContent
      <3> QED
        BY <2>1, <3>2, <3>3, WaveTypes DEF OnlyContent
    <2> QED
      BY <2>1, <2>2 DEF MonitorRead, MonitorMark
  <1> QED
    BY <1>1, <1>2, <1>3, <1>4 DEF OnlyContent

LEMMA OnlyProxies ==
    ASSUME Typed, NEW c, OnlyContent(c), NEW n \in Nodes, ProxyTake(n) \/ ProxyWrite(n)
    PROVE  OnlyContent(c)'
  <1>1. UNCHANGED <<monitor, fromq, link, seen>>
    BY DEF ProxyTake, ProxyWrite
  <1>2. CASE ProxyTake(n)
    <2>1. Head(toq[n]) = c /\ Tail(toq[n]) \in Seq({c})
      BY <1>2 DEF ProxyTake, OnlyContent
    <2>2. /\ toq' = [toq EXCEPT ![n] = Tail(toq[n])]
          /\ proxy' = proxy \/ proxy' = [proxy EXCEPT ![n] = [pc |-> "write", content |-> c]]
          /\ UNCHANGED <<clip, notified>>
      BY <1>2, <2>1 DEF ProxyTake
    <2>3. \A k \in Nodes : toq'[k] \in Seq({c})
      BY <2>1, <2>2, WaveTypes DEF OnlyContent
    <2>4. \A k \in Nodes : proxy'[k] # Idle => proxy'[k].content = c
      <3>1. \A k \in Nodes : proxy[k] # Idle => proxy[k].content = c
        BY DEF OnlyContent
      <3>2. \A k \in Nodes : proxy'[k] = proxy[k] \/ proxy'[k] = [pc |-> "write", content |-> c]
        BY <2>2, WaveTypes
      <3> QED
        BY <3>1, <3>2
    <2> QED
      BY <1>1, <2>2, <2>3, <2>4 DEF OnlyContent
  <1>3. CASE ProxyWrite(n)
    <2>1. proxy[n].content = c /\ c \in Contents
      BY <1>3, IdleFacts, WaveTypes DEF ProxyWrite, OnlyContent
    <2>2. ContentOf(Received(c)) = c
      BY <2>1, KindFacts
    <2>3. /\ proxy' = [proxy EXCEPT ![n] = Idle] /\ UNCHANGED toq
          /\ \/ UNCHANGED <<clip, notified>>
             \/ /\ clip' = [clip EXCEPT ![n] = Received(c)]
                /\ notified' = [notified EXCEPT ![n] = TRUE]
      BY <1>3, <2>1 DEF ProxyWrite, SetClip
    <2>4. \A k \in Nodes : notified'[k] => ContentOf(clip'[k]) = c
      BY <2>2, <2>3, WaveTypes DEF OnlyContent
    <2>5. \A k \in Nodes : proxy'[k] # Idle => proxy'[k].content = c
      BY <2>3, WaveTypes DEF OnlyContent
    <2> QED
      BY <1>1, <2>3, <2>4, <2>5 DEF OnlyContent
  <1> QED
    BY <1>2, <1>3

LEMMA OnlyNetwork ==
    ASSUME Typed, NEW c, OnlyContent(c), NEW n \in Nodes, NEW m \in Nodes,
           Publish(n) \/ Receive(m, n) \/ CacheExpires(n)
    PROVE  OnlyContent(c)'
  <1>1. UNCHANGED <<clip, notified, monitor, proxy>>
    BY DEF Publish, Receive, CacheExpires
  <1>2. CASE Publish(n)
    <2> DEFINE row == [k \in Nodes |-> IF k = n THEN link[n][k] ELSE Append(link[n][k], c)]
    <2>1. Head(fromq[n]) = c /\ Tail(fromq[n]) \in Seq({c})
      BY <1>2 DEF Publish, OnlyContent
    <2>2. /\ fromq' = [fromq EXCEPT ![n] = Tail(fromq[n])] /\ UNCHANGED toq
          /\ link' = link \/ link' = [link EXCEPT ![n] = row]
          /\ \/ seen' = seen \/ seen' = [seen EXCEPT ![n] = @]
             \/ seen' = [seen EXCEPT ![n] = @ \cup {c}]
      BY <1>2, <2>1 DEF Publish
    <2>3. \A k \in Nodes : row[k] \in Seq({c})
      BY DEF OnlyContent
    <2> HIDE DEF row
    <2>4. \A k, j \in Nodes : link'[j][k] \in Seq({c})
      BY <2>2, <2>3, WaveTypes DEF OnlyContent
    <2>5. \A k \in Nodes : fromq'[k] \in Seq({c})
      BY <2>1, <2>2, WaveTypes DEF OnlyContent
    <2>6. \A k \in Nodes : seen'[k] \subseteq {c}
      <3>1. \A k \in Nodes : seen[k] \subseteq {c}
        BY DEF OnlyContent
      <3>2. \A k \in Nodes : seen'[k] = seen[k] \/ seen'[k] = seen[k] \cup {c}
        BY <2>2, WaveTypes
      <3> QED
        BY <3>1, <3>2
    <2> QED
      BY <1>1, <2>2, <2>4, <2>5, <2>6 DEF OnlyContent
  <1>3. CASE Receive(m, n)
    <2>1. Head(link[m][n]) = c /\ Tail(link[m][n]) \in Seq({c})
      BY <1>3 DEF Receive, OnlyContent
    <2>2. /\ link' = [link EXCEPT ![m][n] = Tail(link[m][n])] /\ UNCHANGED fromq
          /\ toq' = toq \/ toq' = [toq EXCEPT ![n] = Append(toq[n], c)]
          /\ \/ seen' = seen \/ seen' = [seen EXCEPT ![n] = @]
             \/ seen' = [seen EXCEPT ![n] = @ \cup {c}]
      BY <1>3, <2>1 DEF Receive
    <2>3. \A k, j \in Nodes : link'[j][k] \in Seq({c})
      <3>1. \A k, j \in Nodes : link[j][k] \in Seq({c})
        BY DEF OnlyContent
      <3>2. \A k, j \in Nodes : link'[j][k] \in {link[j][k], Tail(link[m][n])}
        BY <2>2, WaveTypes
      <3> QED
        BY <2>1, <3>1, <3>2
    <2>4. Append(toq[n], c) \in Seq({c})
      BY DEF OnlyContent
    <2>5. \A k \in Nodes : toq'[k] \in Seq({c})
      BY <2>2, <2>4, WaveTypes DEF OnlyContent
    <2>6. \A k \in Nodes : seen'[k] \subseteq {c}
      <3>1. \A k \in Nodes : seen[k] \subseteq {c}
        BY DEF OnlyContent
      <3>2. \A k \in Nodes : seen'[k] = seen[k] \/ seen'[k] = seen[k] \cup {c}
        BY <2>2, WaveTypes
      <3> QED
        BY <3>1, <3>2
    <2> QED
      BY <1>1, <2>2, <2>3, <2>5, <2>6 DEF OnlyContent
  <1>4. CASE CacheExpires(n)
    <2>1. UNCHANGED <<fromq, toq, link>> /\ \A k \in Nodes : seen'[k] \subseteq seen[k]
      BY <1>4, WaveTypes DEF CacheExpires
    <2> QED
      BY <1>1, <2>1 DEF OnlyContent
  <1> QED
    BY <1>2, <1>3, <1>4

\* A queue is not empty after something was added.
LEMMA NotEmpty ==
    ASSUME NEW s \in Seq(Contents), NEW x \in Contents PROVE Append(s, x) # <<>>
  <1>1. Len(Append(s, x)) = Len(s) + 1 /\ Len(s) \in Nat
    OBVIOUS
  <1>2. Len(<<>>) = 0
    OBVIOUS
  <1> QED
    BY <1>1, <1>2

\* A step of machine n, or of the network towards it.
Works(n, m) ==
    \/ MonitorRead(n) \/ MonitorMark(n) \/ MonitorSend(n)
    \/ ProxyTake(n) \/ ProxyWrite(n) \/ ProxyFallback(n)
    \/ Publish(n) \/ Receive(m, n) \/ CacheExpires(n)

\* A machine that will write c, or has it, goes on to.
LEMMA TakesStay ==
    ASSUME Typed, lost' = {}, NEW c, OnlyContent(c), NEW k \in Nodes, Reached(k, c),
           NEW n \in Nodes, NEW m \in Nodes, Works(n, m), Takes(k) \/ Has(k, c)
    PROVE  Takes(k)' \/ Has(k, c)'
  <1>1. ~ProxyFallback(n) /\ Next
    BY DEF Works, ProxyFallback, Next
  <1>2. CASE ProxyWrite(n) /\ n = k
    <2>1. proxy[k] # Idle /\ proxy[k].content = c /\ c \in Contents
      BY <1>2, IdleFacts, WaveTypes DEF ProxyWrite, OnlyContent
    <2>2. HasOneKey(dedup[k])
      BY <2>1 DEF Reached
    <2>3. SetClip(k, Received(c)) /\ UNCHANGED dedup
      BY <1>2, <2>1 DEF ProxyWrite
    <2>4. clip'[k] = Received(c) /\ notified'[k]
      BY <2>3, WaveTypes DEF SetClip
    <2>5. Current(k)'
      BY <2>2, <2>3, <2>4, CurrentVacuous
    <2> QED
      BY <2>1, <2>4, <2>5, KindFacts DEF Has
  <1>3. CASE ~(ProxyWrite(n) /\ n = k) /\ Has(k, c)
    <2>1. clip'[k] = clip[k]
      BY <1>1, <1>3, WaveTypes
         DEF Works, MonitorRead, MonitorMark, MonitorSend, ProxyTake, ProxyWrite, SetClip,
             Publish, Receive, CacheExpires
    <2>2. Current(k)'
      BY <1>1, <1>3, CurrentNext DEF Has
    <2> QED
      BY <1>3, <2>1, <2>2 DEF Has
  <1>4. CASE ~(ProxyWrite(n) /\ n = k) /\ Takes(k)
    <2>1. CASE ProxyTake(n) \/ ProxyWrite(n)
      <3>1. n # k => toq'[k] = toq[k] /\ proxy'[k] = proxy[k]
        BY <2>1, WaveTypes DEF ProxyTake, ProxyWrite
      <3>2. n = k => proxy'[k] # Idle
        BY <1>4, <2>1, WaveTypes, IdleFacts DEF ProxyTake
      <3> QED
        BY <1>4, <3>1, <3>2 DEF Takes
    <2>2. CASE Receive(m, n)
      <3> DEFINE x == Head(link[m][n])
      <3>1. UNCHANGED proxy /\ (toq' = toq \/ toq' = [toq EXCEPT ![n] = Append(@, x)])
        BY <2>2 DEF Receive
      <3> HIDE DEF x
      <3>2. toq[k] # <<>> => toq'[k] # <<>>
        BY <3>1, WaveTypes
      <3> QED
        BY <1>4, <3>1, <3>2 DEF Takes
    <2>3. CASE UNCHANGED <<toq, proxy>>
      BY <1>4, <2>3 DEF Takes
    <2> QED
      BY <1>1, <2>1, <2>2, <2>3
         DEF Works, MonitorRead, MonitorMark, MonitorSend, Publish, CacheExpires
  <1> QED
    BY <1>2, <1>3, <1>4

\* Each machine stays reached.
LEMMA ReachedNext ==
    ASSUME Typed, ~Restarts, lost' = {}, NEW c, OnlyContent(c), NEW k \in Nodes, Reached(k, c),
           NEW n \in Nodes, NEW m \in Nodes, Works(n, m)
    PROVE  Reached(k, c)'
  <1>1. ~ProxyFallback(n) /\ Next
    BY DEF Works, ProxyFallback, Next
  <1>2. Takes(k) \/ Has(k, c) => Takes(k)' \/ Has(k, c)'
    BY TakesStay
  <1>3. proxy'[k] # Idle => HasOneKey(dedup'[k])
    <2>1. CASE ProxyTake(n) /\ n = k
      <3>1. Head(toq[k]) \in Contents
        BY <2>1, WaveTypes DEF ProxyTake
      <3>2. dedup'[k] = DedupBefore(k, Head(toq[k]))
        BY <2>1, WaveTypes DEF ProxyTake
      <3> QED
        BY <3>1, <3>2, KeyType, OneKey DEF DedupBefore
    <2>2. CASE ~(ProxyTake(n) /\ n = k)
      <3>1. proxy'[k] = proxy[k] \/ proxy'[k] = Idle
        BY <1>1, <2>2, WaveTypes
           DEF Works, MonitorRead, MonitorMark, MonitorSend, ProxyTake, ProxyWrite,
               Publish, Receive, CacheExpires
      <3> QED
        BY <1>1, <3>1, OneKeyNext DEF Reached
    <2> QED
      BY <2>1, <2>2
  <1>4. Touched(k)' => Takes(k)' \/ Has(k, c)'
    <2>1. CASE Touched(k)
      BY <1>2, <2>1 DEF Reached
    <2>2. CASE ~Touched(k)
      <3>1. ~notified[k] /\ monitor[k] = Idle /\ fromq[k] = <<>> /\ seen[k] = {}
        BY <2>2 DEF Touched
      <3>2. CASE n # k
        <4>1. /\ notified'[k] = notified[k] /\ monitor'[k] = monitor[k]
              /\ fromq'[k] = fromq[k] /\ seen'[k] = seen[k]
          BY <1>1, <3>2, WaveTypes
             DEF Works, MonitorRead, MonitorMark, MonitorSend, ProxyTake, ProxyWrite, SetClip,
                 Publish, Receive, CacheExpires
        <4> QED
          BY <3>1, <4>1 DEF Touched
      <3>3. CASE n = k
        <4>1. CASE Receive(m, k)
          <5> DEFINE x == Head(link[m][k])
          <5>0. x \in Contents
            BY <4>1, WaveTypes DEF Receive
          <5>1. toq' = [toq EXCEPT ![k] = Append(@, x)]
            BY <3>1, <4>1 DEF Receive
          <5> HIDE DEF x
          <5>2. toq'[k] # <<>>
            <6>1. toq[k] \in Seq(Contents) /\ toq'[k] = Append(toq[k], x)
              BY <5>1, WaveTypes
            <6> QED
              BY <5>0, <6>1, NotEmpty
          <5> QED
            BY <5>2 DEF Takes
        <4>2. CASE ProxyTake(k)
          BY <3>1, <4>2 DEF Touched, ProxyTake
        <4>3. CASE ProxyWrite(k)
          <5>1. Takes(k)
            BY <4>3, IdleFacts DEF ProxyWrite, Takes
          <5> QED
            BY <1>2, <5>1
        <4>4. ~MonitorRead(k) /\ ~MonitorMark(k) /\ ~MonitorSend(k) /\ ~Publish(k) /\ ~CacheExpires(k)
          BY <3>1, IdleFacts DEF MonitorRead, MonitorMark, MonitorSend, Publish, CacheExpires
        <4> QED
          BY <1>1, <3>3, <4>1, <4>2, <4>3, <4>4 DEF Works
      <3> QED
        BY <3>2, <3>3
    <2> QED
      BY <2>1, <2>2
  <1>5. Takes(k)' \/ Has(k, c)' \/ \E j \in Nodes : link'[j][k] # <<>>
    <2>1. CASE Takes(k) \/ Has(k, c)
      BY <1>2, <2>1
    <2>2. CASE ~(Takes(k) \/ Has(k, c))
      <3>1. seen[k] = {} /\ ~Touched(k)
        BY <2>2 DEF Reached, Touched
      <3>2. PICK j \in Nodes : link[j][k] # <<>>
        BY <2>2 DEF Reached
      <3>3. CASE Receive(m, n) /\ n = k
        <4> DEFINE x == Head(link[m][k])
        <4>0. x \in Contents
          BY <3>3, WaveTypes DEF Receive
        <4>1. toq' = [toq EXCEPT ![k] = Append(@, x)]
          BY <3>1, <3>3 DEF Receive
        <4> HIDE DEF x
        <4>2. toq'[k] # <<>>
          <5>1. toq[k] \in Seq(Contents) /\ toq'[k] = Append(toq[k], x)
            BY <4>1, WaveTypes
          <5> QED
            BY <4>0, <5>1, NotEmpty
        <4> QED
          BY <4>2 DEF Takes
      <3>4. CASE Receive(m, n) /\ n # k
        BY <3>2, <3>4, WaveTypes DEF Receive
      <3>5. CASE Publish(n)
        <4> DEFINE x == Head(fromq[n])
                   row == [i \in Nodes |-> IF i = n THEN link[n][i] ELSE Append(link[n][i], x)]
        <4>0. x \in Contents
          <5>1. fromq[n] # <<>> /\ fromq[n] \in Seq(Contents)
            BY <3>5, WaveTypes DEF Publish
          <5> QED
            BY <5>1
        <4>1. link' = link \/ link' = [link EXCEPT ![n] = row]
          BY <3>5 DEF Publish
        <4> HIDE DEF x
        <4>2. link[n][k] # <<>> => row[k] # <<>>
          <5>1. link[n][k] \in Seq(Contents)
            BY WaveTypes
          <5>2. Append(link[n][k], x) # <<>>
            BY <4>0, <5>1, NotEmpty
          <5> QED
            BY <5>2
        <4> HIDE DEF row
        <4>3. link'[j][k] # <<>>
          BY <3>2, <4>1, <4>2, WaveTypes
        <4> QED
          BY <4>3
      <3>6. CASE UNCHANGED link
        BY <3>2, <3>6
      <3> QED
        BY <1>1, <3>3, <3>4, <3>5, <3>6
           DEF Works, MonitorRead, MonitorMark, MonitorSend, ProxyTake, ProxyWrite, CacheExpires
    <2> QED
      BY <2>1, <2>2
  <1> QED
    BY <1>3, <1>4, <1>5 DEF Reached

LEMMA SpreadStays ==
    ASSUME Typed, ~Restarts, lost' = {}, NEW c, Spread(c),
           NEW n \in Nodes, NEW m \in Nodes, Works(n, m)
    PROVE  Spread(c)'
  <1>1. ~ProxyFallback(n)
    BY DEF ProxyFallback
  <1>2. OnlyContent(c)'
    BY <1>1, OnlyMonitors, OnlyProxies, OnlyNetwork DEF Works, Spread
  <1> QED
    BY <1>2, ReachedNext DEF Spread

\* What is new and has not left its machine goes on to, and is then all there is.
LEMMA FreshNext ==
    ASSUME Typed, lost' = {}, NEW o \in Nodes, NEW c \in Contents, FreshAt(o, c),
           NEW n \in Nodes, NEW m \in Nodes, Works(n, m)
    PROVE  FreshAt(o, c)' \/ Spread(c)'
  <1>1. AtOrigin(o, c) /\ \A k \in Nodes : seen[k] = {}
    BY DEF FreshAt
  <1>2. n = o /\ (MonitorRead(o) \/ MonitorMark(o) \/ MonitorSend(o) \/ Publish(o))
    BY <1>1, OriginSteps DEF Works, CacheExpires
  <1>3. clip[o] = Local(c) /\ Local(c) \in Entries /\ ContentOf(Local(c)) = c
    BY <1>1, KindFacts DEF AtOrigin
  <1>4. CASE MonitorRead(o)
    <2>1. /\ monitor'[o] = [pc |-> "read", entry |-> Local(c)]
          /\ UNCHANGED <<clip, dedup, seen>> /\ notified[o]
      BY <1>3, <1>4, WaveTypes DEF MonitorRead
    <2>2. AtOrigin(o, c)'
      BY <1>1, <1>4, <2>1, OriginMonitor, IdleFacts
    <2> QED
      BY <1>1, <2>1, <2>2 DEF FreshAt
  <1>5. CASE MonitorMark(o)
    <2>1. ~notified[o] /\ monitor[o].entry = Local(c) /\ monitor[o].pc = "read"
      BY <1>1, <1>5, IdleFacts DEF MonitorMark, AtOrigin
    <2>2. dedup[o][KindOf(Local(c))] # ReadKey(Local(c))
      BY <2>1 DEF FreshAt
    <2>3. /\ dedup' = [dedup EXCEPT ![o] = OnlyKey(@, KindOf(Local(c)), ReadKey(Local(c)))]
          /\ monitor' = [monitor EXCEPT ![o] = [pc |-> "send", entry |-> Local(c)]]
          /\ UNCHANGED <<clip, notified, seen>>
      BY <1>5, <2>1, <2>2 DEF MonitorMark
    <2>4. monitor'[o] = [pc |-> "send", entry |-> Local(c)]
      BY <2>3, WaveTypes
    <2>5. dedup'[o] = OnlyKey(DedupNew, KindOf(Local(c)), ReadKey(Local(c)))
      BY <2>3, WaveTypes DEF OnlyKey
    <2>6. AtOrigin(o, c)'
      BY <1>1, <1>5, <2>4, OriginMonitor, IdleFacts
    <2> QED
      BY <1>1, <1>3, <2>1, <2>3, <2>4, <2>5, <2>6 DEF FreshAt, Describes
  <1>6. CASE MonitorSend(o)
    <2>1. /\ ~notified[o] /\ monitor[o].entry = Local(c) /\ fromq[o] = <<>>
          /\ monitor[o].pc = "send"
      BY <1>1, <1>6, IdleFacts DEF MonitorSend, AtOrigin
    <2>2. Describes(dedup[o], clip[o])
      BY <2>1 DEF FreshAt
    <2>3. /\ fromq' = [fromq EXCEPT ![o] = Append(@, c)]
          /\ monitor' = [monitor EXCEPT ![o] = Idle]
          /\ UNCHANGED <<clip, notified, seen, dedup>>
      BY <1>3, <1>6, <2>1 DEF MonitorSend
    <2>4. fromq'[o] = <<c>> /\ monitor'[o] = Idle
      BY <2>1, <2>3, WaveTypes
    <2>5. AtOrigin(o, c)'
      BY <1>1, <1>6, <2>4, OriginMonitor
    <2> QED
      BY <1>1, <2>1, <2>2, <2>3, <2>4, <2>5, IdleFacts DEF FreshAt, Describes
  <1>7. CASE Publish(o)
    <2>1. /\ Spreading(o, c)'
          /\ \A k \in Nodes : k # o => link'[o][k] = <<c>>
          /\ seen' = [seen EXCEPT ![o] = IF IsLarge(c) THEN @ ELSE @ \cup {c}]
      BY <1>1, <1>7, OriginPublish
    <2>2. /\ UNCHANGED <<clip, notified, dedup, monitor, proxy, toq>>
          /\ \A k \in Nodes : ~notified[k] /\ monitor[k] = Idle /\ proxy[k] = Idle /\ toq[k] = <<>>
      BY <1>1, <1>7 DEF Publish, AtOrigin, AtRest, LocallyQuiet
    <2>3. /\ \A k \in Nodes : fromq'[k] = <<>>
          /\ \A j, k \in Nodes : link'[j][k] = <<>> \/ link'[j][k] = <<c>>
      BY <2>1 DEF Spreading, Stage
    <2>4. \A k \in Nodes : seen'[k] \subseteq {c} /\ (k # o => seen'[k] = {})
      BY <1>1, <2>1, WaveTypes
    <2>5. <<>> \in Seq({c}) /\ <<c>> \in Seq({c}) /\ <<c>> # <<>>
      OBVIOUS
    <2>6. OnlyContent(c)'
      BY <2>2, <2>3, <2>4, <2>5 DEF OnlyContent
    <2>7. Has(o, c)'
      <3>1. Describes(dedup[o], clip[o])
        BY <2>2, IdleFacts DEF FreshAt
      <3>2. HasOneKey(dedup[o])
        BY <1>3, <3>1, KeyType, OneKey DEF Describes
      <3> QED
        BY <1>3, <2>2, <3>1, <3>2, IdleFacts DEF Has, Current, MonitorIsCurrent, Describes
    <2>8. ASSUME NEW k \in Nodes PROVE Reached(k, c)'
      <3>1. CASE k = o
        BY <2>2, <2>7, <3>1 DEF Reached
      <3>2. CASE k # o
        BY <2>1, <2>2, <2>3, <2>4, <2>5, <3>2 DEF Reached, Touched
      <3> QED
        BY <3>1, <3>2
    <2> QED
      BY <2>6, <2>8 DEF Spread
  <1> QED
    BY <1>2, <1>4, <1>5, <1>6, <1>7

\* At rest, and with nothing lost, all machines have the same.
LEMMA QuietHas ==
    ASSUME Quiet, NEW c, Spread(c), NEW k \in Nodes
    PROVE  Has(k, c)
  <1>1. ~Takes(k) /\ \A m \in Nodes : link[m][k] = <<>>
    BY DEF Quiet, LocallyQuiet, Takes
  <1> QED
    BY <1>1 DEF Spread, Reached

\* What has not left its machine is work to do.
LEMMA FreshIsWork ==
    ASSUME Quiet, NEW o \in Nodes, NEW c, FreshAt(o, c) PROVE FALSE
  BY IdleFacts DEF Quiet, LocallyQuiet, FreshAt, AtOrigin

\* A copy that is new starts afresh; one of what the machine has, has spread already.
LEMMA CopySyncs ==
    ASSUME User = "patient", Typed, WaveInv, SyncInv, lost' = {},
           NEW n \in Nodes, NEW x \in Items, Copy(n, x)
    PROVE  SyncInv'
  <1> DEFINE c == [item |-> x, form |-> "native"]
  <1>1. c \in Contents /\ Local(c) = [item |-> x, form |-> "native", remote |-> FALSE]
    BY DEF Contents, Forms, Local
  <1>2. /\ Quiet /\ \A k \in Nodes : seen[k] = {}
        /\ SetClip(n, Local(c))
        /\ lost' = IF Describes(dedup[n], clip'[n]) THEN lost ELSE {}
        /\ UNCHANGED <<dedup, monitor, proxy, fromq, toq, oldq, link, seen>>
    BY <1>1 DEF Copy
  <1>3. AtOrigin(n, c)'
    BY CopyStarts
  <1>4. LocalHits(dedup[n])
    BY DEF WaveInv
  <1>5. dedup[n][KindOf(Local(c))] = ReadKey(Local(c)) => Describes(dedup[n], Local(c))
    BY <1>1, <1>4 DEF LocalHits
  <1> HIDE DEF c
  <1>6. /\ clip'[n] = Local(c) /\ notified'[n]
        /\ \A k \in Nodes : k # n => clip'[k] = clip[k] /\ notified'[k] = notified[k]
    BY <1>2, WaveTypes DEF SetClip
  <1>7. Local(c) \in Entries /\ ContentOf(Local(c)) = c
    BY <1>1, KindFacts
  <1>8. CASE ~Describes(dedup[n], Local(c))
    <2>1. FreshAt(n, c)'
      BY <1>2, <1>3, <1>5, <1>6, <1>8 DEF FreshAt
    <2> QED
      BY <1>1, <2>1 DEF SyncInv
  <1>9. CASE Describes(dedup[n], Local(c))
    <2>1. lost = {}
      BY <1>2, <1>6, <1>9
    <2>2. PICK d : Spread(d)
      BY <1>2, <2>1, FreshIsWork DEF SyncInv
    <2>3. \A k \in Nodes : Has(k, d)
      BY <1>2, <2>2, QuietHas
    <2>4. Describes(dedup[n], clip[n])
      <3>1. dedup[n] = DedupNew \/ Describes(dedup[n], clip[n])
        BY <1>2, <2>3 DEF Has, Current, MonitorIsCurrent, Quiet, LocallyQuiet
      <3> QED
        BY <1>7, <1>9, <3>1, NewDescribesNothing
    <2>5. d = c
      <3>1. clip[n] \in Entries \cup {EmptyClip}
        BY WaveTypes
      <3> QED
        BY <1>7, <1>9, <2>3, <2>4, <3>1, DescribesOne DEF Has
    <2>6. OnlyContent(d)'
      BY <1>2, <1>6, <1>7, <2>2, <2>5 DEF Spread, OnlyContent
    <2>7. ASSUME NEW k \in Nodes PROVE Has(k, d)'
      <3>1. Current(k)'
        BY <2>3, CurrentNext DEF Has, Next
      <3> QED
        BY <1>6, <1>7, <2>3, <2>5, <3>1 DEF Has
    <2>8. ASSUME NEW k \in Nodes PROVE Reached(k, d)'
      <3>1. HasOneKey(dedup'[k])
        BY <2>7 DEF Has, Current
      <3> QED
        BY <2>7, <3>1 DEF Reached
    <2>9. Spread(d)'
      BY <2>6, <2>8 DEF Spread
    <2> QED
      BY <2>9 DEF SyncInv
  <1> QED
    BY <1>8, <1>9

LEMMA SyncInit == Init => SyncInv
  <1> SUFFICES ASSUME Init PROVE SyncInv
    OBVIOUS
  <1> DEFINE c == ContentOf(EmptyClip)
  <1>1. ASSUME NEW n \in Nodes
        PROVE  /\ clip[n] = EmptyClip /\ ~notified[n] /\ dedup[n] = DedupNew
               /\ monitor[n] = Idle /\ proxy[n] = Idle
               /\ fromq[n] = <<>> /\ toq[n] = <<>> /\ seen[n] = {}
               /\ \A m \in Nodes : link[m][n] = <<>>
    BY DEF Init
  <1> HIDE DEF c
  <1>2. OnlyContent(c)
    <2>1. <<>> \in Seq({c})
      OBVIOUS
    <2> QED
      BY <1>1, <2>1 DEF OnlyContent
  <1>3. ASSUME NEW n \in Nodes PROVE Reached(n, c)
    <2>1. Has(n, c)
      BY <1>1, OneKey, IdleFacts DEF c, Has, Current, MonitorIsCurrent
    <2> QED
      BY <1>1, <2>1 DEF Reached
  <1>4. Spread(c)
    BY <1>2, <1>3 DEF Spread
  <1> QED
    BY <1>4 DEF SyncInv

LEMMA SyncNext ==
    ASSUME User = "patient", ~Restarts, Typed, WaveInv, SyncInv, [Next]_vars
    PROVE  SyncInv'
  <1> SUFFICES ASSUME lost' = {} PROVE SyncInv'
    BY DEF SyncInv
  <1>1. ASSUME NEW n \in Nodes, NEW m \in Nodes, Works(n, m) PROVE SyncInv'
    <2>1. lost = {}
      BY <1>1 DEF Works, MonitorRead, MonitorMark, MonitorSend, ProxyTake, ProxyWrite,
                  ProxyFallback, Publish, Receive, CacheExpires
    <2>2. CASE \E c : Spread(c)
      BY <1>1, <2>2, SpreadStays DEF SyncInv
    <2>3. CASE \E o \in Nodes, c \in Contents : FreshAt(o, c)
      BY <1>1, <2>3, FreshNext DEF SyncInv
    <2> QED
      BY <2>1, <2>2, <2>3 DEF SyncInv
  <1>2. ASSUME NEW n \in Nodes, NEW x \in Items, Copy(n, x) PROVE SyncInv'
    BY <1>2, CopySyncs
  <1>3. ASSUME NEW n \in Nodes, Restart(n) \/ OldProxyWrite(n) \/ OldProxyStops(n) PROVE FALSE
    BY <1>3 DEF WaveInv, Restart, OldProxyWrite, OldProxyStops
  <1>4. CASE UNCHANGED vars
    <2> USE <1>4 DEF vars
    <2>1. ASSUME NEW c, Spread(c) PROVE Spread(c)'
      BY <2>1 DEF Spread, OnlyContent, Reached, Has, Takes, Touched, Current, MonitorIsCurrent, Describes
    <2>2. ASSUME NEW o \in Nodes, NEW c, FreshAt(o, c) PROVE FreshAt(o, c)'
      BY <2>2 DEF FreshAt, AtOrigin, AtRest, LocallyQuiet, Describes
    <2> QED
      BY <2>1, <2>2 DEF SyncInv
  <1>5. CASE Next
    BY <1>1, <1>2, <1>3, <1>5 DEF Next, Works
  <1> QED
    BY <1>4, <1>5

LEMMA SyncMeansSame == SyncInv => Synchronized
  <1> SUFFICES ASSUME SyncInv, Quiet, lost = {}, NEW m \in Nodes, NEW n \in Nodes
               PROVE  ContentOf(clip[m]) = ContentOf(clip[n])
    BY DEF Synchronized
  <1>1. PICK c : Spread(c)
    BY FreshIsWork DEF SyncInv
  <1> QED
    BY <1>1, QuietHas DEF Has

\* With patient users and nodes that stay up, all machines that are at rest have the
\* same in their clipboards, unless an access or a full channel has lost something
\* since the last copy of what was new to its machine: whatever was lost earlier, and
\* also for images, which are sent back and forth.
THEOREM SynchronizedHolds ==
    ASSUME User = "patient", ~Restarts
    PROVE  Spec => []Synchronized
  <1>1. Init => Typed /\ WaveInv /\ SyncInv
    BY TypedInit, WaveInit, SyncInit
  <1>2. Typed /\ WaveInv /\ SyncInv /\ [Next]_vars => Typed' /\ WaveInv' /\ SyncInv'
    BY TypedNext, WaveNext, SyncNext
  <1> QED
    BY <1>1, <1>2, SyncMeansSame, PTL DEF Spec
===============================================================================
