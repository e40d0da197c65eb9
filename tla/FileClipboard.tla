----------------------------- MODULE FileClipboard -----------------------------
(* Files that are copied and pasted between machines (src/src/main.rs and    *)
(* src/src/native_clipboard.rs): the monitor that reads a list of files from *)
(* the clipboard and sends the files themselves, and the proxy that saves    *)
(* received files and puts a list of them in the clipboard.                  *)
(*                                                                           *)
(* The races of monitor and proxy over the clipboard are those of            *)
(* ClipboardSync; here users copy when all machines are at rest, and what    *)
(* matters is paths, names, the files on disk and the three kinds of         *)
(* machines.  The network hands every content to every other machine.        *)
EXTENDS NativeClipboard, FiniteSets

CONSTANTS
    Nodes,
    Machines,    \* what a machine may be, see NativeClipboard
    Home,        \* Home[n]: the files of n at the start
    Selections,  \* Selections[n]: lists of paths that the user of n copies together
    Versions,    \* contents of files
    Torn,        \* part of a file that could not be written to its end
    Dir,         \* what a path of a directory leads to
    ReceiveDir,  \* get_file_receive_dir, a path
    None,
    MaxCopies,   \* bound: number of copies by all users
    MaxEdits     \* bound: number of times a user changes or removes a file

ASSUME MachinesAssumption == Machines \subseteq AllMachines
ASSUME FilesBoundsAssumption ==
    IsFiniteSet(Nodes) /\ MaxCopies \in Nat /\ MaxEdits \in Nat

Ancestors(p) == {SubSeq(p, 1, k) : k \in 1 .. Len(p) - 1}

\* At the start every disk is a tree that has the receive directory.
ASSUME HomeAssumption ==
    /\ Dir \notin Versions \cup {Torn} /\ DOMAIN Home = Nodes
    /\ \A n \in Nodes :
        /\ IsFiniteSet(DOMAIN Home[n]) /\ ReceiveDir \in DOMAIN Home[n]
        /\ \A p \in DOMAIN Home[n] : p \in Paths /\ Home[n][p] \in Versions \cup {Dir}
        /\ \A p \in DOMAIN Home[n] : \A q \in Ancestors(p) \cup {ReceiveDir} :
                q \in DOMAIN Home[n] /\ Home[n][q] = Dir

\* Users select some of what is in a directory.
ASSUME SelectionsAssumption ==
    \A n \in Nodes : \A paths \in Selections[n] :
        /\ paths # <<>> /\ paths \in Seq(DOMAIN Home[n])
        /\ \A i, j \in DOMAIN paths :
                /\ Front(paths[i]) = Front(paths[j])
                /\ paths[i] = paths[j] => i = j

VARIABLES
    machine,   \* machine[n]: chosen at the start
    fs,        \* fs[n]: what each existing path of n leads to
    clip,      \* clip[n]: what n's clipboard offers and whether the proxy wrote it
    notified,  \* notified[n]: a change the monitor has not looked at
    dedup,     \* dedup[n]: DeduplicationState: the last list of files and the last text
    monitor,   \* monitor[n]: where get_clipboard_content is
    proxy,     \* proxy[n]: where set_clipboard_content is
    inbox,     \* inbox[n]: contents that have arrived
    got,       \* history: got[n], the set of saved entries of the content that is in the clipboard
    last,      \* history: the last copy of a user: its files, but for those that were gone or
               \* could not be read when they were to be sent, and what they have been since
    sent,      \* number of contents sent since then
    copies, edits

vars == <<machine, fs, clip, notified, dedup, monitor, proxy, inbox, got, last, sent, copies, edits>>

Idle == [pc |-> "idle"]
NoOffer == [t \in {} |-> <<>>]
DedupNew == [files |-> None, text |-> None]

\* Nothing is left to do anywhere.
LocallyQuiet(n) == ~notified[n] /\ monitor[n] = Idle /\ proxy[n] = Idle /\ inbox[n] = <<>>
Quiet == \A n \in Nodes : LocallyQuiet(n)

-------------------------------------------------------------------------------
(* Files.                                                                    *)

IsFile(f, p) == p \in DOMAIN f /\ f[p] # Dir
IsDirectory(f, p) == p \in DOMAIN f /\ f[p] = Dir

\* The FileEntries of a path: of a file itself, of a directory all files below it,
\* with names that start at the directory.  The order of read_dir does not matter,
\* for no two of them have the same name.
EntriesOf(f, p) ==
    SetToSeq({[name |-> SubSeq(q, Len(p), Len(q)), bytes |-> f[q]] :
                 q \in {q \in DOMAIN f : IsFile(f, q) /\ IsPrefix(p, q)}})
CollectFiles(f, paths) == FlattenSeq([i \in DOMAIN paths |-> EntriesOf(f, paths[i])])

\* Without some paths and all that is below them.  Those that cannot be read, or are
\* neither file nor directory any more, are skipped by both loops: read_dir, an entry
\* of a directory or fs::read gives an error.
Without(f, gone) == [q \in {q \in DOMAIN f : \A r \in gone : ~IsPrefix(r, q)} |-> f[q]]
Unread(n, paths) ==
    IF machine[n].fails THEN SUBSET {q \in DOMAIN fs[n] : \E p \in ToSet(paths) : IsPrefix(p, q)}
    ELSE {{}}

Names(entries) == {e.name : e \in entries}
\* The last copy with those of its files that are among the given entries.
StillThere(entries) == [last EXCEPT !.entries = {e \in @ : e.name \in Names(entries)}]

FilesContent(entries) ==
    [type |-> IF Len(entries) = 1 THEN "File" ELSE "Files", entries |-> entries]
TextContent(text) == [type |-> "Text", text |-> text]

NoDirs(f, dirs) == f                                                   \* mutant
WithDirs(f, dirs) == [q \in DOMAIN f \cup dirs |-> IF q \in DOMAIN f THEN f[q] ELSE Dir]
WithFile(f, p, v) == [q \in DOMAIN f \cup {p} |-> IF q = p THEN v ELSE f[q]]

\* Something else is in the way of a file at dest.
Blocked(f, dest) == (\E q \in Ancestors(dest) : IsFile(f, q)) \/ IsDirectory(f, dest)

\* One turn of the loop of save_received_files.  fs::write may fail before it has
\* done anything, or leave part of a file.
SaveOne(acc, e, outcome) ==
    LET dest == ReceiveDir \o e.name
        dirs == WithDirs(acc.fs, Ancestors(dest))
    IN  IF Blocked(acc.fs, dest) THEN acc
        ELSE CASE outcome = "written" ->
                    [fs |-> WithFile(dirs, dest, e.bytes), saved |-> Append(acc.saved, dest)]
               [] outcome = "unwritten" -> [acc EXCEPT !.fs = dirs]
               [] outcome = "torn" -> [acc EXCEPT !.fs = WithFile(dirs, dest, Torn)]
save_received_files(f, entries, outcomes) ==
    LET after[k \in 0 .. Len(entries)] ==
            IF k = 0 THEN [fs |-> f, saved |-> <<>>]
            ELSE SaveOne(after[k - 1], entries[k], outcomes[k])
    IN  after[Len(entries)]
Outcomes(n, entries) ==
    [DOMAIN entries -> IF machine[n].fails THEN {"written", "unwritten", "torn"} ELSE {"written"}]

OnlyDirectories(saved) == {Front(p) : p \in ToSet(saved)}              \* mutant
deduplicate_to_top_level_paths(saved) ==
    {SubSeq(p, 1, Len(ReceiveDir) + 1) : p \in ToSet(saved)}

\* The lists that may be put in the clipboard: a HashSet has no order.
ClipboardPaths(type, saved) ==
    IF type = "File" THEN {saved} ELSE SetToSeqs(deduplicate_to_top_level_paths(saved))

-------------------------------------------------------------------------------
Init ==
    /\ machine \in [Nodes -> Machines]
    /\ fs = Home
    /\ clip = [n \in Nodes |-> [offers |-> NoOffer, remote |-> FALSE]]
    /\ notified = [n \in Nodes |-> FALSE]
    /\ dedup = [n \in Nodes |-> DedupNew]
    /\ monitor = [n \in Nodes |-> Idle]
    /\ proxy = [n \in Nodes |-> Idle]
    /\ inbox = [n \in Nodes |-> <<>>]
    /\ got = [n \in Nodes |-> {}]
    /\ last = None /\ sent = 0
    /\ copies = 0 /\ edits = 0

SetClip(n, offers, remote) ==
    /\ clip' = [clip EXCEPT ![n] = [offers |-> offers, remote |-> remote]]
    /\ notified' = [notified EXCEPT ![n] = TRUE]

\* A user copies files.
UserCopy(n, paths) ==
    /\ copies < MaxCopies
    /\ Quiet
    /\ ToSet(paths) \subseteq DOMAIN fs[n]
    /\ copies' = copies + 1
    /\ SetClip(n, ManagerOffer(machine[n], paths), FALSE)
    /\ last' = [node |-> n, paths |-> paths, entries |-> ToSet(CollectFiles(fs[n], paths)),
                seen |-> ToSet(CollectFiles(fs[n], paths)), again |-> dedup[n].files = paths]
    /\ sent' = 0
    /\ UNCHANGED <<machine, fs, dedup, monitor, proxy, inbox, got, edits>>

\* A user changes a file of their own, not one of those received, at any time.
UserEdit(n, p, v) ==
    /\ edits < MaxEdits
    /\ p \in DOMAIN Home[n] /\ ~IsPrefix(ReceiveDir, p) /\ IsFile(fs[n], p) /\ fs[n][p] # v
    /\ edits' = edits + 1
    /\ fs' = [fs EXCEPT ![n] = WithFile(@, p, v)]
    /\ last' = IF copies = 0 \/ last.node # n THEN last
               ELSE [last EXCEPT !.seen = @ \cup ToSet(CollectFiles(fs'[n], last.paths))]
    /\ UNCHANGED <<machine, clip, notified, dedup, monitor, proxy, inbox, got, sent, copies>>

\* A user removes a file or directory of their own, at any time, but not what they have
\* just copied before the monitor has looked at the clipboard.
UserRemove(n, p) ==
    /\ edits < MaxEdits
    /\ p \in DOMAIN fs[n] /\ ~IsPrefix(ReceiveDir, p) /\ ~IsPrefix(p, ReceiveDir)
    /\ notified[n] /\ last.node = n => \A q \in ToSet(last.paths) : ~IsPrefix(p, q)
    /\ edits' = edits + 1
    /\ fs' = [fs EXCEPT ![n] = Without(@, {p})]
    /\ last' = IF copies = 0 \/ last.node # n \/ sent # 0 THEN last
               ELSE StillThere(ToSet(CollectFiles(fs'[n], last.paths)))
    /\ UNCHANGED <<machine, clip, notified, dedup, monitor, proxy, inbox, got, sent, copies>>

-------------------------------------------------------------------------------
(* The monitor: get_clipboard_content.                                       *)

\* The file list is looked for first, then text; there are no images here.
MonitorRead(n) ==
    LET offers == clip[n].offers
        paths  == get_clipboard_file_list(machine[n], offers, DOMAIN fs[n])
        texts  == DOMAIN offers \cap TextTypes
    IN  /\ notified[n] /\ monitor[n] = Idle
        /\ notified' = [notified EXCEPT ![n] = FALSE]
        /\ \/ /\ paths # <<>>
              /\ monitor' = [monitor EXCEPT ![n] =
                    [pc |-> "files", paths |-> paths, remote |-> clip[n].remote]]
           \/ /\ paths = <<>>
              /\ \E t \in texts : monitor' = [monitor EXCEPT ![n] =
                    [pc |-> "text", text |-> <<t, offers[t]>>, remote |-> clip[n].remote]]
           \/ /\ paths = <<>> /\ texts = {}
              /\ UNCHANGED monitor
        /\ UNCHANGED <<machine, fs, clip, dedup, proxy, inbox, got, last, sent, copies, edits>>

MarkAlways(n, kind, key) == TRUE                                       \* mutant
\* Whether the key is new to the dedup state.
IsNew(n, kind, key) == dedup[n][kind] # key

\* Under the lock; the files are read after it is dropped.
MonitorMark(n) ==
    LET kind == monitor[n].pc
        key  == IF kind = "files" THEN monitor[n].paths ELSE monitor[n].text
    IN  /\ kind \in {"files", "text"}
        /\ \/ /\ ~IsNew(n, kind, key)
              /\ monitor' = [monitor EXCEPT ![n] = Idle]
              /\ UNCHANGED dedup
           \/ /\ IsNew(n, kind, key)
              /\ dedup' = [dedup EXCEPT ![n] = [DedupNew EXCEPT ![kind] = key]]
              /\ monitor' = [monitor EXCEPT ![n] =
                    [pc |-> "send", key |-> <<kind, key>>, remote |-> monitor[n].remote]]
        /\ UNCHANGED <<machine, fs, clip, notified, proxy, inbox, got, last, sent, copies, edits>>

Send(n, content) ==
    /\ inbox' = [m \in Nodes |-> IF m = n THEN inbox[m] ELSE Append(inbox[m], content)]
    /\ sent' = sent + 1

\* The files are read and sent, those that can be; nothing is sent when there are none.
MonitorSend(n) ==
    LET kind == monitor[n].key[1]
        key  == monitor[n].key[2]
    IN  /\ monitor[n].pc = "send"
        /\ monitor' = [monitor EXCEPT ![n] = Idle]
        /\ \/ /\ kind = "text"
              /\ Send(n, TextContent(key))
              /\ UNCHANGED last
           \/ /\ kind = "files"
              /\ \E unread \in Unread(n, key) :
                    LET entries == CollectFiles(Without(fs[n], unread), key)
                    IN  /\ \/ entries # <<>> /\ Send(n, FilesContent(entries))
                           \/ entries = <<>> /\ UNCHANGED <<inbox, sent>>
                        /\ last' = IF monitor[n].remote THEN last ELSE StillThere(ToSet(entries))
        /\ UNCHANGED <<machine, fs, clip, notified, dedup, proxy, got, copies, edits>>

-------------------------------------------------------------------------------
(* The proxy: set_clipboard_content.                                         *)

Write(n, kind, key) ==
    /\ dedup' = [dedup EXCEPT ![n] = [DedupNew EXCEPT ![kind] = key]]
    /\ proxy' = [proxy EXCEPT ![n] = [pc |-> kind, key |-> key]]

\* A content is taken, its files are saved and the dedup state is updated.
ProxyTake(n) ==
    LET c == Head(inbox[n])
    IN  /\ proxy[n] = Idle
        /\ inbox[n] # <<>>
        /\ inbox' = [inbox EXCEPT ![n] = Tail(@)]
        /\ \/ /\ c.type = "Text"
              /\ Write(n, "text", c.text)
              /\ got' = [got EXCEPT ![n] = {}]
              /\ UNCHANGED fs
           \/ /\ c.type # "Text"
              /\ \E outcomes \in Outcomes(n, c.entries) :
                    LET r == save_received_files(fs[n], c.entries, outcomes)
                    IN  /\ fs' = [fs EXCEPT ![n] = r.fs]
                        /\ got' = [got EXCEPT ![n] =
                                {e \in ToSet(c.entries) : ReceiveDir \o e.name \in ToSet(r.saved)}]
                        /\ \/ /\ r.saved = <<>>
                              /\ UNCHANGED <<dedup, proxy>>
                           \/ /\ r.saved # <<>>
                              /\ \E paths \in ClipboardPaths(c.type, r.saved) : Write(n, "files", paths)
        /\ UNCHANGED <<machine, clip, notified, monitor, last, sent, copies, edits>>

\* The list of files is offered in a native type.
ProxyWriteFiles(n) ==
    /\ proxy[n].pc = "files"
    /\ \E t \in NativeTypes(machine[n]) :
            SetClip(n, NativeOffer(t, proxy[n].key), TRUE)
    /\ proxy' = [proxy EXCEPT ![n] = Idle]
    /\ UNCHANGED <<machine, fs, dedup, monitor, inbox, got, last, sent, copies, edits>>

FallbackUnmarked(n, text) == dedup[n]                                  \* mutant
\* The text that takes the place of the list is put in the dedup state as well.
FallbackDedup(n, text) == [dedup[n] EXCEPT !.text = text]

\* It cannot be: the paths will be written as text.  On Windows EmptyClipboard may
\* have emptied the clipboard before the failure.
ProxyFallback(n) ==
    LET text == <<"paths", proxy[n].key>>
    IN  /\ proxy[n].pc = "files"
        /\ NativeCanFail(machine[n])
        /\ dedup' = [dedup EXCEPT ![n] = FallbackDedup(n, text)]
        /\ proxy' = [proxy EXCEPT ![n] = [pc |-> "text", key |-> text]]
        /\ \/ UNCHANGED <<clip, notified>>
           \/ machine[n].os = "windows" /\ SetClip(n, NoOffer, TRUE)
        /\ UNCHANGED <<machine, fs, monitor, inbox, got, last, sent, copies, edits>>

\* Text is written, or cannot be.
ProxyWriteText(n) ==
    LET text == proxy[n].key
    IN  /\ proxy[n].pc = "text"
        /\ \/ /\ SetClip(n, [t \in {text[1]} |-> text[2]], TRUE)
              /\ UNCHANGED got
           \/ /\ machine[n].fails
              /\ got' = [got EXCEPT ![n] = {}]
              /\ UNCHANGED <<clip, notified>>
        /\ proxy' = [proxy EXCEPT ![n] = Idle]
        /\ UNCHANGED <<machine, fs, dedup, monitor, inbox, last, sent, copies, edits>>

Next ==
    \E n \in Nodes :
        \/ \E paths \in Selections[n] : UserCopy(n, paths)
        \/ \E p \in DOMAIN Home[n], v \in Versions : UserEdit(n, p, v)
        \/ \E p \in DOMAIN Home[n] : UserRemove(n, p)
        \/ MonitorRead(n) \/ MonitorMark(n) \/ MonitorSend(n)
        \/ ProxyTake(n) \/ ProxyWriteFiles(n) \/ ProxyFallback(n) \/ ProxyWriteText(n)

Spec == Init /\ [][Next]_vars

-------------------------------------------------------------------------------
(* Properties.                                                               *)

\* Every variable has its type; in particular the paths of a machine are a tree, also
\* after save_received_files has failed half-way.
Entry(e) == Len(e.name) > 0 /\ e.bytes \in Versions \cup {Torn}
TypeOK ==
    /\ machine \in [Nodes -> Machines]
    /\ \A n \in Nodes :
        /\ \A p \in DOMAIN fs[n] : fs[n][p] \in Versions \cup {Dir, Torn}
        /\ \A p \in DOMAIN fs[n] : \A q \in Ancestors(p) : IsDirectory(fs[n], q)
        /\ DOMAIN clip[n].offers \subseteq Types /\ clip[n].remote \in BOOLEAN
        /\ notified[n] \in BOOLEAN
        /\ DOMAIN dedup[n] = {"files", "text"}
        /\ monitor[n].pc \in {"idle", "files", "text", "send"}
        /\ proxy[n].pc \in {"idle", "files", "text"}
        /\ \A c \in ToSet(inbox[n]) : c.type \in {"File", "Files", "Text"}
        /\ \A e \in got[n] : Entry(e)
    /\ copies \in 0 .. MaxCopies /\ edits \in 0 .. MaxEdits

\* When all is at rest, the files a user copied are on every other machine, as they
\* have been at some time since the copy, at their place below the receive directory
\* (unless a file is where a directory must be, or the reverse); but for those, and only
\* those, that were gone or could not be read when they were to be sent.  It takes names
\* in ASCII on Linux, and a list that is not the one copied or received just before.
CopiesArrive ==
    Quiet /\ copies # 0 =>
        LET m == last.node
        IN  /\ ~last.again
            /\ ReadsLists(machine[m])
            /\ machine[m].os = "linux" => \A p \in ToSet(last.paths) : IsAscii(p)
            => \A n \in Nodes \ {m}, e \in last.entries :
                    LET dest == ReceiveDir \o e.name
                    IN  \/ machine[n].fails \/ Blocked(fs[n], dest)
                        \/ /\ dest \in DOMAIN fs[n]
                           /\ [name |-> e.name, bytes |-> fs[n][dest]] \in last.seen

\* When all is at rest and a list of received files is in the clipboard, all of them
\* are on disk with their bytes, also when other files of the content could not be saved,
\* and a file manager that pastes finds them, under one of the paths of the list, below
\* the receive directory.  On Linux that takes names without "%": paths are written into
\* URIs as they are.  One type is offered, of the two that set_clipboard_file_list names.
PasteHasAll ==
    Quiet => \A n \in Nodes :
        clip[n].remote /\ DOMAIN clip[n].offers \cap {"uri-list", "gnome", "hdrop"} # {} =>
            \A e \in got[n] :
                LET dest == ReceiveDir \o e.name
                IN  /\ dest \in DOMAIN fs[n] /\ fs[n][dest] = e.bytes
                    /\ Has(clip[n].offers, "hdrop") \/ NoPercent(dest) =>
                        \E q \in (Ancestors(dest) \cup {dest}) \ (Ancestors(ReceiveDir) \cup {ReceiveDir}) :
                            PathString(q) \in ManagerReads(clip[n].offers)

\* What set_clipboard_content wrote is not sent back, if the names are plain: on
\* Linux other names do not survive the way to the clipboard and back.  Where there
\* are such names it takes two machines: the echoes of several can meet at another.
NoEcho ==
    \A n \in Nodes :
        monitor[n].pc = "send" /\ monitor[n].remote =>
            \E e \in got[n] : ~IsPlain(e.name)

\* What set_clipboard_content wrote is never sent back.
NeverEchoes == \A n \in Nodes : ~(monitor[n].pc = "send" /\ monitor[n].remote)

\* Copying files does not start a loop: every other machine sends at most one content
\* back.  It takes plain names or two machines, as for NoEcho, and names that are no
\* escape once they are decoded: each level of escapes could cost one round more.
NoLoop == sent <= Cardinality(Nodes)
===============================================================================
