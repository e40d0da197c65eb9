---------------------------- MODULE NativeClipboard ----------------------------
(* Lists of files in the clipboard of the operating system                   *)
(* (src/src/native_clipboard.rs): what a file manager offers, what this      *)
(* program reads of it and what it offers in turn.                           *)
(*                                                                           *)
(* A name is a sequence of bytes, a path a sequence of names.  A clipboard   *)
(* offers data under some of the types in Types: paths, or URIs as sequences *)
(* of bytes without their file://.                                           *)
EXTENDS Integers, Sequences, SequencesExt, FiniteSetsExt

Types == {"uri-list", "gnome", "hdrop", "paths", "uris"}

\* "paths" and "uris" are plain text: one path or one URI in each line.
TextTypes == {"paths", "uris"}

Bytes == 0 .. 255
Slash == 47
Percent == 37
Plus == 43
Blank == 32

\* A name is not empty and has no "/".
FileNames == Seq(Bytes \ {Slash}) \ {<<>>}
Paths == Seq(FileNames) \ {<<>>}

\* The string of a path.
PathString(path) == FlattenSeq([i \in DOMAIN path |-> <<Slash>> \o path[i]])

-------------------------------------------------------------------------------
(* Percent encoding.                                                         *)

HexDigits == (48 .. 57) \cup (65 .. 70) \cup (97 .. 102)
HexValue(b) == CASE b \in 48 .. 57 -> b - 48 [] b \in 65 .. 70 -> b - 55 [] b \in 97 .. 102 -> b - 87
HexDigit(v) == IF v < 10 THEN v + 48 ELSE v + 55

\* What a file manager writes: letters, digits and "/" as they are.
Unreserved == (48 .. 57) \cup (65 .. 90) \cup (97 .. 122) \cup {Slash}
Encode(s) ==
    FlattenSeq([i \in DOMAIN s |->
        IF s[i] \in Unreserved THEN <<s[i]>>
        ELSE <<Percent, HexDigit(s[i] \div 16), HexDigit(s[i] % 16)>>])

\* u8::from_str_radix(s, 16) takes a sign.
IsEscape(h, l) == h \in HexDigits \cup {Plus} /\ l \in HexDigits
EscapeValue(h, l) == (IF h = Plus THEN 0 ELSE 16 * HexValue(h)) + HexValue(l)

\* `val as char` pushed on a String: a byte above 127 becomes two.
AsChar(b) == IF b < 128 THEN <<b>> ELSE <<192 + b \div 64, 128 + (b % 64)>>

\* The bytes that s stands for, read one by one: "%" takes two more with it, be they
\* an escape or not.  `held` is what has been read of an escape.
ReadByte(acc, b) ==
    CASE Len(acc.held) = 0 /\ b # Percent -> [acc EXCEPT !.out = Append(@, b)]
      [] Len(acc.held) = 0 /\ b = Percent -> [acc EXCEPT !.held = <<b>>]
      [] Len(acc.held) = 1 -> [acc EXCEPT !.held = Append(@, b)]
      [] Len(acc.held) = 2 ->
            [out |-> Append(acc.out, IF IsEscape(acc.held[2], b) THEN EscapeValue(acc.held[2], b) ELSE Percent),
             held |-> <<>>]
Unescape(s) ==
    LET after[k \in 0 .. Len(s)] ==
            IF k = 0 THEN [out |-> <<>>, held |-> <<>>] ELSE ReadByte(after[k - 1], s[k])
        end == after[Len(s)]
    IN  IF end.held = <<>> THEN end.out ELSE Append(end.out, Percent)

DecodeNothing(s) == s                                                  \* mutant
url_decode(s) ==
    LET bytes == Unescape(s)
    IN  FlattenSeq([i \in DOMAIN bytes |-> AsChar(bytes[i])])

-------------------------------------------------------------------------------
(* Reading.                                                                  *)

\* A machine: its system, the command line tools it has, the type of the text that
\* its file manager offers with a list of files, or "none", and whether writing to
\* the clipboard, and reading and writing files, sometimes fails.
Systems == {"linux", "windows", "other"}
Tools == {"xclip", "xsel", "wl-clipboard"}
AllMachines == [os : Systems, tools : SUBSET Tools, text : TextTypes \cup {"none"}, fails : BOOLEAN]

\* Whether there are lines under type t.
Has(offers, t) == t \in DOMAIN offers /\ offers[t] # <<>>

\* try_read_uri_list_x11().or_else(try_read_uri_list_wayland), as the lines read.
\* xsel cannot ask for a type: it gets the text, which must look like a URI.
ReadUriList(tools, offers) ==
    LET typed == IF Has(offers, "uri-list") THEN offers["uri-list"] ELSE <<>>
        x11   == IF "xclip" \in tools /\ typed # <<>> THEN typed
                 ELSE IF "xsel" \in tools /\ Has(offers, "uris") THEN offers["uris"] ELSE <<>>
    IN  IF x11 # <<>> THEN x11 ELSE IF "wl-clipboard" \in tools THEN typed ELSE <<>>

\* line.trim(); the front of a line is file://.
Trim(line) == SubSeq(line, 1, Max({0} \cup {i \in DOMAIN line : line[i] # Blank}))

\* Lines that name no existing path are left out.
parse_uri_list(lines, paths) ==
    LET Named(i) == LET s == url_decode(Trim(lines[i])) IN {p \in paths : PathString(p) = s}
        files[k \in 0 .. Len(lines)] ==
            IF k = 0 THEN <<>>
            ELSE IF Named(k) = {} THEN files[k - 1]
            ELSE Append(files[k - 1], CHOOSE p \in Named(k) : TRUE)
    IN  files[Len(lines)]

\* The paths in the clipboard; <<>> is None.  `paths` are those that exist.
get_clipboard_file_list(machine, offers, paths) ==
    CASE machine.os = "linux" -> parse_uri_list(ReadUriList(machine.tools, offers), paths)
      [] machine.os = "windows" -> IF Has(offers, "hdrop") THEN offers["hdrop"] ELSE <<>>
      [] machine.os = "other" -> <<>>

-------------------------------------------------------------------------------
(* Writing.                                                                  *)

\* The types under which the list may come to be offered, with the tools tried in
\* this order: wl-copy for GNOME, wl-copy, xclip.  On a machine that fails each may fail.
NativeTypes(machine) ==
    LET first == CASE machine.os = "windows" -> {"hdrop"}
                   [] machine.os = "linux" /\ "wl-clipboard" \in machine.tools -> {"gnome"}
                   [] machine.os = "linux" /\ "xclip" \in machine.tools -> {"uri-list"}
                   [] OTHER -> {}
        later == IF machine.os = "linux" /\ machine.tools \cap {"wl-clipboard", "xclip"} # {}
                 THEN {"uri-list"} ELSE {}
    IN  IF machine.fails THEN first \cup later ELSE first

\* No type at all is left: set_clipboard_file_list returns false.
NativeCanFail(machine) == machine.fails \/ NativeTypes(machine) = {}

\* What set_clipboard_file_list offers: on Linux the paths as they are, not encoded.
NativeOffer(type, paths) ==
    [t \in {type} |->
        IF t = "hdrop" THEN paths ELSE [i \in DOMAIN paths |-> PathString(paths[i])]]

-------------------------------------------------------------------------------
(* Other programs.                                                           *)

\* A file manager copies a list of paths.
ManagerOffer(machine, paths) ==
    LET uris  == [i \in DOMAIN paths |-> Encode(PathString(paths[i]))]
        types == CASE machine.os = "linux" -> {"uri-list", "gnome", machine.text}
                   [] machine.os = "windows" -> {"hdrop"}
                   [] machine.os = "other" -> {machine.text}
    IN  [t \in types \ {"none"} |-> IF t \in {"paths", "hdrop"} THEN paths ELSE uris]

\* A file manager pastes: an escape in a URI is a byte.  The strings of the paths.
ManagerReads(offers) ==
    LET uris == UNION {ToSet(offers[t]) : t \in DOMAIN offers \cap {"uri-list", "gnome"}}
    IN  IF Has(offers, "hdrop") THEN {PathString(p) : p \in ToSet(offers["hdrop"])}
        ELSE {Unescape(u) : u \in uris}

-------------------------------------------------------------------------------
(* What the properties of lists of files depend on.                          *)

IsAscii(p) == \A name \in ToSet(p) : \A b \in ToSet(name) : b < 128

NoPercent(p) == \A name \in ToSet(p) : Percent \notin ToSet(name)

\* Names that are the same when they have been written as they are, trimmed and
\* decoded: printable ASCII without "%" and without a blank at the end.
IsPlain(p) ==
    \A name \in ToSet(p) : ToSet(name) \subseteq (32 .. 126) \ {Percent} /\ Last(name) # Blank

\* Whether a list that a file manager has copied can be read.
ReadsLists(m) ==
    \/ m.os = "windows"
    \/ m.os = "linux" /\ \/ m.tools \cap {"xclip", "wl-clipboard"} # {}
                         \/ "xsel" \in m.tools /\ m.text = "uris"
===============================================================================
