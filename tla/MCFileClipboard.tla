---------------------------- MODULE MCFileClipboard ----------------------------
(* Two machines of any kind.  Both have a file a; what is a directory with   *)
(* two files on the first machine is a file on the second.  The first also   *)
(* has a file with a name that is not ASCII and a directory with one file.   *)
EXTENDS FileClipboard, TLC

CONSTANTS m1, m2, v1, v2

\* The names "h", "t", "a.", "d d", "o " with a blank, "e%41" and e with an acute accent;
\* "t" is the receive directory.
h == <<104>>
t == <<116>>
a == <<97, 46>>
d == <<100, 32, 100>>
o == <<111, 32>>
pct == <<101, 37, 52, 49>>
eacute == <<195, 169>>

MCReceiveDir == <<t>>

Common == (<<h>> :> Dir) @@ (<<t>> :> Dir) @@ (<<h, a>> :> v1)
MCHome == [n \in Nodes |->
    IF n = m1
    THEN Common @@ (<<h, eacute>> :> v1) @@ (<<h, o>> :> Dir) @@ (<<h, o, pct>> :> v1)
                @@ (<<h, d>> :> Dir) @@ (<<h, d, a>> :> v1) @@ (<<h, d, o>> :> Dir)
                @@ (<<h, d, o, a>> :> v1)
    ELSE Common @@ (<<h, d>> :> v2)]

MCSelections == [n \in Nodes |->
    {<<<<h, d>>>>}
        \cup IF n = m1 THEN {<<<<h, o>>>>, <<<<h, eacute>>, <<h, a>>>>} ELSE {<<<<h, a>>>>}]

Machine(os, tools, text, fails) == [os |-> os, tools |-> tools, text |-> text, fails |-> fails]
MCMachines ==
    {Machine("windows", {}, "none", FALSE), Machine("windows", {}, "none", TRUE),
     Machine("linux", {"xclip"}, "paths", FALSE), Machine("linux", {"xsel"}, "uris", FALSE),
     Machine("linux", {"wl-clipboard"}, "none", FALSE),
     Machine("linux", {"xclip", "wl-clipboard"}, "none", TRUE),
     Machine("other", {}, "paths", FALSE)}
===============================================================================
