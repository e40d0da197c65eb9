--------------------------- MODULE MCPeerConnections ---------------------------
(* Small instances of PeerConnections: a boot node, alone or with another    *)
(* peer.                                                                     *)
EXTENDS PeerConnections

CONSTANTS b, c, b1, b2, b3, bx, c1, lan, ll

\* b1, b2 and b3 are listen addresses of the boot node, b3 its loopback address; bx
\* is a port that it calls from; c1 is the address of another peer.
OwnerOf == [s \in Sockets |-> IF s = c1 THEN c ELSE b]
ClassOf == [s \in Sockets \cup ListenAddrs |->
    CASE s = b3 -> "local" [] s = ll -> "link_local" [] OTHER -> "routable"]
===============================================================================
