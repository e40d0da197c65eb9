---------------------------- MODULE ContentChannel ----------------------------
(* What the network layer of p2p-clipboard promises to the clipboard layer:  *)
(* a lossy broadcast of whole contents.  A content handed to start_network   *)
(* through the rx channel may reach the tx channel of any node, any number   *)
(* of times, or never; nothing else ever reaches a tx channel: no half of a  *)
(* transfer, no mixture of two, no bytes nobody copied.                      *)
EXTENDS Naturals

CONSTANTS
    Nodes,      \* the nodes that run this program
    Contents    \* the contents that can be copied

VARIABLES
    copied,     \* the contents somebody copied so far
    delivered   \* delivered[n]: the contents handed to node n's clipboard

vars == <<copied, delivered>>

Init ==
    /\ copied = {}
    /\ delivered = [n \in Nodes |-> {}]

Submit(c) ==
    /\ copied' = copied \cup {c}
    /\ UNCHANGED delivered

Deliver(n, c) ==
    /\ c \in copied
    /\ delivered' = [delivered EXCEPT ![n] = @ \cup {c}]
    /\ UNCHANGED copied

Next ==
    \/ \E c \in Contents : Submit(c)
    \/ \E n \in Nodes, c \in Contents : Deliver(n, c)

Spec == Init /\ [][Next]_vars
===============================================================================
