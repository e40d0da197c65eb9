----------------------------- MODULE PeerDiscovery -----------------------------
(* What mDNS promises the rest of the program: a node is told of an address  *)
(* once, when it becomes known, and once when it ceases to be.               *)
EXTENDS Integers

CONSTANTS Nodes, Records

\* known[n][r]: how often n has been told that r was discovered, less how often
\* that it has expired.
VARIABLE known

Init == known = [n \in Nodes |-> [r \in Records |-> 0]]

\* Event::Discovered
Discovered(n, R) ==
    /\ R # {}
    /\ \A r \in R : known[n][r] = 0
    /\ known' = [known EXCEPT ![n] = [r \in Records |-> IF r \in R THEN 1 ELSE @[r]]]

\* Event::Expired
Expired(n, R) ==
    /\ R # {}
    /\ \A r \in R : known[n][r] = 1
    /\ known' = [known EXCEPT ![n] = [r \in Records |-> IF r \in R THEN 0 ELSE @[r]]]

Next == \E n \in Nodes, R \in SUBSET Records : Discovered(n, R) \/ Expired(n, R)

Spec == Init /\ [][Next]_known
===============================================================================
