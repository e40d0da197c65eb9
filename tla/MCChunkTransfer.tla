---------------------------- MODULE MCChunkTransfer ----------------------------
(* Instances of ChunkTransfer: contents whose encodings are 1, 3 and 4 bytes *)
(* long with chunks of 2 bytes, so that there is a content sent in one       *)
(* message, one with a short last chunk, and one at a multiple of the size.  *)
EXTENDS ChunkTransfer, TLC

CONSTANTS a, b, l, small, short, even, files

\* A byte names its content and its place in it.
MCRaw ==
    LET length == (small :> 1) @@ (short :> 3) @@ (even :> 4) @@ (files :> 2)
    IN  [c \in Contents |-> [i \in 1 .. length[c] |-> <<c, i>>]]
MCByte == Contents \X (1 .. 4)

\* How often each peer copies something.
SenderAndLegacy == [p \in Peers |-> CASE p = a -> 2 [] p = b -> 0 [] p = l -> 1]
OneSender == [p \in Peers |-> IF p = a THEN 2 ELSE 0]
BothSend == [p \in Peers |-> IF p = a THEN 2 ELSE 1]
===============================================================================
