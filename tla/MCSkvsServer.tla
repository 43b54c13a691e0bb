---------------------------- MODULE MCSkvsServer ----------------------------
(* Instances of SkvsServer for TLC. *)
EXTENDS SkvsServer, TLC

CONSTANTS w1, w2, c1, c2, c3

Symmetry == Permutations(Workers) \cup Permutations(Clients)

\* With BufferSize = 3 and BufferBytes = 5: a request shorter than the limit,
\* one of exactly the limit with a line feed and one without, one that is too
\* long, and one that fills the buffer without a line feed.
WholeLines == {<<"b", LF>>, <<"b", "b", LF>>, <<"b", "b", "b", LF>>,
               <<"b", "b", "b">>, <<"b", "b", "b", "b", "b">>}
\* A whole line, one that fills the buffer, and one that ends the input
\* without a line feed.
OddLines == {<<"b", LF>>, <<"b">>, <<"b", "b", "b", "b", "b">>}
=============================================================================
