---------------------------- MODULE MCStreamText ----------------------------
(* Instances of StreamText for TLC. *)
EXTENDS StreamText

\* Both tags cut in two, or whole when no timer falls in between, and an answer that
\* grows by snapshots.
MCChunks ==
  [content |-> {<<"a">>, <<"a", "b">>, <<"a", "b", "a">>,
                <<OpenHead>>, <<CloseHead>>, <<TagEnd>>},
   reasoning |-> {<<"b">>}]

MCMaxText == [content |-> 6, reasoning |-> 1]
=============================================================================
