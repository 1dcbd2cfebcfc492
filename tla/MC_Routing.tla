----------------------------- MODULE MC_Routing -----------------------------
(* Instances of Routing for TLC: params that do not mention the members of a *)
(* message, and params that do, as keys and as values, nested and in arrays. *)
EXTENDS Routing, TLC

\* The code tells neither the names nor what descriptors say apart.
Symmetry == Permutations(Names) \cup Permutations(Revisions)

TextStrings ==
  Literals \cup Methods \cup Names \cup Revisions \cup {"alpha", "size", "x", "of", "handled"}

\* What handlers return may look like any part of a response.
HandlerResults ==
  {<<"lbrace", "handled", "colon", "true", "rbrace">>,
   <<"lbrace", "error", "colon", "lbrace", "id", "colon", "7", "rbrace", "comma",
       "result", "colon", "lbracket", "lbrace", "rbrace", "rbracket", "rbrace">>}

PlainParams == {<<>>, <<"lbrace", "name", "colon", "alpha", "rbrace">>}

TrickyParams ==
  PlainParams \cup
  {<<"lbrace", "id", "colon", "7", "rbrace">>,
   <<"lbrace", "name", "colon", "id", "comma", "size", "colon", "7", "rbrace">>,
   <<"lbrace", "method", "colon", "x", "comma", "params", "colon",
       "lbrace", "id", "colon", "7", "rbrace", "rbrace">>,
   <<"lbrace", "of", "colon", "lbracket", "lbrace", "params", "colon", "lbracket", "rbracket",
       "rbrace", "comma", "7", "rbracket", "rbrace">>}
=============================================================================
