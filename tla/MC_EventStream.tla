--------------------------- MODULE MC_EventStream ---------------------------
(* Instances of EventStream for TLC: messages of one line and of several.    *)
EXTENDS EventStream

Texts == {<<"a">>, <<"b">>, <<"a", "b">>, <<"b", "", "a">>}
AnyNoise == {Comment, Blank, Line("id", "a"), Line("retry", "b")}
=============================================================================
