--------------------------- MODULE MC_HttpExchange ---------------------------
EXTENDS HttpExchange

\* A message without a line end, one that is nothing but a blank line, and one
\* with blank lines inside and at the end.
MCBodies ==
  {<<"text">>, <<"crlf", "crlf">>, <<"text", "crlf", "crlf", "text", "crlf", "crlf">>}
=============================================================================
