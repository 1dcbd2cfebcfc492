------------------------------- MODULE Frames -------------------------------
(***************************************************************************)
(* The call stack of a thread, as far as the client and the server facades *)
(* need it: a sequence of frames, innermost last.  A frame says what its   *)
(* function does next and on which transport; the frame "callback" is user *)
(* code, which may call the facade again.                                  *)
(***************************************************************************)
EXTENDS Integers, Sequences

Frame(do, on) == [do |-> do, on |-> on]

Top(stack) == stack[Len(stack)]

\* The innermost function goes on with these frames, or returns if there are
\* none.
Then(stack, frames) == SubSeq(stack, 1, Len(stack) - 1) \o frames

\* What an exception thrown by the innermost function may leave: it reaches
\* the caller of the facade, or user code in between catches it.
Unwindings(stack) ==
  {SubSeq(stack, 1, k) :
     k \in {0} \cup {i \in 1..(Len(stack) - 1) : stack[i].do = "callback"}}
=============================================================================
