-------------------------- MODULE TransportContract --------------------------
(***************************************************************************)
(* What every ITransport of the library promises about its life, whatever  *)
(* it is made of: it opens and is closed any number of times, by any       *)
(* thread, and each close that takes effect calls the close handler once,  *)
(* on the thread that closed.  A transport that was never opened may be    *)
(* closed, once, and then notifies too.  The transports of the library     *)
(* are shown to implement this specification.                              *)
(***************************************************************************)
CONSTANT Threads   (* the threads that may close the transport             *)

VARIABLES
  open,      (* messages may be exchanged                                  *)
  armed,     (* the next close takes effect and owes a notification        *)
  pending    (* the threads inside a close that has not yet called the     *)
             (* close handler                                              *)

vars == <<open, armed, pending>>

TypeOK ==
  /\ open \in BOOLEAN
  /\ armed \in BOOLEAN
  /\ pending \subseteq Threads

Init ==
  /\ open = FALSE
  /\ armed = TRUE
  /\ pending = {}

Open ==
  /\ ~open
  /\ open' = TRUE
  /\ armed' = TRUE
  /\ UNCHANGED pending

\* A close takes effect once per opening: the next one finds it disarmed.
Shut(t) ==
  /\ armed
  /\ t \notin pending
  /\ open' = FALSE
  /\ armed' = FALSE
  /\ pending' = pending \cup {t}

Notify(t) ==
  /\ t \in pending
  /\ pending' = pending \ {t}
  /\ UNCHANGED <<open, armed>>

Next ==
  \/ Open
  \/ \E t \in Threads : Shut(t) \/ Notify(t)

Spec == Init /\ [][Next]_vars
=============================================================================
