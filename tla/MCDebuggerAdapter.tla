------------------------ MODULE MCDebuggerAdapter -------------------------
(* Clients for DebuggerAdapter *)
EXTENDS DebuggerAdapter

\* One that sets breakpoints and disconnects, and one that goes away.
OrderlyClients ==
  {[breakpoints |-> TRUE, closes |-> FALSE, early |-> FALSE],
   [breakpoints |-> FALSE, closes |-> TRUE, early |-> FALSE]}
===========================================================================
