------------------------------- MODULE PipeLog -------------------------------
(***************************************************************************)
(* What a pipe promises: messages form a log, and readers together see the *)
(* log from its start, each entry once and in order.  At most Capacity     *)
(* entries are unread (no bound when Capacity is 0), and a closed log      *)
(* takes no more entries but can still be read to its end.                 *)
(***************************************************************************)
EXTENDS Naturals, Sequences

CONSTANTS Values, Capacity

VARIABLES log, out, open

Init == log = <<>> /\ out = <<>> /\ open = TRUE

Write(v) ==
  /\ open
  /\ Capacity > 0 => Len(log) - Len(out) < Capacity
  /\ log' = Append(log, v)
  /\ UNCHANGED <<out, open>>

Read ==
  /\ Len(out) < Len(log)
  /\ out' = Append(out, log[Len(out) + 1])
  /\ UNCHANGED <<log, open>>

Shut == open' = FALSE /\ UNCHANGED <<log, out>>

Next == (\E v \in Values : Write(v)) \/ Read \/ Shut

Spec == Init /\ [][Next]_<<log, out, open>>
=============================================================================
