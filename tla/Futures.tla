------------------------------- MODULE Futures -------------------------------
(***************************************************************************)
(* What futures promise their observers, however tasks are scheduled: a    *)
(* future is settled once, by its value, by the error of its action or by  *)
(* a cancellation that came first, and everyone who awaits it or asks for  *)
(* its result is told the same.                                            *)
(***************************************************************************)
EXTENDS Naturals

CONSTANT Ids

VARIABLES state,   \* how far each future has come
          seen     \* what observers were told of each

Settled == {"value", "thrown", "cancelled"}

Init == /\ state = [f \in Ids |-> "free"]
        /\ seen = [f \in Ids |-> {}]

Create(f) == /\ state[f] = "free"
             /\ state' = [state EXCEPT ![f] = "pending"]
             /\ UNCHANGED seen

Settle(f, how) == /\ state[f] = "pending"
                  /\ state' = [state EXCEPT ![f] = how]
                  /\ UNCHANGED seen

Observe(f) == /\ state[f] \in Settled
              /\ seen' = [seen EXCEPT ![f] = @ \cup {state[f]}]
              /\ UNCHANGED state

Next == \E f \in Ids : \/ Create(f)
                       \/ \E how \in Settled : Settle(f, how)
                       \/ Observe(f)

Spec == Init /\ [][Next]_<<state, seen>>
=============================================================================
