---------------------------- MODULE FairSemaphore ----------------------------
(***************************************************************************)
(* What a first-come first-served counting semaphore promises its tasks:   *)
(* at most Permits of them hold a permit, nobody overtakes a task that is  *)
(* already waiting, and a returned permit passes straight to the waiting   *)
(* task that arrived first.  AsrInferenceGate implements this module.      *)
(*                                                                         *)
(* The waiting order is kept as a relation and not as a queue: <<a, b>> is *)
(* in ahead when a and b both wait and a arrived first.                    *)
(***************************************************************************)
EXTENDS Naturals, FiniteSets

CONSTANTS Tasks,     \* the tasks that may ask for a permit
          Permits    \* how many may hold one at a time

VARIABLES holders,   \* tasks that own a permit
          waiting,   \* tasks that wait for one
          ahead      \* arrival order among the waiting tasks

vars == <<holders, waiting, ahead>>

Init ==
    /\ holders = {}
    /\ waiting = {}
    /\ ahead = {}

\* Drops task t from the arrival order.
Without(t) == {p \in ahead : p[1] # t /\ p[2] # t}

\* A free permit goes to a newcomer only when nobody waits for one.
Enter(t) ==
    /\ t \notin holders \cup waiting
    /\ waiting = {}
    /\ Cardinality(holders) < Permits
    /\ holders' = holders \cup {t}
    /\ UNCHANGED <<waiting, ahead>>

\* With every permit taken a newcomer joins behind all that wait.
Wait(t) ==
    /\ t \notin holders \cup waiting
    /\ Cardinality(holders) = Permits
    /\ waiting' = waiting \cup {t}
    /\ ahead' = ahead \cup (waiting \X {t})
    /\ UNCHANGED holders

\* A waiting task gives up.
Abandon(t) ==
    /\ t \in waiting
    /\ waiting' = waiting \ {t}
    /\ ahead' = Without(t)
    /\ UNCHANGED holders

\* The permit of t goes to the first of those waiting, or back to the pool.
Return(t) ==
    /\ t \in holders
    /\ \/ /\ waiting = {}
          /\ holders' = holders \ {t}
          /\ UNCHANGED <<waiting, ahead>>
       \/ \E first \in waiting :
            /\ \A w \in waiting : <<w, first>> \notin ahead
            /\ holders' = (holders \ {t}) \cup {first}
            /\ waiting' = waiting \ {first}
            /\ ahead' = Without(first)

Next == \E t \in Tasks : Enter(t) \/ Wait(t) \/ Abandon(t) \/ Return(t)

Spec == Init /\ [][Next]_vars

=============================================================================
