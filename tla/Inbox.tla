------------------------------- MODULE Inbox -------------------------------
\* What the webhook pipeline promises: an accepted message stays pending until
\* it is handled, or it is parked where an operator and the workers find it, and
\* a parked message leaves only by being handled. A message may be lost only
\* when it has an excuse, and an excuse is never withdrawn.
CONSTANT Messages

VARIABLES state, excused

Init == state = [m \in Messages |-> "absent"] /\ excused = {}

Move(m, from, to) == state[m] \in from /\ state' = [state EXCEPT ![m] = to]

Accept(m) == Move(m, {"absent"}, "pending")
Handle(m) == Move(m, {"pending", "parked", "lost"}, "done")
Park(m) == Move(m, {"pending", "lost"}, "parked")
Lose(m) == Move(m, {"pending"}, "lost") /\ m \in excused'

Excuse == \E S \in SUBSET Messages: excused' = excused \union S

Next == /\ Excuse
        /\ \/ UNCHANGED state
           \/ \E m \in Messages: Accept(m) \/ Handle(m) \/ Park(m) \/ Lose(m)

Spec == Init /\ [][Next]_<<state, excused>>
=============================================================================
