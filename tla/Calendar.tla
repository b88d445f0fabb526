------------------------------ MODULE Calendar ------------------------------
(***************************************************************************)
(* What create promises the guests of a property: a reservation holds its  *)
(* dates until it is over, nobody else reserves an overlapping stay        *)
(* meanwhile, and a reservation that is over never comes back.             *)
(***************************************************************************)
CONSTANTS Bookings, Stays, Overlaps(_, _), Nobody

VARIABLES
    held,   \* the dates each reservation holds, or Nobody
    over    \* the reservations that have ended

Init ==
    /\ held = [b \in Bookings |-> Nobody]
    /\ over = {}

Reserve(b, s) ==
    /\ held[b] = Nobody /\ b \notin over
    /\ \A c \in Bookings : held[c] # Nobody => ~Overlaps(held[c], s)
    /\ held' = [held EXCEPT ![b] = s]
    /\ UNCHANGED over

End(b) ==
    /\ held[b] # Nobody
    /\ held' = [held EXCEPT ![b] = Nobody]
    /\ over' = over \cup {b}

Next == \E b \in Bookings : (\E s \in Stays : Reserve(b, s)) \/ End(b)

Spec == Init /\ [][Next]_<<held, over>>
=============================================================================
