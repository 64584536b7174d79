------------------------------ MODULE Elevator ------------------------------
(***************************************************************************)
(* What an elevator scheduler promises, on a set of pending requests: the  *)
(* head keeps its direction while a request lies ahead of it and serves    *)
(* the nearest of those; with nothing ahead it turns round and serves the  *)
(* nearest of all.                                                         *)
(***************************************************************************)
EXTENDS Integers

CONSTANTS Requests, Sectors

VARIABLES
    pending,    \* requests waiting for service
    pos,        \* the sector of each request
    prevsec,    \* where the head is
    direction   \* "NEXT" (increasing sectors) or "PREV"

vars == << pending, pos, prevsec, direction >>

Opposite(d) == IF d = "NEXT" THEN "PREV" ELSE "NEXT"
Distance(r) == IF pos[r] > prevsec THEN pos[r] - prevsec ELSE prevsec - pos[r]

Ahead == {r \in pending : IF direction = "NEXT" THEN pos[r] > prevsec
                                                ELSE pos[r] < prevsec}

Init ==
    /\ pending = {}
    /\ pos \in [Requests -> Sectors]
    /\ prevsec = 0
    /\ direction = "NEXT"

Arrive(r) ==
    /\ r \notin pending
    /\ pending' = pending \cup {r}
    /\ \E s \in Sectors : pos' = [pos EXCEPT ![r] = s]
    /\ UNCHANGED << prevsec, direction >>

\* The request's blocks have become part of another pending request.
Absorb(r) ==
    /\ r \in pending
    /\ pending' = pending \ {r}
    /\ UNCHANGED << pos, prevsec, direction >>

Serve(r) ==
    LET candidates == IF Ahead # {} THEN Ahead ELSE pending IN
    /\ r \in candidates
    /\ \A q \in candidates : Distance(r) <= Distance(q)
    /\ pending' = pending \ {r}
    /\ prevsec' = pos[r]
    /\ direction' = IF Ahead # {} THEN direction ELSE Opposite(direction)
    /\ UNCHANGED pos

Next == \E r \in Requests : Arrive(r) \/ Absorb(r) \/ Serve(r)

Spec == Init /\ [][Next]_vars
=============================================================================
