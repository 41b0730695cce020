-------------------------- MODULE SessionRegistry --------------------------
(***************************************************************************)
(* What the session manager promises, without locks, goroutines or time:   *)
(* each test session goes through new, pending, live and gone (or is       *)
(* refused), its peer connection is open in between, a session leaves the  *)
(* registry only after its connection has been released, it never comes    *)
(* back, and every session that was begun ends.                            *)
(***************************************************************************)
CONSTANT Session

VARIABLES
  phase,  \* [Session -> Phase]
  held    \* sessions whose peer connection holds its resources

vars == <<phase, held>>

Phase == {"new", "pending", "live", "gone", "refused"}

Init == phase = [s \in Session |-> "new"] /\ held = {}

Advance(s, from, to) == phase[s] = from /\ phase' = [phase EXCEPT ![s] = to]

Decline(s) == Advance(s, "new", "refused") /\ UNCHANGED held
Begin(s)   == Advance(s, "new", "pending") /\ held' = held \cup {s}
Refuse(s)  == Advance(s, "pending", "refused") /\ held' = held \ {s}
Accept(s)  == s \in held /\ Advance(s, "pending", "live") /\ UNCHANGED held
Release(s) == phase[s] = "live" /\ s \in held /\ held' = held \ {s} /\ UNCHANGED phase
Remove(s)  == s \notin held /\ Advance(s, "live", "gone") /\ UNCHANGED held

End(s) == Refuse(s) \/ Accept(s) \/ Release(s) \/ Remove(s)

Next == \E s \in Session : Decline(s) \/ Begin(s) \/ End(s)

Steps == Init /\ [][Next]_vars

Spec == Steps /\ \A s \in Session : WF_vars(End(s))
=============================================================================
