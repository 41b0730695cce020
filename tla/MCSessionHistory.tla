-------------------------- MODULE MCSessionHistory --------------------------
(***************************************************************************)
(* SessionManager with a history variable, for the runs about time.        *)
(***************************************************************************)
EXTENDS SessionManager

\* Sessions that somebody had a reason to close: a goroutine for a report or
\* for a terminal peer state was started, or the session exceeded one of its
\* two limits while it was in the map.
VARIABLE excused

Expired(s) == age[s] > MaxSessionTime \/ idle[s] > IdleTimeout

MCInit == Init /\ excused = {}

MCNext ==
  /\ Next
  /\ excused' = excused \cup {s \in Session :
       \/ s \in sessions /\ Expired(s)
       \/ \E c \in Cause : pc[<<s, c>>] = "lock"}

MCFairSpec == MCInit /\ [][MCNext]_<<vars, excused>> /\ Fairness

\* A session is closed only for a cause: the peer reported a terminal state,
\* the client sent its report, the daemon is shutting down, or the session
\* was idle or alive for longer than its limit at some instant (manager.go
\* 114-123).  In particular cleanup closes no session that is just at a
\* limit, and none whose probes keep arriving, before MaxSessionTime.
ClosedForCause ==
  done \subseteq excused \cup (IF pc[Stopper] = "idle" THEN {} ELSE Session)
=============================================================================
