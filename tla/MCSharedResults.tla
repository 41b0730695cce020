-------------------------- MODULE MCSharedResults ---------------------------
(* Values of the constants of SharedResults and Summary for TLC.           *)
EXTENDS SharedResults

\* In tenths: 20.0, 22.6 and 105.0 ms; from the first to the last it is 850,
\* "nm", from the second to the last 824, "mw", and 26 between the others.
MCRtts == {2000, 2264, 10500}

\* 5.0 and 85.0 Mbps, 50 and 850 tenths.
MCTransfers ==
  {[mbps |-> 500, timed |-> TRUE], [mbps |-> 8496, timed |-> TRUE], [mbps |-> 8496, timed |-> FALSE]}

\* None, 0.5 and 2 percent lost, a connection that died, and no connection.
MCPacketTests ==
  {[sent |-> 1000, received |-> r, unavailable |-> FALSE] : r \in {1000, 995, 980}}
  \cup {[sent |-> 1000, received |-> 850, unavailable |-> TRUE],
        [sent |-> 0, received |-> 0, unavailable |-> TRUE]}

\* 2025-11-25, and 2026-01-15, when the number begins with "n".
MCMinutes == {1000000, 1073200}

\* The coordinates of the first differ by 26, -27 and 27, around the letters.
MCContexts ==
  {[score |-> 0, connType |-> "host", protocol |-> "udp", conf |-> "high", place |-> <<0, 26, -1, 26>>],
   [score |-> 71, connType |-> "relay", protocol |-> "tcp", conf |-> "low",
    place |-> <<40713, -74006, 51507, -128>>]}
=============================================================================
