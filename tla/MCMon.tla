------------------------------- MODULE MCMon -------------------------------
(* MonSession with three monitors, one of them silent and one not among the *)
(* mount options.                                                           *)
EXTENDS MonSession

Scenario(k, n, c) == [kind |-> k, reqs |-> 1..n, chances |-> c]

\* Two requests and a fault; one request and two faults, with all that can
\* happen to tickets, subscriptions and replies; a timer that fires too early.
MCScenarios ==
  {Scenario("none", 2, {"fault"})}
  \cup {Scenario("x", 1, c) : c \in {{"fault", "fault again"}, {"fault", "next", "publish"},
          {"fault", "lapse"}, {"age", "lapse", "validate"}, {"age", "fault", "validate"},
          {"reject", "fault"}, {"bad", "fault"}, {"signal", "fault"},
          {"nomem", "next", "publish"}}}
  \cup {Scenario("x", 0, c) : c \in {{"renew", "next", "publish", "fault"}, {"rush", "fault"},
          {"rush", "next", "publish"}, {"reject", "timeout", "stop"}}}
  \cup {Scenario("none", 1, c) : c \in {{"reject", "next"}, {"rush", "fault"}, {"stop", "renew"}}}

\* An unmount while the connection breaks.
StopScenarios == {Scenario("none", 0, {"fault", "stop"})}
============================================================================
