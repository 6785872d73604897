------------------------------- MODULE MCOsd -------------------------------
(* OsdCluster with two OSDs and two pools; osd 1 may move to another address. *)
EXTENDS OsdCluster

Map(up, a1, acting, flags) ==
  [up |-> up, addr |-> <<a1, 3>>, acting |-> <<acting, <<2>>>>, flags |-> flags,
   pools |-> {1, 2}, tier |-> <<1, 2>>]
Both == Map({1, 2}, 1, <<1, 2>>, {})
Down == Map({2}, 1, <<2>>, {})
Back == Map({1, 2}, 2, <<1, 2>>, {})
None == Map({2}, 1, <<>>, {})
Full == Map({1, 2}, 1, <<1, 2>>, {"full"})
Gone == [Both EXCEPT !.pools = {2}]

MCBasePool == [r \in Reqs |-> 1]
Scenario(m, k, c) == [maps |-> m, kind |-> k, chances |-> c]
Move == <<Both, Down, Back>>
Histories == {Move, <<Both, None, Back>>, <<Both, Full, Both>>, <<Gone, Both, Gone>>}

\* Two writes and a fault; a read and a write; one request and everything that
\* may happen to it; a linger request, alone and with a write.
MCScenarios ==
  {Scenario(<<Both, None, Back>>, <<"write", "acked">>, {"fault"})}
  \cup {Scenario(h, <<"read", "write">>, {}) : h \in {Move, <<Both, Full, Both>>}}
  \cup {Scenario(Move, <<"acked", "none">>, c) : c \in {{"redirect", "fault"}, {"bad", "expire"}}}
  \cup {Scenario(h, <<"acked", "none">>, c) : h \in Histories, c \in {{"error", "nomem"}, {"cancel", "share"}}}
  \cup {Scenario(Move, <<"acked", "none">>, {"corrupt", "badmap"}),
        Scenario(Move, <<"read", "none">>, {"long", "nomem"})}
  \cup {Scenario(h, <<"linger", "none">>, {"fault"}) : h \in Histories}
  \cup {Scenario(Move, <<"linger", "none">>, c) : c \in {{"cancel", "share"}, {"redirect"}}}
  \cup {Scenario(Move, <<"linger", "write">>, {})}

\* A linger request and a map change.
LingerScenarios == {Scenario(Move, <<"linger", "none">>, {})}

\* A request and maps without an OSD for it.
HomelessScenarios ==
  {Scenario(<<Both, None, Back>>, <<k, "none">>, {}) : k \in {"linger", "write"}}
============================================================================
