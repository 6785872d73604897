------------------------------ MODULE MCRbdDev ------------------------------
(* Scenarios for RbdMapping: one or two mappings of images with up to two   *)
(* ancestors, two users.                                                    *)
EXTENDS RbdMapping

Nobody == [u \in User |-> [s |-> 1, ops |-> <<>>]]
Uses(s, a, b) == [u \in User |-> [s |-> s, ops |-> IF u = 1 THEN a ELSE b]]
io == <<"open", "io", "close">>

Base == [add |-> {1}, remove |-> {1}, users |-> Nobody, depth |-> 1, snap |-> FALSE, chances |-> {}]

Mapped == [Base EXCEPT !.remove = {}]
Two == [Base EXCEPT !.add = {1, 2}, !.remove = {1, 2}, !.depth = 0]

MCScenarios ==
  {[Base EXCEPT !.depth = d, !.chances = {"fail", "resize"}] : d \in {0, 2}}
  \cup {[Base EXCEPT !.users = Uses(1, io, io), !.chances = {c, "refresh"}] : c \in {"resize", "flatten"}}
  \cup {[Base EXCEPT !.users = Uses(1, io, io), !.chances = {"flatten", "resize"}, !.depth = 2],
        [Base EXCEPT !.users = Uses(1, io, io), !.chances = {"shrink"}],
        [Base EXCEPT !.chances = {"refresh", "refreshfail"}],
        [Mapped EXCEPT !.users = Uses(1, io, <<>>), !.chances = {"resize", "flatten", "refresh"}],
        [Mapped EXCEPT !.users = Uses(1, io, <<>>), !.snap = TRUE, !.chances = {"rmsnap", "resize"}],
        [Two EXCEPT !.users = Uses(2, io, <<>>), !.chances = {"resize", "fail"}]}

=============================================================================
