------------------------------- MODULE MCRbd -------------------------------
(* RbdSession with an image of two objects of two bytes, cloned from a      *)
(* parent with objects of one byte.                                         *)
EXTENDS RbdSession

Req(op, offset, length) == [op |-> op, offset |-> offset, length |-> length]
Objects(x, y) == [n \in ObjNums |-> IF n = 0 THEN x ELSE y]

\* The overlap ends within the second object, where the parent goes on.
Base == [reqs |-> <<>>, store |-> Objects(Missing, Missing), overlap |-> 3, size |-> 4,
         read_only |-> FALSE, holes |-> {}, flatten |-> FALSE, errors |-> {}]

\* Requests that cross objects, and that race for the same missing object.
Racing ==
  {[Base EXCEPT !.reqs = q] :
     q \in {<<Req("write", 1, 1), Req("read", 0, 3)>>,
            <<Req("write", 0, 1), Req("write", 1, 1)>>,
            <<Req("discard", 1, 1), Req("write", 0, 2)>>,
            <<Req("discard", 2, 1), Req("read", 2, 2)>>}}

\* Images with holes, short objects and odd sizes; failures of plain requests.
Shapes ==
  {[Base EXCEPT !.reqs = <<Req("read", 0, 4), Req("write", 3, 1)>>,
                !.store = Objects(Missing, Object(<<Old>>)), !.holes = {0}, !.errors = {"read"}],
   [Base EXCEPT !.reqs = <<Req("discard", 0, 4), Req("read", 1, 2)>>, !.overlap = 0,
                !.store = Objects(Object(<<Old, Old>>), Missing), !.errors = {"discard"}],
   [Base EXCEPT !.reqs = <<Req("write", 1, 2), Req("read", 1, 1)>>,
                !.store = Objects(Object(<<Old>>), Object(<<Old>>))],
   [Base EXCEPT !.reqs = <<Req("discard", 2, 1), Req("read", 3, 1)>>, !.size = 3],
   [Base EXCEPT !.reqs = <<Req("write", 0, 4), Req("discard", 3, 1)>>, !.overlap = 1,
                !.errors = {"write"}],
   [Base EXCEPT !.reqs = <<Req("write", 0, 1), Req("read", 0, 1)>>, !.read_only = TRUE]}

\* Writes and discards to an image that is being flattened.
Flattened ==
  {[Base EXCEPT !.reqs = q, !.flatten = TRUE] :
     q \in {<<Req("write", 1, 1)>>, <<Req("discard", 1, 1), Req("write", 3, 1)>>}}

MCScenarios == Racing \cup Shapes \cup Flattened

\* A write to two objects that do not exist.
Copyups == {[Base EXCEPT !.reqs = <<Req("write", 1, 2)>>]}

\* A read of an image that is being flattened.
FlattenReads == {[Base EXCEPT !.reqs = <<Req("read", 0, 1)>>, !.flatten = TRUE]}
============================================================================
