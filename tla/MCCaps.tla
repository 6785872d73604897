------------------------------- MODULE MCCaps -------------------------------
(***************************************************************************)
(* Scenarios for CapsSession: two user threads, two metadata servers, a    *)
(* file of two pages.  Each scenario gives the caps held at first, what    *)
(* the threads do, what the servers allow in each phase and what else may  *)
(* happen once.                                                            *)
(***************************************************************************)
EXTENDS CapsSession

All == Bits
Mixed == {"p", "As", "Fr", "Fw"}
Shared == {"p", "As", "Fr", "Fc"}
RW == CapsForMode("rw")

NoneAt == [id |-> 0, caps |-> {}, wanted |-> {}]
CapAt(id, caps, wanted) == [id |-> id, caps |-> caps, wanted |-> wanted]
Full == [m \in MDS |-> IF m = 0 THEN CapAt(1, All, RW) ELSE NoneAt]
Pinned == [m \in MDS |-> IF m = 0 THEN CapAt(1, {"p", "As"}, RW) ELSE NoneAt]
Both == [m \in MDS |-> CapAt(m + 1, Shared, RW)]

\* What the first server and the other one may issue.
Phase2(auth, replica, other) == [allow |-> [m \in MDS |-> IF m = 0 THEN auth ELSE replica], other |-> other]
Phase(caps, other) == Phase2(caps, caps, other)

open(mode) == [op |-> "open", mode |-> mode]
close(mode) == [op |-> "close", mode |-> mode]
read(p) == [op |-> "read", p |-> p]
write(p) == [op |-> "write", p |-> p, sync |-> FALSE]
sync(p) == [op |-> "write", p |-> p, sync |-> TRUE]
fsync == [op |-> "fsync"]
chmod == [op |-> "chmod"]

\* A file of one page on which one server issued everything, open once.
Opened(mode, n) == [x \in {"rd", "wr", "rw"} |-> IF x = mode THEN n ELSE 0]
File(chances, a, b) ==
  [at |-> Full, size |-> 1, max |-> 4, modes |-> Opened("rw", 1), chances |-> chances,
   phases |-> <<Phase(All, FALSE)>>, tid |-> 0,
   ops |-> [u \in User |-> IF u = "u1" THEN a ELSE b]]

\* Another client comes, writes and goes.
Share(a, b) == [File({"other"}, a, b) EXCEPT !.phases = <<Phase(Mixed, TRUE), Phase(All, FALSE)>>]

\* It comes to stay.
Revoke(chances, a, b) == [File(chances, a, b) EXCEPT !.phases = <<Phase(All, FALSE), Phase(Mixed, FALSE)>>]

\* Two servers issued the file shared; then another client opens it to write.
Replicas(chances, a, b) ==
  [File(chances, a, b) EXCEPT !.at = Both,
     !.phases = <<Phase(Shared, FALSE), Phase2(Mixed, Mixed \ {"Fw"}, TRUE), Phase(Shared, FALSE)>>]

\* The writer needs a larger file than the servers let it have.
Growing == [File({"slow", "inode"}, <<write(2)>>, <<>>) EXCEPT !.max = 1]
Asking == [File({}, <<write(2)>>, <<write(2)>>) EXCEPT !.max = 1, !.at = Pinned]

\* Flushes whose tids go through the largest one.
Wrapping == [File({"syncfs"}, <<chmod, chmod, fsync>>, <<write(1)>>) EXCEPT !.tid = 65534]

\* Nobody has the file open yet.
Closed(chances, a, b) == [File(chances, a, b) EXCEPT !.modes = Opened("rw", 0)]

\* They issue it shared for good, and the file moves or is asked back.
Steady(chances, a) == [Replicas(chances, a, <<>>) EXCEPT !.phases = <<Phase(Shared, FALSE)>>]

MCScenarios ==
  {Share(<<write(1)>>, <<>>), Share(<<read(1), read(1)>>, <<>>), Share(<<read(1)>>, <<read(1)>>),
   Share(<<chmod, fsync>>, <<>>), Wrapping,
   File({"snap"}, <<write(1), chmod, fsync>>, <<>>), File({"crash"}, <<write(1), chmod, fsync>>, <<>>),
   File({"migrate"}, <<chmod, fsync>>, <<>>),
   File({}, <<write(1), chmod, fsync>>, <<write(1), fsync>>),
   File({"nomem"}, <<write(1), chmod, fsync>>, <<>>), Revoke({"nomem"}, <<write(1)>>, <<>>),
   File({"snap", "nomem"}, <<write(1), write(1)>>, <<>>), File({"stale"}, <<read(1), write(1)>>, <<>>),
   Revoke({}, <<write(1)>>, <<read(1)>>),
   Replicas({}, <<read(1)>>, <<>>), Steady({"migrate"}, <<read(1)>>),
   Steady({"recall"}, <<read(1), close("rw")>>),
   File({"snap", "snap2"}, <<write(1), write(1)>>, <<>>), File({"snap"}, <<write(1)>>, <<write(1)>>),
   File({"snap", "unsafe"}, <<sync(1), fsync>>, <<>>),
   File({"migrate"}, <<write(1), read(1)>>, <<>>), Revoke({"migrate"}, <<chmod>>, <<>>),
   File({"crash", "snap"}, <<write(1)>>, <<>>),
   File({"lapse"}, <<read(1), write(1)>>, <<>>), File({"syncfs"}, <<write(1)>>, <<>>),
   Growing, Asking,
   Closed({"recall"}, <<open("rw"), write(1), close("rw")>>, <<open("rd"), read(1)>>)}

\* Two snapshots while one thread writes twice.
MCSnapScenarios == {File({"snap", "snap2"}, <<write(1), write(1)>>, <<>>)}

\* The server restarts, or the file moves, while a flush is waited for.
MCFsyncScenarios == {File({"crash"}, <<chmod, fsync>>, <<>>), File({"migrate"}, <<chmod, fsync>>, <<>>)}

\* A cap message for which there is no memory.
MCNoMemScenarios == {Revoke({"nomem"}, <<chmod>>, <<>>)}

=============================================================================
