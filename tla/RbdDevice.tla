----------------------------- MODULE RbdDevice -----------------------------
(***************************************************************************)
(* The life of a mapped rbd image (drivers/block/rbd.c): what a mapping is *)
(* made of and who holds a reference to what.  A mapping s is a chain of   *)
(* rbd_dev structures, level 0 the image that is mapped and level l + 1    *)
(* the parent of level l.  w is the driver's state: dv[s][l] the rbd_devs, *)
(* sp[s][l] the references to the rbd_spec of each, m[s] what only a       *)
(* mapped image has, cl[i] the rbd_clients, mod the module references.     *)
(* A step that touches freed memory, frees it twice or uses a disk that is *)
(* not there sets bug.                                                     *)
(***************************************************************************)
EXTENDS Integers, FiniteSets, Sequences, SequencesExt

CONSTANTS Slot,     \* mappings
          Client    \* rbd_clients, a set of positive numbers

Depth == 2          \* the longest chain of parents
Level == 0..Depth

ASSUME ConstantsAssumption == /\ Slot # {} /\ IsFiniteSet(Slot)
                              /\ Client \subseteq Nat \ {0} /\ IsFiniteSet(Client)

----------------------------------------------------------------------------
(* Structures.                                                              *)

\* name: the string header_name points to; hdr: the header is filled in
NoDev == [alive |-> FALSE, name |-> "null", hdr |-> FALSE, size |-> 0, client |-> 0,
          pspec |-> FALSE, overlap |-> 0, parent |-> FALSE, pref |-> 0]

\* watch_event and watch_request; disk; the stages of rbd_dev_device_setup()
\* that are done; flags; open_count; references to the struct device;
\* mapping.size; the capacity of the disk; header_rwsem held to write.
NoMap == [event |-> FALSE, watch |-> FALSE, has |-> {}, flags |-> {}, open |-> 0, ref |-> 0,
          size |-> 0, cap |-> 0, sem |-> FALSE]

NoClient == [refs |-> 0, listed |-> FALSE]

Bug(w, b) == [w EXCEPT !.bug = @ \/ b]
Disk(w, s) == "disk" \in w.m[s].has

----------------------------------------------------------------------------
(* References.                                                              *)

\* rbd_put_client(): the last reference leaves the client on the list until
\* rbd_client_release() takes rbd_client_list_lock (ReleaseClient).
PutClient(w, i) == [Bug(w, w.cl[i].refs = 0) EXCEPT !.cl[i].refs = @ - 1]

ReleaseClient(w, i) == [w EXCEPT !.cl[i] = NoClient]

\* __rbd_get_client()
GetClient(w, i) == [Bug(w, w.cl[i].refs = 0) EXCEPT !.cl[i].refs = @ + 1]

SpecPut(w, s, l) == [Bug(w, w.sp[s][l] = 0) EXCEPT !.sp[s][l] = @ - 1]

\* rbd_dev_create(): the rbd_dev takes over the caller's two references.
DevCreate(w, s, l, i) == [w EXCEPT !.dv[s][l] = [NoDev EXCEPT !.alive = TRUE, !.client = i]]

\* rbd_dev_destroy()
DevDestroy(w, s, l) ==
  LET w1 == SpecPut(PutClient(Bug(w, ~w.dv[s][l].alive), w.dv[s][l].client), s, l)
  IN  [w1 EXCEPT !.dv[s][l] = NoDev]

\* kfree(header_name), which leaves the pointer; then header_name = NULL
KfreeName(w, s, l) ==
  [Bug(w, w.dv[s][l].name = "freed") EXCEPT
     !.dv[s][l].name = IF @ = "null" THEN @ ELSE "freed"]
FreeName(w, s, l) == [KfreeName(w, s, l) EXCEPT !.dv[s][l].name = "null"]

----------------------------------------------------------------------------
(* Parents.                                                                 *)

RECURSIVE RemoveParents(_, _, _)

\* rbd_dev_unparent()
Unparent(w, s, l) ==
  LET w1 == RemoveParents(w, s, l)
      w2 == IF w1.dv[s][l].pspec THEN SpecPut(w1, s, l + 1) ELSE w1
  IN  [w2 EXCEPT !.dv[s][l].pspec = FALSE, !.dv[s][l].overlap = 0]

\* rbd_dev_parent_put(), which ignores an underflow
ParentPut(w, s, l) ==
  LET d == w.dv[s][l]
      w1 == [w EXCEPT !.dv[s][l].pref = @ - 1]
  IN  CASE ~d.pspec \/ d.pref = 0 -> w
        [] d.pspec /\ d.pref = 1 -> Unparent(w1, s, l)
        [] OTHER -> w1

\* rbd_dev_parent_get(): a counter that is 0 stays 0, and a reference taken
\* when there is no overlap any more is kept.
ParentGet(w, s, l) ==
  LET d == w.dv[s][l]
      up == d.pspec /\ d.pref > 0
  IN  [w |-> IF up THEN [w EXCEPT !.dv[s][l].pref = @ + 1] ELSE w,
       got |-> up /\ d.overlap > 0]

\* Mutant: the header is undone but the parent is kept.
UnprobeHeader(w, s, l) == [w EXCEPT !.dv[s][l].hdr = FALSE, !.dv[s][l].size = 0]

\* rbd_dev_unprobe()
Unprobe(w, s, l) ==
  LET w1 == IF w.dv[s][l].overlap > 0 THEN ParentPut(w, s, l) ELSE w
  IN  [w1 EXCEPT !.dv[s][l].hdr = FALSE, !.dv[s][l].size = 0]

\* rbd_dev_image_release()
ImageRelease(w, s, l) == DevDestroy(FreeName(Unprobe(w, s, l), s, l), s, l)

\* rbd_dev_remove_parent(): the farthest ancestor goes first.
RemoveParents(w, s, l) ==
  LET last == CHOOSE k \in Level : /\ k > l /\ ~w.dv[s][k].parent
                                   /\ \A j \in l..(k - 1) : w.dv[s][j].parent
      first == last - 1
      w1 == ImageRelease(w, s, last)
      w2 == SpecPut(Bug(w1, ~w1.dv[s][first].pspec), s, last)
  IN  IF ~w.dv[s][l].parent THEN w
      ELSE RemoveParents([w2 EXCEPT !.dv[s][first].parent = FALSE, !.dv[s][first].overlap = 0,
                                    !.dv[s][first].pspec = FALSE], s, l)

\* rbd_dev_v2_parent_info(): p is the answer of the header object, of which
\* pool says whether there is a parent.
ParentInfo(w, s, l, p) ==
  LET d == w.dv[s][l]
      named == Bug(w, ~Disk(w, s))      \* the message names the disk
      gone == [w EXCEPT !.dv[s][l].overlap = 0]
      w1 == [w EXCEPT !.dv[s][l].pspec = TRUE, !.dv[s][l].overlap = p.overlap,
                      !.sp[s][l + 1] = IF d.pspec THEN @ ELSE 1]
  IN  CASE ~p.pool -> IF d.overlap > 0 THEN Bug(ParentPut(gone, s, l), named.bug) ELSE w
        [] p.pool /\ p.overlap = 0 /\ d.pspec -> Bug(ParentPut(w1, s, l), named.bug)
        [] OTHER -> w1

----------------------------------------------------------------------------
(* Probing.                                                                 *)

\* rbd_dev_image_id() and rbd_dev_header_name()
NameHeader(w, s, l) == [w EXCEPT !.dv[s][l].name = "set"]

\* rbd_dev_header_info(): size is the image's size now
HeaderInfo(w, s, l, size) ==
  [Bug(w, ~w.dv[s][l].alive \/ w.dv[s][l].name # "set") EXCEPT
     !.dv[s][l].hdr = TRUE, !.dv[s][l].size = size]

\* Mutant: the parent shares its child's reference to the spec.
ProbeParentShares(w, s, l) ==
  LET i == w.dv[s][l].client
  IN  DevCreate(GetClient(w, i), s, l + 1, i)

\* rbd_dev_probe_parent(), up to the probe of the parent
ProbeParent(w, s, l) ==
  LET i == w.dv[s][l].client
  IN  DevCreate([GetClient(w, i) EXCEPT !.sp[s][l + 1] = @ + 1], s, l + 1, i)

\* ... and after the last parent of the chain: each gets its parent.
ProbedParents(w, s) ==
  [w EXCEPT !.dv[s] = [l \in Level |-> IF @[l].pspec /\ l < Depth
                                       THEN [@[l] EXCEPT !.parent = TRUE, !.pref = 1] ELSE @[l]]]

RECURSIVE ParentFails(_, _, _)

\* The error path of rbd_dev_probe_parent() for the parent l, which has undone
\* its own probe, then that of its child's probe.  The one of the mapped image
\* has its watch torn down next.
ParentFails(w, s, l) ==
  LET w1 == DevDestroy(KfreeName(Unparent(w, s, l - 1), s, l - 1), s, l)
      w2 == Unprobe(w1, s, l - 1)
  IN  IF l = 1 THEN w2 ELSE ParentFails(FreeName(w2, s, l - 1), s, l - 1)

----------------------------------------------------------------------------
(* The block device.                                                        *)

\* The stages of rbd_dev_device_setup(), and what the label a failed stage
\* jumps to undoes.
Stages == <<"id", "blkdev", "disk", "mapping", "bus">>
ErrOut == <<{}, {"id"}, {"blkdev", "id"}, {"disk", "blkdev", "id"},
            {"mapping", "disk", "blkdev", "id"}>>
SetupFails(w, s, k) ==
  [w EXCEPT !.m[s].has = {Stages[j] : j \in 1..(k - 1)} \ ErrOut[k], !.m[s].size = 0]

\* rbd_dev_device_setup(); the capacity is that of the mapping.
SetupBegin(w, s) == [w EXCEPT !.m[s].has = {"id", "blkdev", "disk"}]
SetupEnd(w, s, size) ==
  [Bug(w, ~Disk(w, s) \/ ~w.dv[s][0].alive) EXCEPT
     !.m[s].has = ToSet(Stages), !.m[s].size = size, !.m[s].cap = size,
     !.m[s].ref = 1, !.m[s].flags = @ \cup {"EXISTS"}]

\* rbd_dev_device_release(), when the last reference to the device is put
DeviceRelease(w, s) ==
  [Bug(w, ~w.dv[s][0].alive) EXCEPT
     !.m[s].has = {}, !.m[s].flags = @ \ {"EXISTS"}, !.m[s].size = 0, !.m[s].cap = 0]
PutDevice(w, s) ==
  LET w1 == [Bug(w, w.m[s].ref = 0 \/ ~w.dv[s][0].alive) EXCEPT !.m[s].ref = @ - 1]
  IN  IF w1.m[s].ref = 0 THEN DeviceRelease(w1, s) ELSE w1

\* rbd_open() of a disk that is there
Opens(w, s) == "REMOVING" \notin w.m[s].flags
Open(w, s) == [w EXCEPT !.m[s].open = @ + 1, !.m[s].ref = @ + 1]

\* rbd_release(): open_count first, the reference to the device after it
Release(w, s) == [Bug(w, w.m[s].open = 0) EXCEPT !.m[s].open = @ - 1]

----------------------------------------------------------------------------
(* Refresh.                                                                 *)

\* Mutant: the size of a disk in use is left as it is.
RefreshedIdle(w, s, snap, there) ==
  [w EXCEPT !.m[s].sem = FALSE,
            !.m[s].size = IF snap \/ w.m[s].open > 0 THEN @ ELSE w.dv[s][0].size,
            !.m[s].flags = IF snap /\ ~there THEN @ \ {"EXISTS"} ELSE @]

\* The end of rbd_dev_refresh() under header_rwsem: snap says whether a
\* snapshot is mapped and there whether it still exists.
Refreshed(w, s, snap, there) ==
  [w EXCEPT !.m[s].sem = FALSE,
            !.m[s].size = IF snap THEN @ ELSE w.dv[s][0].size,
            !.m[s].flags = IF snap /\ ~there THEN @ \ {"EXISTS"} ELSE @]

\* rbd_dev_update_size()
UpdateSize(w, s) ==
  IF "REMOVING" \in w.m[s].flags THEN w
  ELSE [Bug(w, ~Disk(w, s)) EXCEPT !.m[s].cap = w.m[s].size]

============================================================================
