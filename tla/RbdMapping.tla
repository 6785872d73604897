----------------------------- MODULE RbdMapping -----------------------------
(***************************************************************************)
(* RbdDevice with its callers: a write to /sys/bus/rbd/add and one to      *)
(* remove for each mapping, users that open the disk, do I/O and close it, *)
(* a write to the refresh attribute, the osd client's notify work queue,   *)
(* and the images, which other clients resize, flatten and take snapshots  *)
(* from.  A step ends where the code waits for an OSD or leaves a lock.    *)
(***************************************************************************)
EXTENDS RbdDevice

CONSTANTS User, Scenarios

VARIABLES w,    \* the driver
          th,   \* threads
          wq,   \* mappings whose notification waits in osdc->notify_wq
          img,  \* images
          g     \* what else may happen (chances) and ghosts

vars == <<w, th, wq, img, g>>

Adder(s) == <<"add", s>>
Remover(s) == <<"rm", s>>
Sysfs(s) == <<"sys", s>>
Usr(u) == <<"user", u>>
Worker == <<"wq", 0>>
Refresher == {Worker} \cup {Sysfs(s) : s \in Slot}
Thread == {Worker} \cup UNION {{Adder(s), Remover(s), Sysfs(s)} : s \in Slot} \cup {Usr(u) : u \in User}

AtRest == [pc |-> "idle", s |-> 0, l |-> 0, i |-> 0, old |-> 0, got |-> FALSE, open |-> FALSE, ops |-> <<>>]

At(x, pc) == th[x].pc = pc
Goto(x, pc) == [th EXCEPT ![x].pc = pc]
Chance(c) == c \in g.chances
Spend(c) == [g EXCEPT !.chances = @ \ {c}]

\* A failure of one step, spent when it happens.
Fails(bad, c) == IF bad THEN Chance(c) /\ g' = Spend(c) ELSE UNCHANGED g

----------------------------------------------------------------------------
(* The images, at the OSDs.                                                 *)

Notify(s) == [img EXCEPT ![s].notes = IF img[s].watched THEN @ + 1 ELSE @]

Resize(s) ==
  /\ Chance("resize") /\ g' = Spend("resize")
  /\ img' = [Notify(s) EXCEPT ![s].size = @ + 1]
  /\ UNCHANGED <<w, th, wq>>

Flatten(s) ==
  /\ Chance("flatten") /\ img[s].par[0].pool /\ g' = Spend("flatten")
  /\ img' = [Notify(s) EXCEPT ![s].par[0] = [pool |-> FALSE, overlap |-> 0]]
  /\ UNCHANGED <<w, th, wq>>

\* A mapped clone is shrunk to nothing: it has a parent without overlap.
Shrink(s) ==
  /\ Chance("shrink") /\ w.dv[s][0].parent /\ img[s].par[0].pool /\ g' = Spend("shrink")
  /\ img' = [Notify(s) EXCEPT ![s].size = 0, ![s].par[0].overlap = 0]
  /\ UNCHANGED <<w, th, wq>>

RemoveSnap(s) ==
  /\ Chance("rmsnap") /\ img[s].snap /\ g' = Spend("rmsnap")
  /\ img' = [Notify(s) EXCEPT ![s].there = FALSE]
  /\ UNCHANGED <<w, th, wq>>

\* handle_watch_notify(): the event is looked up by its cookie.  While the
\* image is being mapped a notification comes only by the chance "early".
HandleWatchNotify(s) ==
  /\ img[s].notes > 0
  /\ At(Adder(s), "mapped") \/ At(Adder(s), "failed") \/ Chance("early")
  /\ img' = [img EXCEPT ![s].notes = @ - 1]
  /\ wq' = IF w.m[s].event THEN Append(wq, s) ELSE wq
  /\ UNCHANGED <<w, th, g>>

----------------------------------------------------------------------------
(* do_rbd_add()                                                             *)

\* The arguments are parsed; rbd_get_client() shares a client or makes one.
AddBegin(s, bad) ==
  LET x == Adder(s)
      listed == {i \in Client : w.cl[i].listed}
      i == IF listed # {} THEN CHOOSE j \in listed : TRUE
           ELSE CHOOSE j \in Client : ~w.cl[j].listed
      w1 == IF listed # {} THEN GetClient(w, i) ELSE [w EXCEPT !.cl[i] = [refs |-> 1, listed |-> TRUE]]
  IN  /\ At(x, "add") /\ Fails(bad, "fail")
      /\ \A j \in listed : w.cl[j].refs = 0 => Chance("late")
      /\ bad => listed = {}
      /\ w' = IF bad THEN w ELSE [w1 EXCEPT !.sp[s][0] = 1, !.mod = @ + 1]
      /\ th' = IF bad THEN Goto(x, "failed") ELSE [Goto(x, "pool") EXCEPT ![x].i = i]
      /\ UNCHANGED <<wq, img>>

\* The pool is looked up; rbd_dev_create() and the image id follow.
AddPool(s, bad) ==
  LET x == Adder(s)
      undo == [SpecPut(PutClient(w, th[x].i), s, 0) EXCEPT !.mod = @ - 1]
  IN  /\ At(x, "pool") /\ Fails(bad, "fail")
      /\ w' = IF bad THEN undo ELSE DevCreate(w, s, 0, th[x].i)
      /\ th' = Goto(x, IF bad THEN "failed" ELSE "id")
      /\ UNCHANGED <<wq, img>>

\* Nothing is left to undo but the rbd_dev.
Destroy(v, s) == [DevDestroy(v, s, 0) EXCEPT !.mod = @ - 1]

\* rbd_dev_image_id(), and the watch is set up.
AddId(s, bad) ==
  LET x == Adder(s)
  IN  /\ At(x, "id") /\ Fails(bad, "fail")
      /\ w' = IF bad THEN Destroy(w, s) ELSE [NameHeader(w, s, 0) EXCEPT !.m[s].event = TRUE]
      /\ th' = Goto(x, IF bad THEN "failed" ELSE "watch")
      /\ UNCHANGED <<wq, img>>

\* rbd_dev_header_watch_sync()
AddWatch(s, bad) ==
  LET x == Adder(s)
  IN  /\ At(x, "watch") /\ Fails(bad, "fail")
      /\ w' = IF bad THEN Destroy(FreeName([w EXCEPT !.m[s].event = FALSE], s, 0), s)
              ELSE [w EXCEPT !.m[s].watch = TRUE]
      /\ img' = [img EXCEPT ![s].watched = ~bad]
      /\ th' = Goto(x, IF bad THEN "failed" ELSE "header")
      /\ UNCHANGED wq

\* How a probe goes on after an error at level l, its own header undone if it
\* had one: the error paths of the children, then the watch is torn down.
ProbeFails(v, s, l) == IF l = 0 THEN v ELSE ParentFails(FreeName(v, s, l), s, l)
Failure(l) == IF l = 0 THEN "fail" ELSE "parentfail"

AddHeader(s, bad) ==
  LET x == Adder(s)
      l == th[x].l
  IN  /\ At(x, "header") /\ Fails(bad, Failure(l))
      /\ w' = IF bad THEN ProbeFails(w, s, l) ELSE HeaderInfo(w, s, l, img[s].size)
      /\ th' = [Goto(x, IF bad THEN "unwatch" ELSE "parent") EXCEPT ![x].l = IF bad THEN 0 ELSE @]
      /\ UNCHANGED <<wq, img>>

\* rbd_spec_fill_snap_id() or rbd_spec_fill_names(), rbd_dev_v2_parent_info()
\* and on to rbd_dev_probe_parent(), which probes the parent in turn.
AddParent(s, bad) ==
  LET x == Adder(s)
      l == th[x].l
      missing == l = 0 /\ img[s].snap /\ ~img[s].there
      stop == bad \/ missing
      w1 == ParentInfo(w, s, l, img[s].par[l])
      more == w1.dv[s][l].pspec
      w2 == IF more THEN NameHeader(ProbeParent(w1, s, l), s, l + 1) ELSE ProbedParents(w1, s)
  IN  /\ At(x, "parent") /\ Fails(bad, Failure(l))
      /\ w' = IF stop THEN ProbeFails(Unprobe(w, s, l), s, l) ELSE w2
      /\ th' = [th EXCEPT ![x].pc = IF stop THEN "unwatch" ELSE IF more THEN "header" ELSE "setup",
                          ![x].l = IF stop THEN 0 ELSE IF more THEN @ + 1 ELSE 0]
      /\ UNCHANGED <<wq, img>>

\* rbd_dev_device_setup(): stage k of it fails, or none.
AddSetup(s, k) ==
  LET x == Adder(s)
  IN  /\ At(x, "setup") /\ Fails(k > 0, "fail")
      /\ w' = IF k > 0 THEN SetupFails(w, s, k) ELSE SetupBegin(w, s)
      /\ th' = [Goto(x, IF k > 0 THEN "unwatch" ELSE "announce") EXCEPT ![x].got = k > 0]
      /\ UNCHANGED <<wq, img>>

AddAnnounce(s) ==
  /\ At(Adder(s), "announce")
  /\ w' = SetupEnd(w, s, IF img[s].snap THEN img[s].snapsize ELSE w.dv[s][0].size)
  /\ th' = Goto(Adder(s), "mapped")
  /\ UNCHANGED <<wq, img, g>>

\* rbd_dev_header_unwatch_sync(): the request is cancelled, the OSD asked to
\* forget the watch (a failure is only logged) and the event cancelled.
Unwatch(s, x, bad, next) ==
  /\ At(x, "unwatch") /\ Fails(bad, "fail")
  /\ w' = [Bug(w, ~w.m[s].event \/ ~w.m[s].watch \/ w.dv[s][0].name # "set") EXCEPT
             !.m[s].event = FALSE, !.m[s].watch = FALSE]
  /\ img' = [img EXCEPT ![s].watched = bad, ![s].kept = bad]
  /\ th' = Goto(x, next)
  /\ UNCHANGED wq

\* The end of do_rbd_add() on an error after the watch was set up: of the
\* probe, or (got) of the setup.
AddUndo(s) ==
  LET x == Adder(s)
  IN  /\ At(x, "undo")
      /\ w' = IF th[x].got THEN [ImageRelease(w, s, 0) EXCEPT !.mod = @ - 1]
              ELSE Destroy(FreeName(w, s, 0), s)
      /\ th' = Goto(x, "failed")
      /\ UNCHANGED <<wq, img, g>>

----------------------------------------------------------------------------
(* do_rbd_remove(): a second one at the same time returns at once.          *)

\* The device is on the list once it has its number: only by the chance
\* "hasty" is it removed before it is announced.
RemoveBegin(s) ==
  /\ At(Remover(s), "remove") /\ "id" \in w.m[s].has
  /\ At(Adder(s), "mapped") \/ Chance("hasty")
  /\ w.m[s].open = 0
  /\ w' = [w EXCEPT !.m[s].flags = @ \cup {"REMOVING"}]
  /\ th' = Goto(Remover(s), "unwatch")
  /\ UNCHANGED <<wq, img, g>>

\* Mutant: the notifications are not waited for.
RemoveNoFlush(s) ==
  /\ At(Remover(s), "flush")
  /\ th' = Goto(Remover(s), "del")
  /\ UNCHANGED <<w, wq, img, g>>

\* ceph_osdc_flush_notifies()
RemoveFlush(s) ==
  /\ At(Remover(s), "flush") /\ wq = <<>> /\ At(Worker, "idle")
  /\ th' = Goto(Remover(s), "del")
  /\ UNCHANGED <<w, wq, img, g>>

\* rbd_bus_del_dev() waits for the device's attributes to be left.  Only by
\* the chance "preempted" does rbd_release() still have its reference.
RemoveDel(s) ==
  /\ At(Remover(s), "del") /\ At(Sysfs(s), "idle")
  /\ \A u \in User : At(Usr(u), "put") /\ th[Usr(u)].s = s => Chance("preempted")
  /\ w' = PutDevice(w, s)
  /\ th' = Goto(Remover(s), "free")
  /\ UNCHANGED <<wq, img, g>>

RemoveFree(s) ==
  /\ At(Remover(s), "free")
  /\ w' = [ImageRelease(w, s, 0) EXCEPT !.mod = @ - 1]
  /\ th' = Goto(Remover(s), "done")
  /\ UNCHANGED <<wq, img, g>>

\* rbd_client_release(), by whoever put the last reference
ClientRelease(i) ==
  /\ w.cl[i].listed /\ w.cl[i].refs = 0
  /\ w' = ReleaseClient(w, i)
  /\ UNCHANGED <<th, wq, img, g>>

----------------------------------------------------------------------------
(* rbd_dev_refresh(), by rbd_watch_cb() or the refresh attribute            *)

\* do_event_work()
WorkerTakes ==
  LET s == Head(wq)
  IN  /\ At(Worker, "idle") /\ wq # <<>>
      /\ w' = Bug(w, ~w.dv[s][0].alive)
      /\ th' = [th EXCEPT ![Worker].pc = "begin", ![Worker].s = s]
      /\ wq' = Tail(wq)
      /\ UNCHANGED <<img, g>>

SysfsTakes(s) ==
  /\ Chance("refresh") /\ g' = Spend("refresh")
  /\ At(Sysfs(s), "idle") /\ "bus" \in w.m[s].has
  /\ ~At(Remover(s), "free") /\ ~At(Remover(s), "done")
  /\ th' = [th EXCEPT ![Sysfs(s)].pc = "begin", ![Sysfs(s)].s = s]
  /\ UNCHANGED <<w, wq, img>>

After(x) == IF x = Worker THEN "ack" ELSE "idle"

RefreshBegin(x) ==
  LET s == th[x].s
  IN  /\ At(x, "begin") /\ ~w.m[s].sem
      /\ w' = [w EXCEPT !.m[s].sem = TRUE]
      /\ th' = [Goto(x, "header") EXCEPT ![x].old = w.m[s].size]
      /\ UNCHANGED <<wq, img, g>>

\* What follows the header, or the parent, when all went well.
FinishRefresh(v, x) ==
  LET s == th[x].s
      w1 == Refreshed(v, s, img[s].snap, img[s].there)
  IN  /\ w' = w1
      /\ th' = Goto(x, IF w1.m[s].size # th[x].old THEN "size" ELSE After(x))

RefreshHeader(x) ==
  LET s == th[x].s
      w1 == HeaderInfo(w, s, 0, img[s].size)
  IN  /\ x \in Refresher /\ At(x, "header")
      /\ IF w1.dv[s][0].parent THEN w' = w1 /\ th' = Goto(x, "parent") ELSE FinishRefresh(w1, x)
      /\ UNCHANGED <<wq, img, g>>

RefreshParent(x) ==
  LET s == th[x].s
  IN  /\ x \in Refresher /\ At(x, "parent")
      /\ FinishRefresh(ParentInfo(w, s, 0, img[s].par[0]), x)
      /\ UNCHANGED <<wq, img, g>>

\* An error leaves header_rwsem held.
RefreshFails(x) ==
  /\ x \in Refresher /\ th[x].pc \in {"header", "parent"}
  /\ Chance("refreshfail") /\ g' = Spend("refreshfail")
  /\ th' = Goto(x, After(x))
  /\ UNCHANGED <<w, wq, img>>

RefreshSize(x) ==
  /\ At(x, "size")
  /\ w' = UpdateSize(w, th[x].s)
  /\ th' = Goto(x, After(x))
  /\ UNCHANGED <<wq, img, g>>

\* rbd_obj_notify_ack_sync() names the header object.
NotifyAck ==
  LET d == w.dv[th[Worker].s][0]
  IN  /\ At(Worker, "ack")
      /\ w' = Bug(w, ~d.alive \/ d.name # "set")
      /\ th' = Goto(Worker, "idle")
      /\ UNCHANGED <<wq, img, g>>

----------------------------------------------------------------------------
(* Users of the disk                                                        *)

Does(u, op) == At(Usr(u), "idle") /\ th[Usr(u)].ops # <<>> /\ Head(th[Usr(u)].ops) = op
Next1(u, pc) == [th EXCEPT ![Usr(u)].pc = pc, ![Usr(u)].ops = Tail(@)]

\* rbd_open(); a mapping that goes away refuses, and the user gives up.
UserOpen(u) ==
  LET s == th[Usr(u)].s
  IN  /\ Does(u, "open") /\ (At(Adder(s), "mapped") \/ At(Adder(s), "failed"))
      /\ IF Disk(w, s) /\ Opens(w, s)
         THEN w' = Open(w, s) /\ th' = [Next1(u, "idle") EXCEPT ![Usr(u)].open = TRUE]
         ELSE UNCHANGED w /\ th' = [th EXCEPT ![Usr(u)].ops = <<>>]
      /\ UNCHANGED <<wq, img, g>>

\* rbd_handle_request(): the checks, and the size under header_rwsem
IoBegin(u) ==
  LET s == th[Usr(u)].s
      ok == "EXISTS" \in w.m[s].flags /\ w.m[s].size > 0
  IN  /\ Does(u, "io")
      /\ "EXISTS" \in w.m[s].flags => ~w.m[s].sem
      /\ w' = Bug(w, "EXISTS" \notin w.m[s].flags /\ ~img[s].snap)
      /\ th' = Next1(u, IF ok THEN "request" ELSE "idle")
      /\ UNCHANGED <<wq, img, g>>

\* rbd_img_request_create(); kept is a reference that nobody will put.
IoCreate(u) ==
  LET x == Usr(u)
      s == th[x].s
      r == ParentGet(w, s, 0)
  IN  /\ At(x, "request")
      /\ w' = r.w
      /\ th' = [Goto(x, "io") EXCEPT ![x].got = r.got]
      /\ g' = [g EXCEPT !.leak[s] = @ + (IF r.w # w /\ ~r.got THEN 1 ELSE 0)]
      /\ UNCHANGED <<wq, img>>

\* rbd_img_request_destroy(), the requests to the parent done
IoEnd(u) ==
  LET x == Usr(u)
      s == th[x].s
  IN  /\ At(x, "io")
      /\ w' = IF th[x].got THEN ParentPut(Bug(w, ~w.dv[s][1].alive), s, 0) ELSE w
      /\ th' = [Goto(x, "idle") EXCEPT ![x].got = FALSE]
      /\ UNCHANGED <<wq, img, g>>

UserClose(u) ==
  /\ Does(u, "close")
  /\ w' = Release(w, th[Usr(u)].s)
  /\ th' = [Next1(u, "put") EXCEPT ![Usr(u)].open = FALSE]
  /\ UNCHANGED <<wq, img, g>>

UserPut(u) ==
  /\ At(Usr(u), "put")
  /\ w' = PutDevice(w, th[Usr(u)].s)
  /\ th' = Goto(Usr(u), "idle")
  /\ UNCHANGED <<wq, img, g>>

----------------------------------------------------------------------------
(* The specification.  A scenario gives the images, what is done to each    *)
(* mapping and what else may happen.                                        *)

Init ==
  \E c \in Scenarios :
    /\ w = [dv |-> [s \in Slot |-> [l \in Level |-> NoDev]], sp |-> [s \in Slot |-> [l \in Level |-> 0]],
            m |-> [s \in Slot |-> NoMap], cl |-> [i \in Client |-> NoClient], mod |-> 0, bug |-> FALSE]
    /\ th = [x \in Thread |->
               CASE x \in {Adder(s) : s \in c.add} -> [AtRest EXCEPT !.pc = "add"]
                 [] x \in {Remover(s) : s \in c.remove} -> [AtRest EXCEPT !.pc = "remove"]
                 [] x \in {Usr(u) : u \in User} ->
                      [AtRest EXCEPT !.s = c.users[x[2]].s, !.ops = c.users[x[2]].ops]
                 [] OTHER -> AtRest]
    /\ wq = <<>>
    /\ img = [s \in Slot |-> [size |-> 1, snapsize |-> 1, snap |-> c.snap, there |-> TRUE,
                              par |-> [l \in Level |-> [pool |-> l < c.depth,
                                                        overlap |-> IF l < c.depth THEN 1 ELSE 0]],
                              watched |-> FALSE, kept |-> FALSE, notes |-> 0]]
    /\ g = [chances |-> c.chances, leak |-> [s \in Slot |-> 0]]

AddStep(s) ==
  \/ \E bad \in BOOLEAN : \/ AddBegin(s, bad) \/ AddPool(s, bad) \/ AddId(s, bad) \/ AddWatch(s, bad)
                          \/ AddHeader(s, bad) \/ AddParent(s, bad)
                          \/ Unwatch(s, Adder(s), bad, "undo")
  \/ \E k \in 0..Len(Stages) : AddSetup(s, k)
  \/ AddAnnounce(s) \/ AddUndo(s)

RemoveStep(s) ==
  \/ RemoveBegin(s) \/ RemoveFlush(s) \/ RemoveDel(s) \/ RemoveFree(s)
  \/ \E bad \in BOOLEAN : Unwatch(s, Remover(s), bad, "flush")

RefreshStep(x) ==
  RefreshBegin(x) \/ RefreshHeader(x) \/ RefreshParent(x) \/ RefreshSize(x)

UserStep(u) ==
  UserOpen(u) \/ IoBegin(u) \/ IoCreate(u) \/ IoEnd(u) \/ UserClose(u) \/ UserPut(u)

ImageStep(s) == Resize(s) \/ Flatten(s) \/ Shrink(s) \/ RemoveSnap(s)

\* Everything that was to be done is done.
Finished ==
  /\ \A s \in Slot : /\ th[Adder(s)].pc \in {"idle", "mapped", "failed"}
                     /\ \/ th[Remover(s)].pc \in {"idle", "done"}
                        \/ At(Remover(s), "remove") /\ At(Adder(s), "failed")
                     /\ At(Sysfs(s), "idle") /\ img[s].notes = 0
  /\ \A u \in User : At(Usr(u), "idle") /\ th[Usr(u)].ops = <<>>
  /\ At(Worker, "idle") /\ wq = <<>>
  /\ \A i \in Client : w.cl[i].listed => w.cl[i].refs > 0

Next ==
  \/ \E s \in Slot : AddStep(s) \/ RemoveStep(s) \/ ImageStep(s) \/ HandleWatchNotify(s) \/ SysfsTakes(s)
  \/ \E x \in Refresher : RefreshStep(x) \/ RefreshFails(x)
  \/ \E u \in User : UserStep(u)
  \/ \E i \in Client : ClientRelease(i)
  \/ WorkerTakes \/ NotifyAck
  \/ Finished /\ UNCHANGED vars

Spec == Init /\ [][Next]_vars

----------------------------------------------------------------------------
(* Properties.                                                              *)

\* Every counter counts its holders: the references to a client are its
\* rbd_devs and the add that has it in hand, those to a spec its rbd_dev and
\* its child, those to the parent the mapping itself and the requests under
\* way (with those that rbd_dev_parent_get() keeps by mistake), those to the
\* device the mapping and who has it open.
RefsMatchHolders ==
  /\ \A i \in Client :
       w.cl[i].refs = Cardinality({p \in Slot \X Level : LET d == w.dv[p[1]][p[2]]
                                                         IN  d.alive /\ d.client = i})
                      + Cardinality({s \in Slot : At(Adder(s), "pool") /\ th[Adder(s)].i = i})
  /\ \A s \in Slot, l \in Level :
       g.leak[s] = 0 \/ w.dv[s][0].alive =>
       w.sp[s][l] = Cardinality({k \in {"dev"} : w.dv[s][l].alive})
                    + Cardinality({k \in {l - 1} \cap Level : w.dv[s][k].pspec})
                    + Cardinality({k \in {0} : l = 0 /\ At(Adder(s), "pool")})
  /\ \A s \in Slot : w.dv[s][0].parent =>
       w.dv[s][0].pref = (IF w.dv[s][0].overlap > 0 THEN 1 ELSE 0) + g.leak[s]
                         + Cardinality({u \in User : th[Usr(u)].s = s /\ th[Usr(u)].got})
  /\ \A s \in Slot :
       /\ w.m[s].open = Cardinality({u \in User : th[Usr(u)].s = s /\ th[Usr(u)].open})
       /\ "bus" \in w.m[s].has =>
            w.m[s].ref = w.m[s].open + Cardinality({u \in User : th[Usr(u)].s = s /\ At(Usr(u), "put")})
                         + (IF th[Remover(s)].pc = "free" THEN 0 ELSE 1)

\* No step uses an rbd_dev, a header name, a spec, a client or a disk that was
\* freed or is not there yet, and nothing is freed twice, however add, remove,
\* refresh, open, close and I/O interleave.
NothingFreedInUse == ~w.bug

\* A mapping that failed to be added, or was removed, leaves nothing behind: no
\* rbd_dev of the chain, no spec, no event, no watch (but one the OSD did not
\* acknowledge), no device number; and with the last one goes the client.
LeavesNothing ==
  Finished =>
    LET gone == {s \in Slot : th[Adder(s)].pc \in {"idle", "failed"} \/ At(Remover(s), "done")}
    IN  /\ \A s \in gone : /\ g.leak[s] = 0 => \A l \in Level : ~w.dv[s][l].alive /\ w.sp[s][l] = 0
                           /\ w.m[s].has = {} /\ ~w.m[s].event /\ ~w.m[s].watch
                           /\ img[s].watched => img[s].kept
        /\ w.mod = Cardinality(Slot \ gone)
        /\ gone = Slot /\ (\A s \in Slot : g.leak[s] = 0) => \A i \in Client : ~w.cl[i].listed

\* When all notifications have been handled a mapping is what its image is:
\* the size, the disk's capacity, the parent, and whether its snapshot exists.
FollowsImage ==
  Finished => \A s \in Slot :
    At(Adder(s), "mapped") /\ ~At(Remover(s), "done") =>
      /\ w.m[s].size = IF img[s].snap THEN img[s].snapsize ELSE img[s].size
      /\ w.m[s].cap = w.m[s].size
      /\ "EXISTS" \in w.m[s].flags <=> ~img[s].snap \/ img[s].there
      /\ g.leak[s] = 0 => (w.dv[s][0].parent <=> img[s].par[0].pool /\ img[s].par[0].overlap > 0)

=============================================================================
