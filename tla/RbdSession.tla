----------------------------- MODULE RbdSession -----------------------------
(***************************************************************************)
(* The I/O path of an image with the threads that run it (the device's     *)
(* work item, the messenger's workers that deliver replies, the watch      *)
(* callback that refreshes the header) and with what is external: the      *)
(* OSDs, which execute a request at one instant and answer it later, and   *)
(* another client that flattens the image.                                 *)
(***************************************************************************)
EXTENDS RbdImage

CONSTANTS
  Scenarios    \* the image and its parent, the requests, and what else happens

VARIABLES
  rbd,       \* the driver: dev, img, obj, rq and bug
  work,      \* the object requests the work item has still to submit
  store,     \* the objects of the image
  overlap,   \* the overlap the header of the image records
  flatten,   \* how far another client, and then the refresh, have come
  reply,     \* the answers on the way, by object request
  may,       \* history: what each byte held while a request was under way
  world      \* the scenario, constant

vars == <<rbd, work, store, overlap, flatten, reply, may, world>>

ObjNums == 0..((MaxBytes - 1) \div ObjBytes)
Missing == [exists |-> FALSE, data |-> <<>>]
Object(d) == [exists |-> TRUE, data |-> d]
NoReply == [result |-> 0, data |-> <<>>]
None == -9
Old == 50     \* what an object of the image holds at the start

\* The value of byte b in the parent.
InParent(b) == IF (b \div ParentObjBytes) \in world.holes THEN 0 ELSE 100 + b

\* The contents of the image.
At(d, b) == IF b % ObjBytes < Len(d) THEN d[(b % ObjBytes) + 1] ELSE 0
Content(objects, over, b) ==
  LET x == objects[b \div ObjBytes]
  IN  IF x.exists THEN At(x.data, b) ELSE IF b < over THEN InParent(b) ELSE 0

Init ==
  /\ world \in Scenarios
  /\ store = world.store /\ overlap = world.overlap
  /\ rbd = [dev |-> [size |-> world.size, read_only |-> world.read_only,
                   parent_overlap |-> world.overlap,
                   parent |-> world.overlap > 0, parent_spec |-> world.overlap > 0,
                   parent_ref |-> IF world.overlap > 0 THEN 1 ELSE 0],
          img |-> [i \in Images |-> NoImg], obj |-> [o \in Objs |-> NoObj],
          rq |-> [r \in Reqs |-> [begun |-> r \notin DOMAIN world.reqs, left |-> 0,
                                  ended |-> r \notin DOMAIN world.reqs,
                                  outcome |-> [b \in Bytes |-> None]]],
          bug |-> FALSE]
  /\ work = <<>> /\ flatten = "no"
  /\ reply = [o \in Objs |-> NoReply]
  /\ may = [r \in Reqs |-> [b \in Bytes |-> {}]]

----------------------------------------------------------------------------
(* The work item: rbd_request_workfn() handles one request after another.  *)

\* rbd_handle_request() up to the submission of the first object request.
HandleRequest(r) ==
  /\ work = <<>> /\ ~rbd.rq[r].begun
  /\ \A q \in Reqs : q < r => rbd.rq[q].begun
  /\ LET q == world.reqs[r]
         s1 == [rbd EXCEPT !.rq[r].begun = TRUE, !.rq[r].left = q.length]
         s2 == ImgRequestFill(ImgRequestCreate(s1, <<r>>, q.op, q.offset, q.length), <<r>>)
         refused == \/ q.length = 0 \/ q.offset + q.length > rbd.dev.size
                    \/ q.op # "read" /\ rbd.dev.read_only
     IN  IF refused
         THEN /\ rbd' = [s1 EXCEPT !.rq[r].ended = TRUE]
              /\ UNCHANGED work
         ELSE /\ rbd' = s2
              /\ work' = [k \in 1..s2.img[<<r>>].count |-> <<r, k - 1>>]
  /\ may' = [may EXCEPT ![r] = [b \in Bytes |-> {Content(store, overlap, b)}]]
  /\ UNCHANGED <<store, overlap, flatten, reply, world>>

\* One round of the loop of rbd_img_request_submit().
SubmitNext ==
  /\ work # <<>>
  /\ rbd' = ImgObjRequestSubmit(rbd, Head(work))
  /\ work' = Tail(work)
  /\ UNCHANGED <<store, overlap, flatten, reply, may, world>>

----------------------------------------------------------------------------
(* The OSDs.                                                               *)

\* The bytes of an object after those from offset on, n of them, are v.
Overwrite(d, offset, n, v) ==
  [j \in 1..Max({Len(d), offset + n}) |->
     IF j \in (offset + 1)..(offset + n) THEN v ELSE IF j <= Len(d) THEN d[j] ELSE 0]

\* The object x after op, which does nothing to one that is missing unless it
\* writes.
Apply(x, op, offset, n, v) ==
  CASE op = "write" -> Object(Overwrite(x.data, offset, n, v))
    [] op = "zero" /\ x.exists ->
         Object([j \in 1..Len(x.data) |-> IF j \in (offset + 1)..(offset + n) THEN 0
                                          ELSE x.data[j]])
    [] op = "truncate" /\ x.exists -> Object(SubSeq(x.data, 1, Min({offset, Len(x.data)})))
    [] op = "delete" -> Missing
    [] OTHER -> x

\* "copyup" writes the parent's data to an object that does not exist.
CopiedUp(x, pages) == IF x.exists THEN x ELSE Object(pages)

Record(objects, over) ==
  [r \in Reqs |-> [b \in Bytes |-> IF rbd.rq[r].begun /\ rbd.rq[r].outcome[b] = None
                                   THEN may[r][b] \cup {Content(objects, over, b)}
                                   ELSE may[r][b]]]

Replied(o, result, data) ==
  /\ reply' = [reply EXCEPT ![o] = [result |-> result, data |-> data]]
  /\ rbd' = [rbd EXCEPT !.obj[o].net = "replied"]

\* An OSD executes the request of an object of the image.
OsdExecutes(o) ==
  /\ rbd.obj[o].net = "sent" /\ ~IsChild(ImgOf(o))
  /\ LET q == rbd.obj[o]
         n == q.img_offset \div ObjBytes
         offset == Offset(rbd, o)
         x == store[n]
         from == IF q.copyup THEN CopiedUp(x, q.pages) ELSE x
         missing == IF from.exists \/ q.op = "write" THEN 0 ELSE ENOENT
     IN  IF q.stat \/ q.op = "read"
         THEN /\ Replied(o, IF x.exists THEN 0 ELSE ENOENT,
                         IF q.stat THEN <<>>
                         ELSE SubSeq(x.data, offset + 1, Min({offset + q.length, Len(x.data)})))
              /\ UNCHANGED <<store, may>>
         ELSE /\ Replied(o, missing, <<>>)
              /\ store' = [store EXCEPT ![n] = Apply(from, q.op, offset, q.length, Head(o))]
              /\ may' = Record(store', overlap)
  /\ UNCHANGED <<work, overlap, flatten, world>>

\* It fails a request that is not part of a copyup.
OsdFails(o) ==
  /\ rbd.obj[o].net = "sent" /\ ~IsChild(ImgOf(o))
  /\ ~rbd.obj[o].stat /\ ~rbd.obj[o].copyup
  /\ rbd.img[ImgOf(o)].op \in world.errors
  /\ Replied(o, EIO, <<>>)
  /\ UNCHANGED <<work, store, overlap, flatten, may, world>>

\* An OSD reads an object of the parent.
OsdReadsParent(o) ==
  /\ rbd.obj[o].net = "sent" /\ IsChild(ImgOf(o))
  /\ LET q == rbd.obj[o]
     IN  IF (q.img_offset \div ParentObjBytes) \in world.holes THEN Replied(o, ENOENT, <<>>)
         ELSE Replied(o, 0, [j \in 1..q.length |-> InParent(q.img_offset + j - 1)])
  /\ UNCHANGED <<work, store, overlap, flatten, may, world>>

----------------------------------------------------------------------------
(* The threads that handle replies.                                        *)

HandleReply(o) ==
  /\ rbd.obj[o].net = "replied"
  /\ rbd' = OsdReqCallback(rbd, o, reply[o])
  /\ reply' = [reply EXCEPT ![o] = NoReply]
  /\ UNCHANGED <<work, store, overlap, flatten, may, world>>

Callback(o) ==
  /\ rbd.obj[o].net = "complete"
  /\ rbd' = IF rbd.obj[o].callback = "copyup" THEN ImgObjCopyupCallback(rbd, o)
            ELSE ImgObjCallback(rbd, o)
  /\ UNCHANGED <<work, store, overlap, flatten, reply, may, world>>

----------------------------------------------------------------------------
(* Another client flattens the image: it copies the parent's data up to    *)
(* every object that is missing, removes the parent from the header and    *)
(* notifies those that watch it.                                           *)

FlattenStart ==
  /\ world.flatten /\ flatten = "no"
  /\ flatten' = "copying"
  /\ UNCHANGED <<rbd, work, store, overlap, reply, may, world>>

Under(n) == {b \in 0..(overlap - 1) : b \div ObjBytes = n}

FlattenObject(n) ==
  /\ flatten = "copying"
  /\ ~store[n].exists /\ Under(n) # {}
  /\ store' = [store EXCEPT ![n] =
       Object([j \in 1..Cardinality(Under(n)) |-> InParent(n * ObjBytes + j - 1)])]
  /\ UNCHANGED <<rbd, work, overlap, flatten, reply, may, world>>

FlattenEnd ==
  /\ flatten = "copying"
  /\ \A n \in ObjNums : store[n].exists \/ Under(n) = {}
  /\ overlap' = 0 /\ flatten' = "notify"
  /\ UNCHANGED <<rbd, work, store, reply, may, world>>

\* rbd_dev_v2_parent_info() finds no parent: first it clears the overlap ...
RefreshOverlap ==
  /\ flatten = "notify"
  /\ rbd' = [rbd EXCEPT !.dev.parent_overlap = 0]
  /\ flatten' = IF rbd.dev.parent_overlap > 0 THEN "put" ELSE "end"
  /\ UNCHANGED <<work, store, overlap, reply, may, world>>

\* ... and then puts the reference of the image.
RefreshPut ==
  /\ flatten = "put"
  /\ rbd' = DevParentPut(rbd)
  /\ flatten' = "end"
  /\ UNCHANGED <<work, store, overlap, reply, may, world>>

----------------------------------------------------------------------------
Idle ==
  /\ \A r \in Reqs : rbd.rq[r].begun /\ ~rbd.img[<<r>>].live
  /\ work = <<>> /\ flatten \in {"no", "end"}

\* Nothing is left to do.
Quiet == Idle /\ UNCHANGED vars

Progress ==
  \/ \E r \in Reqs : HandleRequest(r)
  \/ SubmitNext
  \/ \E o \in Objs : OsdExecutes(o)
  \/ \E o \in Objs : OsdReadsParent(o)
  \/ \E o \in Objs : HandleReply(o)
  \/ \E o \in Objs : Callback(o)
  \/ \E n \in ObjNums : FlattenObject(n)
  \/ FlattenEnd
  \/ RefreshOverlap
  \/ RefreshPut

Next ==
  \/ Progress
  \/ \E o \in Objs : OsdFails(o)
  \/ FlattenStart
  \/ Quiet

\* The work item and the workers run, and the OSDs answer.
Spec == Init /\ [][Next]_vars /\ WF_vars(Progress)

----------------------------------------------------------------------------
Values == {None, Garbage, 0, Old} \cup Reqs \cup {100 + b : b \in Bytes}

\* The state the driver keeps has its type: the parent is there exactly as long
\* as its count is not zero, a request exactly as long as it has references, and
\* no image request fails because an object does not exist.
TypeOK ==
  /\ rbd.dev.parent_ref \in Nat /\ rbd.dev.parent_overlap \in 0..MaxBytes
  /\ rbd.dev.parent <=> rbd.dev.parent_ref > 0
  /\ \A i \in Images :
       LET m == rbd.img[i]
       IN  /\ m.kref \in Nat /\ m.live <=> m.kref > 0
           /\ m.next \in 0..m.count /\ m.result \in {0, EIO}
           /\ m.op \in {"read", "write", "discard"}
  /\ \A o \in Objs :
       LET q == rbd.obj[o]
       IN  /\ q.kref \in Nat /\ q.live <=> q.kref > 0
           /\ q.net \in {"idle", "sent", "replied", "complete"}
           /\ q.op \in {"read", "write", "zero", "truncate", "delete"}
           /\ q.result \in {0, ENOENT, EIO} /\ q.xferred \in 0..MaxBytes
           /\ q.buf \in Seq(Values)
  /\ \A r \in Reqs : rbd.rq[r].left \in 0..MaxBytes
  /\ flatten \in {"no", "copying", "notify", "put", "end"}

\* What a request that succeeded reports of a byte was true of it at some
\* instant while the request was under way: a read returns a value the image
\* held there, a write or a discard has taken effect.  This is about copyups
\* and reads of the parent racing with writes to the same object, about the
\* boundary of the overlap and the zero-filling of holes and short reads.
SuccessIsTrue ==
  \A r \in Reqs : \A b \in Bytes :
    rbd.rq[r].outcome[b] # None => rbd.rq[r].outcome[b] \in may[r][b]

\* No byte of the image ever changes but to the value that a write or discard
\* under way gives it, within the range of that request: neither a copyup nor
\* the op sent with it (rbd_img_obj_request_fill()) disturbs the bytes around.
OnlyWritersChange ==
  [][\A b \in Bytes :
       LET old == Content(store, overlap, b)
           new == Content(store', overlap', b)
       IN  old # new =>
             \E r \in DOMAIN world.reqs :
               LET q == world.reqs[r]
               IN  /\ rbd.rq[r].begun /\ ~rbd.rq[r].ended
                   /\ b \in q.offset..(q.offset + q.length - 1)
                   /\ \/ q.op = "write" /\ new = r
                      \/ q.op = "discard" /\ new = 0]_vars

\* The reference counts keep everything that is still in use: the object
\* request of an op that is under way or of a callback still to run, its image
\* request, the request a read of the parent is made for, and the parent while
\* it is read, even when the image is flattened meanwhile.
NothingFreedInUse ==
  /\ \A o \in Objs : rbd.obj[o].net # "idle" =>
       rbd.obj[o].live /\ rbd.obj[o].linked /\ rbd.img[ImgOf(o)].live
  /\ \A i \in Images : IsChild(i) /\ rbd.img[i].live => rbd.obj[i].live
  /\ \A o \in Objs : IsChild(ImgOf(o)) /\ rbd.obj[o].net \in {"sent", "replied"} => rbd.dev.parent

\* The state has its type and no rbd_assert() fails: those on the parent and its overlap, on the length a
\* parent read transferred, and those of rbd_img_obj_callback(), by which the
\* block request is over exactly when the last object request has been ended.
AssertionsHold == TypeOK /\ ~rbd.bug

\* Every request is ended, and released by the last of its callbacks.
RequestsEnd == <>[](\A r \in Reqs : rbd.rq[r].ended /\ ~rbd.img[<<r>>].live)
============================================================================
