------------------------------ MODULE RbdImage ------------------------------
(***************************************************************************)
(* The I/O path of a mapped rbd image: an image request is split into one  *)
(* object request per object; a read of an object that does not exist is   *)
(* answered from the parent image, and a write to one first copies the     *)
(* parent's data up.  The parent is one level deep.                        *)
(*                                                                         *)
(* An image request is named <<r>> for the block request r.  Its object    *)
(* requests are <<r, w>>, the request that reads the parent for one of     *)
(* them has the same name <<r, w>>, and its object requests are            *)
(* <<r, w, k>>.  The functions below take the driver's state s to the next *)
(* one.                                                                    *)
(***************************************************************************)
EXTENDS Integers, Sequences, SequencesExt, FiniteSets, FiniteSetsExt

CONSTANTS
  Reqs,             \* the block requests, 1..n
  ObjBytes,         \* the object size of the image
  ParentObjBytes,   \* the object size of its parent
  MaxBytes,         \* a bound on the size of an image
  MaxPieces         \* a bound on the object requests of an image request

ASSUME ImageAssumption ==
  /\ Reqs \subseteq Nat \ {0} /\ IsFiniteSet(Reqs)
  /\ ObjBytes \in Nat \ {0} /\ ParentObjBytes \in Nat \ {0}
  /\ MaxBytes \in Nat /\ MaxPieces \in Nat

Bytes == 0..(MaxBytes - 1)
Pieces == 0..(MaxPieces - 1)
Images == {<<r>> : r \in Reqs} \cup (Reqs \X Pieces)
Objs == (Reqs \X Pieces) \cup (Reqs \X Pieces \X Pieces)

Which(o) == Last(o)
ImgOf(o) == Front(o)
IsChild(i) == Len(i) = 2     \* IMG_REQ_CHILD
ENOENT == -2
EIO == -5
Garbage == -1                \* what is in memory nobody has written

NoImg == [live |-> FALSE, op |-> "read", layered |-> FALSE, offset |-> 0, length |-> 0,
          count |-> 0, next |-> 0, result |-> 0, xferred |-> Garbage, kref |-> 0,
          callback |-> "none"]
NoObj == [live |-> FALSE, linked |-> FALSE, img_offset |-> 0, length |-> 0, done |-> FALSE,
          known |-> FALSE, exists |-> FALSE, result |-> 0, xferred |-> 0, kref |-> 0,
          callback |-> "img", op |-> "read", copyup |-> FALSE, pages |-> <<>>, buf |-> <<>>,
          net |-> "idle", stat |-> FALSE]

Size(i) == IF IsChild(i) THEN ParentObjBytes ELSE ObjBytes
Offset(s, o) == s.obj[o].img_offset % Size(ImgOf(o))
ObjsOf(s, i) == {Append(i, k) : k \in 0..(s.img[i].count - 1)}

\* An rbd_assert() that fails stops the driver.
RbdAssert(s, p) == IF p THEN s ELSE [s EXCEPT !.bug = TRUE]

----------------------------------------------------------------------------
(* References.                                                             *)

DevParentPut(s) ==
  IF ~s.dev.parent_spec THEN s
  ELSE IF s.dev.parent_ref > 1 THEN [s EXCEPT !.dev.parent_ref = @ - 1]
  ELSE [s EXCEPT !.dev.parent_ref = 0, !.dev.parent = FALSE, !.dev.parent_spec = FALSE,
                 !.dev.parent_overlap = 0]

\* The reference is kept even when there is no overlap.
DevParentGet(s) ==
  IF s.dev.parent_spec /\ s.dev.parent_ref > 0
  THEN [s EXCEPT !.dev.parent_ref = @ + 1] ELSE s

ObjRequestPut(s, o) ==
  LET left == s.obj[o].kref - 1
      s1 == RbdAssert(s, left > 0 \/ ~s.obj[o].linked)
  IN  [s1 EXCEPT !.obj[o] = IF left > 0 THEN [@ EXCEPT !.kref = left] ELSE NoObj]

ImgRequestDestroy(s, i) ==
  LET del(q) == IF q.kref > 1 THEN [q EXCEPT !.kref = @ - 1, !.linked = FALSE] ELSE NoObj
      mine == ObjsOf(s, i)
      s1 == [s EXCEPT !.obj = [o \in Objs |-> IF o \in mine THEN del(@[o]) ELSE @[o]],
                      !.img[i] = NoImg]
  IN  IF s.img[i].layered THEN DevParentPut(s1) ELSE s1

ImgRequestPut(s, i) ==
  IF s.img[i].kref > 1 THEN [s EXCEPT !.img[i].kref = @ - 1]
  ELSE ImgRequestDestroy(IF IsChild(i) THEN ObjRequestPut(s, i) ELSE s, i)

----------------------------------------------------------------------------
(* Building requests.                                                      *)

ObjRequestOverlapsParent(s, img_offset) ==
  img_offset < ((s.dev.parent_overlap + ObjBytes - 1) \div ObjBytes) * ObjBytes

\* The op that request i sends to the object at img_offset~length.
ImgObjRequestFill(s, i, img_offset, length) ==
  LET offset == img_offset % ObjBytes
      shared == s.img[i].layered /\ ObjRequestOverlapsParent(s, img_offset)
  IN  IF s.img[i].op # "discard" THEN s.img[i].op
      ELSE IF offset = 0 /\ length = ObjBytes /\ ~shared THEN "delete"
      ELSE IF offset + length = ObjBytes \/ img_offset + length = s.dev.size THEN "truncate"
      ELSE "zero"

\* Where the k-th piece of offset~length lies when objects have size bytes.
Piece(size, offset, length, k) ==
  LET from == IF k = 0 THEN offset ELSE ((offset \div size) + k) * size
      to == Min({offset + length, ((offset \div size) + k + 1) * size})
  IN  [img_offset |-> from, length |-> to - from]

\* Mutant: object requests hold no reference to their image request.
ImgRequestGetNone(s, i, n) == s

\* rbd_img_request_get(), once for each of n object requests.
ImgRequestGet(s, i, n) == [s EXCEPT !.img[i].kref = @ + n]

ImgRequestFill(s, i) ==
  LET m == s.img[i]
      n == (m.offset + m.length - 1) \div Size(i) - m.offset \div Size(i) + 1
      new(k) == LET p == Piece(Size(i), m.offset, m.length, k)
                IN  [NoObj EXCEPT !.live = TRUE, !.linked = TRUE, !.kref = 1,
                       !.img_offset = p.img_offset, !.length = p.length,
                       !.op = ImgObjRequestFill(s, i, p.img_offset, p.length),
                       !.buf = [j \in 1..p.length |-> Garbage]]
      mine == {Append(i, k) : k \in 0..(n - 1)}
  IN  [ImgRequestGet(s, i, n) EXCEPT !.img[i].count = n,
         !.obj = [o \in Objs |-> IF o \in mine THEN new(Which(o)) ELSE @[o]]]

\* A request on the image itself.
ImgRequestCreate(s, i, op, offset, length) ==
  LET s1 == DevParentGet(s)
  IN  [s1 EXCEPT !.img[i] = [NoImg EXCEPT !.live = TRUE, !.kref = 1, !.op = op,
         !.offset = offset, !.length = length,
         !.layered = s.dev.parent_spec /\ s.dev.parent_ref > 0 /\ s.dev.parent_overlap > 0]]

\* ceph_osdc_start_request() with the request's own op.
ObjRequestSubmit(s, o) == [s EXCEPT !.obj[o].net = "sent", !.obj[o].stat = FALSE]

\* A read of the parent on behalf of the object request o, which it references.
ParentRequest(s, o, offset, length, callback) ==
  LET s1 == RbdAssert(s, s.dev.parent)
      s2 == [s1 EXCEPT !.obj[o].kref = @ + 1,
               !.img[o] = [NoImg EXCEPT !.live = TRUE, !.kref = 1, !.offset = offset,
                             !.length = length, !.callback = callback]]
      s3 == ImgRequestFill(s2, o)
      mine == ObjsOf(s3, o)
  IN  [s3 EXCEPT !.obj = [c \in Objs |-> IF c \in mine THEN [@[c] EXCEPT !.net = "sent"]
                                                      ELSE @[c]]]

----------------------------------------------------------------------------
(* Submission: a write to an object that may share data with the parent    *)
(* first asks whether the object exists.                                   *)

\* Mutant: writes do not care about the parent.
ImgObjRequestSimpleAlways(s, o) == TRUE

ImgObjRequestSimple(s, o) ==
  \/ s.img[ImgOf(o)].op = "read"
  \/ ~s.img[ImgOf(o)].layered
  \/ ~ObjRequestOverlapsParent(s, s.obj[o].img_offset)
  \/ Offset(s, o) = 0 /\ s.obj[o].length = ObjBytes
  \/ s.obj[o].known /\ s.obj[o].exists

\* Read from the parent all that lies under the object, up to the overlap.
ImgObjParentReadFull(s, o) ==
  LET start == s.obj[o].img_offset - Offset(s, o)
      end == Min({start + ObjBytes, s.dev.parent_overlap})
  IN  ParentRequest(RbdAssert(s, start < s.dev.parent_overlap), o, start, end - start, "full")

\* The STAT request holds a reference to the request it is made for.
ImgObjExistsSubmit(s, o) ==
  [s EXCEPT !.obj[o].kref = @ + 1, !.obj[o].net = "sent", !.obj[o].stat = TRUE]

ImgObjRequestSubmit(s, o) ==
  IF ImgObjRequestSimple(s, o) THEN ObjRequestSubmit(s, o)
  ELSE IF s.obj[o].known THEN ImgObjParentReadFull(s, o)
  ELSE ImgObjExistsSubmit(s, o)

----------------------------------------------------------------------------
(* Replies.  obj_request_done_set() and the callback of the request are two *)
(* steps of the thread that handles the reply: "complete" is in between.    *)

ObjRequestComplete(s, o) == [s EXCEPT !.obj[o].net = "complete"]
ObjRequestDone(s, o) == ObjRequestComplete([s EXCEPT !.obj[o].done = TRUE], o)

ZeroFrom(buf, n) == [j \in 1..Len(buf) |-> IF j > n THEN 0 ELSE buf[j]]

\* A missing object and the end of a short one read as zeroes.
ImgObjRequestReadCallback(s, o) ==
  LET q == s.obj[o]
      buf == IF q.result = ENOENT THEN ZeroFrom(q.buf, 0)
             ELSE IF q.xferred < q.length /\ q.result = 0 THEN ZeroFrom(q.buf, q.xferred)
             ELSE q.buf
  IN  ObjRequestDone([s EXCEPT !.obj[o].buf = buf, !.obj[o].xferred = q.length,
        !.obj[o].result = IF @ = ENOENT THEN 0 ELSE @], o)

ImgParentRead(s, o) == ParentRequest(s, o, s.obj[o].img_offset, s.obj[o].length, "read")

OsdReadCallback(s, o) ==
  IF /\ s.img[ImgOf(o)].layered
     /\ s.obj[o].result = ENOENT
     /\ s.obj[o].img_offset < s.dev.parent_overlap
  THEN ImgParentRead(s, o) ELSE ImgObjRequestReadCallback(s, o)

\* Mutant: the transfer count is the length of the reply.
OsdWriteCallbackShort(s, o) == ObjRequestDone(s, o)

OsdWriteCallback(s, o) == ObjRequestDone([s EXCEPT !.obj[o].xferred = s.obj[o].length], o)

OsdDiscardCallback(s, o) ==
  ObjRequestDone([s EXCEPT !.obj[o].xferred = s.obj[o].length,
                           !.obj[o].result = IF @ = ENOENT THEN 0 ELSE @], o)

\* The answer to the question whether the object of o exists.
ImgObjExistsCallback(s, o, result) ==
  LET s1 == ObjRequestPut([s EXCEPT !.obj[o].net = "idle", !.obj[o].stat = FALSE], o)
  IN  IF s.dev.parent_overlap = 0 THEN ObjRequestSubmit(s1, o)
      ELSE IF result \in {0, ENOENT}
      THEN ImgObjRequestSubmit([s1 EXCEPT !.obj[o].known = TRUE,
                                          !.obj[o].exists = @ \/ result = 0], o)
      ELSE ObjRequestComplete([s1 EXCEPT !.obj[o].result = result], o)

\* rbd_osd_req_callback(): result and data of a reply; a result that is not
\* an error leaves the old one.
OsdReqCallback(s, o, reply) ==
  LET q == s.obj[o]
      s1 == [s EXCEPT !.obj[o].net = "idle", !.obj[o].xferred = Len(reply.data),
               !.obj[o].result = IF reply.result < 0 THEN reply.result ELSE @,
               !.obj[o].buf = [j \in 1..Len(@) |-> IF j <= Len(reply.data)
                                                   THEN reply.data[j] ELSE @[j]]]
  IN  IF q.stat THEN ImgObjExistsCallback(s, o, reply.result)
      ELSE IF q.copyup THEN ObjRequestDone(s1, o)
      ELSE IF q.op = "read" THEN OsdReadCallback(s1, o)
      ELSE IF q.op = "write" THEN OsdWriteCallback(s1, o)
      ELSE OsdDiscardCallback(s1, o)

----------------------------------------------------------------------------
(* The end of a read of the parent, on behalf of the object request o.     *)

\* The data of the read, in the memory it was given.
ParentData(s, o) ==
  FlattenSeq([k \in 1..s.img[o].count |-> s.obj[Append(o, k - 1)].buf])

\* Mutant: what the parent holds beyond the overlap is returned.
FromParentAll(s, o, xferred) == xferred

\* How much of xferred bytes from the parent lies within the overlap.
FromParent(s, o, xferred) ==
  Min({xferred, Max({s.dev.parent_overlap - s.obj[o].img_offset, 0})})

ImgParentReadCallback(s, o) ==
  LET m == s.img[o]
      s1 == [ImgRequestPut(s, o) EXCEPT !.obj[o].buf = ParentData(s, o)]
      s2 == [s1 EXCEPT !.obj[o].result = m.result,
               !.obj[o].xferred = IF m.result = 0 THEN FromParent(s, o, m.xferred) ELSE @]
  IN  IF s1.dev.parent_overlap = 0 THEN ObjRequestSubmit(s1, o)
      ELSE ImgObjRequestReadCallback(s2, o)

\* The data goes up with the write, or the write fails as the read did.
ImgObjParentReadFullCallback(s, o) ==
  LET m == s.img[o]
      s1 == ImgRequestPut(RbdAssert(s, m.length = m.xferred), o)
      q == s.obj[o]
      s2 == [s1 EXCEPT !.obj[o].pages = ParentData(s, o), !.obj[o].copyup = TRUE,
               !.obj[o].callback = "copyup",
               !.obj[o].op = ImgObjRequestFill(s, ImgOf(o), q.img_offset, q.length)]
  IN  IF s1.dev.parent_overlap = 0 THEN ObjRequestSubmit(s1, o)
      ELSE IF m.result # 0
      THEN ObjRequestDone([s1 EXCEPT !.obj[o].result = m.result, !.obj[o].xferred = 0], o)
      ELSE ObjRequestSubmit(s2, o)

ImgRequestComplete(s, i) ==
  LET sum[k \in 0..s.img[i].count] ==
        IF k = 0 THEN 0 ELSE sum[k - 1] + s.obj[Append(i, k - 1)].xferred
      s1 == IF s.img[i].result = 0 THEN [s EXCEPT !.img[i].xferred = sum[s.img[i].count]] ELSE s
  IN  CASE s.img[i].callback = "read" -> ImgParentReadCallback(s1, i)
        [] s.img[i].callback = "full" -> ImgObjParentReadFullCallback(s1, i)
        [] OTHER -> ImgRequestPut(s1, i)

----------------------------------------------------------------------------
(* The callback of an object request.  Requests are ended in order: the    *)
(* one that is next also ends those after it that are done already.        *)

\* The value a request o has made its byte b hold, or found there.
Outcome(s, o, b) ==
  CASE s.obj[o].op = "read" -> s.obj[o].buf[b - s.obj[o].img_offset + 1]
    [] s.obj[o].op = "write" -> Head(o)
    [] OTHER -> 0

\* rbd_img_obj_end_request() for the pieces from w to n - 1 of image request i:
\* the first error is its result, and each piece advances the block request
\* (blk_end_request()) by the bytes it transferred.
ImgObjEndRequests(s, i, w, n) ==
  LET piece(k) == s.obj[Append(i, k)]
      failed == {k \in w..(n - 1) : piece(k).result # 0}
      r == Head(i)
      left[k \in w..n] == IF k = w THEN s.rq[r].left ELSE left[k - 1] - piece(k - 1).xferred
      ends(k, b) == /\ piece(k).result = 0
                    /\ b \in piece(k).img_offset..(piece(k).img_offset + piece(k).length - 1)
      outcome(b) == IF \E k \in w..(n - 1) : ends(k, b)
                    THEN Outcome(s, Append(i, CHOOSE k \in w..(n - 1) : ends(k, b)), b)
                    ELSE s.rq[r].outcome[b]
      s1 == [s EXCEPT !.img[i].next = n,
               !.img[i].result = IF @ = 0 /\ failed # {} THEN piece(Min(failed)).result ELSE @]
  IN  IF IsChild(i) THEN s1
      ELSE [RbdAssert(s1, \A k \in (w + 1)..(n - 1) : left[k] > 0) EXCEPT
              !.rq[r].left = left[n], !.rq[r].ended = left[n] <= 0,
              !.rq[r].outcome = [b \in Bytes |-> outcome(b)]]

\* Whether anything is left of image request i after it has ended n pieces.
More(s, i, n) == IF IsChild(i) THEN n < s.img[i].count ELSE ~s.rq[Head(i)].ended

\* Mutant: a request only ends itself.
NextCompletionOne(s, i, w) == IF s.obj[Append(i, w)].done THEN w + 1 ELSE w

\* The first piece from w on that is not done.
NextCompletion(s, i, w) ==
  Min({k \in w..s.img[i].count : k = s.img[i].count \/ ~s.obj[Append(i, k)].done})

ImgObjCallback(s, o) ==
  LET i == ImgOf(o)
      w == Which(o)
      n == NextCompletion(s, i, w)
      idle == [s EXCEPT !.obj[o].net = "idle"]
      s1 == ImgObjEndRequests(idle, i, w, n)
      more == n = w \/ More(s1, i, n)
      s2 == ImgRequestPut(RbdAssert(s1, more # (n = s.img[i].count)), i)
  IN  IF w # s.img[i].next THEN ImgRequestPut(idle, i)
      ELSE IF more THEN s2 ELSE ImgRequestComplete(s2, i)

\* rbd_img_obj_copyup_callback(): the pages are released, and a success is
\* one of the whole length.
ImgObjCopyupCallback(s, o) ==
  ImgObjCallback([s EXCEPT !.obj[o].pages = <<>>,
    !.obj[o].xferred = IF s.obj[o].result = 0 THEN s.obj[o].length ELSE @], o)
============================================================================
