----------------------------- MODULE Messenger -----------------------------
(***************************************************************************)
(* One ceph_connection of net/ceph/messenger.c: its state machine, its      *)
(* queues and sequence numbers, the worker con_work() that does all socket  *)
(* I/O, the calls the upper layers make on it and the socket callbacks.     *)
(*                                                                          *)
(* con->mutex is held by the worker while pc is in Locked.  It is dropped   *)
(* around the callbacks get_authorizer ("auth_first", "auth_more",          *)
(* "auth_reset"), alloc_msg ("alloc"), dispatch ("dispatch"), peer_reset    *)
(* ("preset") and fault ("fault"): the upper layers' calls run there or     *)
(* when the worker is idle.  Socket callbacks take no mutex; they are part  *)
(* of the peer's and the network's steps and interleave with every step     *)
(* here.  "oops" is the end of a worker that used a NULL con->sock.         *)
(*                                                                          *)
(* A stream is a sequence of tokens, and lengths are counted in tokens.  An *)
(* outgoing message is "hdr" (tag, header, front and middle), "data" if it  *)
(* has a payload, and "footer"; an incoming one is "mhdr", "mfront" and     *)
(* "mdata" (data and footer).  A tag is one token with what follows it.     *)
(***************************************************************************)
EXTENDS Integers, Sequences, FiniteSets

CONSTANTS
  NumMsgs,    \* messages 1..NumMsgs are submitted, in this order
  HasData,    \* the messages that carry a data payload
  SndBuf,     \* tokens the socket's send buffer holds
  BaseDelay,  \* BASE_DELAY_INTERVAL
  MaxDelay,   \* MAX_DELAY_INTERVAL
  Preempt,    \* may a caller be preempted after it dropped con->mutex?
  May,        \* the kinds of outside events that may happen
  MaxEvents   \* how many of them happen in a behaviour, of all kinds together

\* Calls, failures and answers that a connection does not cause itself.
Events == {"close", "keepalive", "revoke", "revoke_in", "connfail", "authfail",
           "skip", "nomem", "fault", "restart", "badauth", "gretry", "reject",
           "inmsg", "tagclose", "wrongpeer"}

ASSUME MessengerAssumption ==
  /\ NumMsgs \in Nat /\ SndBuf \in Nat \ {0}
  /\ HasData \subseteq 1..NumMsgs
  /\ BaseDelay \in Nat \ {0} /\ MaxDelay \in Nat
  /\ Preempt \in BOOLEAN
  /\ May \subseteq Events /\ MaxEvents \in Nat

VARIABLES
  state,            \* con->state
  flags,            \* con->flags
  work,             \* is con->work pending?
  pc,               \* where con_work() is
  delay,            \* con->delay, the backoff
  auth_retry,       \* con->auth_retry
  connect_seq,      \* con->connect_seq
  out_connect,      \* con->out_connect.connect_seq
  tcp,              \* con->sock and its sk_state; "none": con->sock is NULL
  nospace,          \* SOCK_NOSPACE of the socket
  c2s, s2c,         \* the two directions of the TCP stream
  out_queue,        \* con->out_queue
  out_sent,         \* con->out_sent
  out_seq,          \* con->out_seq
  seq,              \* hdr.seq of each message; 0: needs_out_seq
  out_msg, out_msg_done, out_kvec, out_kvec_is_msg, out_skip,
  in_tag,           \* con->in_tag
  in_hdr,           \* con->in_hdr: the message whose header was read last
  in_msg,           \* con->in_msg
  in_left,          \* tokens of in_msg still to be read
  in_skip,          \* -con->in_base_pos when that is negative
  in_seq, in_seq_acked,
  tails,            \* callers that dropped con->mutex, flags not yet set
  used,             \* outside events so far
  n_sent,           \* messages submitted so far
  user_open,        \* the upper layer opened and has not closed since
  untold,           \* a RESETSESSION that peer_reset() was not called for
  session,          \* history: number of reset_connection() calls
  sent,             \* history: messages accepted in this session
  received,         \* history: incoming messages consumed in this session
  revoked           \* history: messages revoked

conVars  == <<state, flags, work, pc, delay, auth_retry, connect_seq, out_connect>>
sockVars == <<tcp, nospace, c2s, s2c>>
outVars  == <<out_queue, out_sent, out_seq, seq>>
msgVars  == <<out_msg, out_msg_done, out_kvec, out_kvec_is_msg, out_skip>>
inVars   == <<in_tag, in_hdr, in_msg, in_left, in_skip, in_seq, in_seq_acked>>
userVars == <<tails, n_sent, user_open>>
histVars == <<session, sent, received, revoked, untold>>
vars == <<conVars, sockVars, outVars, msgVars, inVars, userVars, used, histVars>>

NoMsg == 0
States == {"CLOSED", "PREOPEN", "CONNECTING", "NEGOTIATING", "OPEN", "STANDBY"}
Connected == {"CONNECTING", "NEGOTIATING", "OPEN"}
Flags == {"LOSSYTX", "KEEPALIVE_PENDING", "WRITE_PENDING", "SOCK_CLOSED", "BACKOFF"}
Locked == {"top", "read", "write", "write_done"}
Unlocked == {"idle", "auth_first", "auth_more", "auth_reset", "preset", "alloc",
             "dispatch", "fault"}

\* A token of kind t about message, tag or session a, with the number n.
Tok(t, a, n) == [t |-> t, a |-> a, n |-> n]

MutexFree == pc \in Unlocked

Happens(e) ==
  /\ e \in May /\ used < MaxEvents
  /\ used' = used + 1

\* ceph_con_init(): all zero, CLOSED, no socket.
ConInit ==
  /\ state = "CLOSED" /\ flags = {} /\ work = FALSE /\ pc = "idle"
  /\ delay = 0 /\ auth_retry = 0 /\ connect_seq = 0 /\ out_connect = 0
  /\ tcp = "none" /\ nospace = FALSE /\ c2s = <<>> /\ s2c = <<>>
  /\ out_queue = <<>> /\ out_sent = <<>> /\ out_seq = 0
  /\ seq = [m \in 1..NumMsgs |-> 0]
  /\ out_msg = NoMsg /\ out_msg_done = FALSE
  /\ out_kvec = <<>> /\ out_kvec_is_msg = FALSE /\ out_skip = 0
  /\ in_tag = "READY" /\ in_hdr = NoMsg /\ in_msg = NoMsg
  /\ in_left = 0 /\ in_skip = 0 /\ in_seq = 0 /\ in_seq_acked = 0
  /\ tails = [send |-> 0, keepalive |-> 0] /\ n_sent = 0 /\ user_open = FALSE
  /\ used = 0
  /\ session = 0 /\ sent = <<>> /\ received = <<>>
  /\ revoked = {} /\ untold = FALSE

----------------------------------------------------------------------------
(* Pieces of the handlers.                                                  *)

\* shutdown() of a socket that is connecting or was reset calls
\* ceph_sock_state_change() in TCP_CLOSE once more, which queues the work.
ShutdownQueues == tcp \in {"syn", "rst"}

CloseKeepsSock == UNCHANGED <<tcp, nospace>> /\ c2s' = <<>> /\ s2c' = <<>>
\* con_close_socket(): the socket goes, with all that was buffered in it.
con_close_socket == tcp' = "none" /\ nospace' = FALSE /\ c2s' = <<>> /\ s2c' = <<>>

ResetKeepsConnectSeq ==
  /\ UNCHANGED connect_seq
  /\ out_seq' = 0 /\ seq' = [m \in 1..NumMsgs |-> 0]
  /\ out_msg' = NoMsg
  /\ in_seq' = 0 /\ in_seq_acked' = 0
  /\ session' = session + 1 /\ sent' = <<>> /\ received' = <<>>

\* reset_connection(), all but the three message holders.
ResetSeqs ==
  /\ connect_seq' = 0
  /\ out_seq' = 0 /\ seq' = [m \in 1..NumMsgs |-> 0]
  /\ out_msg' = NoMsg
  /\ in_seq' = 0 /\ in_seq_acked' = 0
  /\ session' = session + 1 /\ sent' = <<>> /\ received' = <<>>

reset_connection ==
  /\ out_queue' = <<>> /\ out_sent' = <<>> /\ in_msg' = NoMsg
  /\ ResetSeqs

\* The next con->delay of con_fault().
Backoff == IF delay = 0 THEN BaseDelay
           ELSE IF delay < MaxDelay THEN 2 * delay ELSE delay

RequeueBehind(queue, unacked) == queue \o unacked
\* "Requeue anything that hasn't been acked", in front.
Requeue(queue, unacked) == unacked \o queue

\* The flags of a connection that con_fault() puts on standby.
StandbyFlags == flags \ {"SOCK_CLOSED", "WRITE_PENDING"}

\* con_fault() when out_queue is queue and out_sent is unacked.
con_fault(queue, unacked) ==
  /\ pc' = "fault"
  /\ con_close_socket
  /\ IF "LOSSYTX" \in flags
     THEN /\ state' = "CLOSED"
          /\ flags' = flags \ {"SOCK_CLOSED"}
          /\ work' = (work \/ ShutdownQueues)
          /\ out_queue' = queue /\ out_sent' = unacked
          /\ UNCHANGED <<delay, in_msg>>
     ELSE /\ in_msg' = NoMsg
          /\ out_queue' = Requeue(queue, unacked) /\ out_sent' = <<>>
          /\ IF Requeue(queue, unacked) = <<>> /\ "KEEPALIVE_PENDING" \notin flags
             THEN /\ state' = "STANDBY"
                  /\ flags' = StandbyFlags
                  /\ work' = (work \/ ShutdownQueues)
                  /\ UNCHANGED delay
             ELSE /\ state' = "PREOPEN"
                  /\ flags' = (flags \ {"SOCK_CLOSED"}) \cup {"BACKOFF"}
                  /\ delay' = Backoff
                  /\ work' = TRUE

\* con_work() met an error: con_fault() with the queues as they are.
Fault ==
  /\ con_fault(out_queue, out_sent)
  /\ UNCHANGED <<auth_retry, connect_seq, out_connect, out_seq, seq, msgVars,
                 in_tag, in_hdr, in_left, in_skip, in_seq, in_seq_acked,
                 userVars, histVars>>

\* The worker moves on to label l and changes nothing else of conVars.
Goto(l) ==
  /\ pc' = l
  /\ UNCHANGED <<state, flags, work, delay, auth_retry, connect_seq, out_connect>>

StandbyForever == UNCHANGED <<state, connect_seq>>
clear_standby ==
  /\ state' = IF state = "STANDBY" THEN "PREOPEN" ELSE state
  /\ connect_seq' = IF state = "STANDBY" THEN connect_seq + 1 ELSE connect_seq

----------------------------------------------------------------------------
(* Calls of the upper layers.                                               *)

\* "if there wasn't anything waiting to send before, queue new work"
SetWritePending ==
  /\ flags' = flags \cup {"WRITE_PENDING"}
  /\ work' = (work \/ "WRITE_PENDING" \notin flags)

SetKeepalivePending ==
  IF "KEEPALIVE_PENDING" \in flags
  THEN UNCHANGED <<flags, work>>
  ELSE /\ flags' = flags \cup {"KEEPALIVE_PENDING", "WRITE_PENDING"}
       /\ work' = (work \/ "WRITE_PENDING" \notin flags)

ceph_con_open ==
  /\ MutexFree /\ ~user_open
  /\ user_open' = TRUE
  /\ state' = "PREOPEN" /\ delay' = 0 /\ work' = TRUE
  /\ UNCHANGED <<flags, pc, auth_retry, connect_seq, out_connect, sockVars, outVars,
                 msgVars, inVars, tails, n_sent, used, histVars>>

CloseKeepsSockClosed == {"LOSSYTX", "KEEPALIVE_PENDING", "WRITE_PENDING", "BACKOFF"}
\* The flags that ceph_con_close() and its con_close_socket() clear.
ClosedFlags == {"LOSSYTX", "KEEPALIVE_PENDING", "WRITE_PENDING", "BACKOFF", "SOCK_CLOSED"}

\* ceph_con_close(): cancel_con() drops the pending work before the socket is
\* closed; out_kvec, out_skip and auth_retry are left as they are.
ceph_con_close ==
  /\ MutexFree /\ user_open /\ Happens("close")
  /\ user_open' = FALSE
  /\ state' = "CLOSED" /\ flags' = flags \ ClosedFlags
  /\ reset_connection
  /\ work' = ShutdownQueues
  /\ con_close_socket
  /\ untold' = FALSE
  /\ UNCHANGED <<pc, delay, auth_retry, out_connect, out_msg_done, out_kvec,
                 out_kvec_is_msg, out_skip, in_tag, in_hdr, in_left, in_skip,
                 tails, n_sent, revoked>>

\* Mutant: list_add() instead of list_add_tail().
con_send_head ==
  /\ MutexFree /\ n_sent < NumMsgs
  /\ n_sent' = n_sent + 1
  /\ IF state = "CLOSED"
     THEN UNCHANGED <<state, flags, work, connect_seq, out_queue, tails, sent>>
     ELSE /\ out_queue' = <<n_sent + 1>> \o out_queue
          /\ sent' = Append(sent, n_sent + 1)
          /\ clear_standby
          /\ \/ /\ SetWritePending
                /\ UNCHANGED tails
             \/ /\ Preempt
                /\ tails' = [tails EXCEPT !.send = @ + 1]
                /\ UNCHANGED <<flags, work>>
  /\ UNCHANGED <<pc, delay, auth_retry, out_connect, sockVars, out_sent, out_seq,
                 seq, msgVars, inVars, user_open, used, session, received,
                 revoked, untold>>

\* ceph_con_send(): the part under the mutex and, unless the caller is
\* preempted there, the setting of WRITE_PENDING after the unlock.
ceph_con_send ==
  /\ MutexFree /\ n_sent < NumMsgs
  /\ n_sent' = n_sent + 1
  /\ IF state = "CLOSED"
     THEN UNCHANGED <<state, flags, work, connect_seq, out_queue, tails, sent>>
     ELSE /\ out_queue' = Append(out_queue, n_sent + 1)
          /\ sent' = Append(sent, n_sent + 1)
          /\ clear_standby
          /\ \/ /\ SetWritePending
                /\ UNCHANGED tails
             \/ /\ Preempt
                /\ tails' = [tails EXCEPT !.send = @ + 1]
                /\ UNCHANGED <<flags, work>>
  /\ UNCHANGED <<pc, delay, auth_retry, out_connect, sockVars, out_sent, out_seq,
                 seq, msgVars, inVars, user_open, used, session, received,
                 revoked, untold>>

ceph_con_keepalive ==
  /\ MutexFree /\ user_open /\ Happens("keepalive")
  /\ clear_standby
  /\ \/ /\ SetKeepalivePending
        /\ UNCHANGED tails
     \/ /\ Preempt
        /\ tails' = [tails EXCEPT !.keepalive = @ + 1]
        /\ UNCHANGED <<flags, work>>
  /\ UNCHANGED <<pc, delay, auth_retry, out_connect, sockVars, outVars, msgVars,
                 inVars, n_sent, user_open, histVars>>

\* A preempted caller of ceph_con_send() or ceph_con_keepalive() goes on.
FinishSend ==
  /\ tails.send > 0
  /\ tails' = [tails EXCEPT !.send = @ - 1]
  /\ SetWritePending
  /\ UNCHANGED <<state, pc, delay, auth_retry, connect_seq, out_connect, sockVars,
                 outVars, msgVars, inVars, n_sent, user_open, used, histVars>>

FinishKeepalive ==
  /\ tails.keepalive > 0
  /\ tails' = [tails EXCEPT !.keepalive = @ - 1]
  /\ SetKeepalivePending
  /\ UNCHANGED <<state, pc, delay, auth_retry, connect_seq, out_connect, sockVars,
                 outVars, msgVars, inVars, n_sent, user_open, used, histVars>>

Holds(queue, m) == \E i \in 1..Len(queue) : queue[i] = m

\* list_del_init() of m, where m is on the list.
Without(queue, m) ==
  IF Holds(queue, m)
  THEN LET k == CHOOSE i \in 1..Len(queue) : queue[i] = m
       IN  SubSeq(queue, 1, k - 1) \o SubSeq(queue, k + 1, Len(queue))
  ELSE queue

\* ceph_msg_revoke() of a message this connection holds (msg->con == con).
ceph_msg_revoke(m) ==
  /\ MutexFree /\ Happens("revoke")
  /\ Holds(out_queue, m) \/ Holds(out_sent, m)
  /\ out_queue' = Without(out_queue, m)
  /\ out_sent' = Without(out_sent, m)
  /\ seq' = [seq EXCEPT ![m] = 0]
  /\ revoked' = revoked \cup {m}
  /\ IF out_msg = m
     THEN /\ out_msg' = NoMsg
          /\ out_skip' = IF out_kvec_is_msg THEN Len(out_kvec) ELSE out_skip
          /\ out_kvec_is_msg' = FALSE
     ELSE UNCHANGED <<out_msg, out_skip, out_kvec_is_msg>>
  /\ UNCHANGED <<conVars, sockVars, out_seq, out_msg_done, out_kvec, inVars,
                 userVars, session, sent, received, untold>>

\* A message that is skipped counts as received.
Skipped(m) == in_seq' = in_seq + 1 /\ received' = Append(received, m)

\* ceph_msg_revoke_incoming() of the message being read.  in_base_pos counts
\* the header only, so front and data are skipped however much of them has
\* been read already.
ceph_msg_revoke_incoming ==
  /\ MutexFree /\ in_msg # NoMsg /\ Happens("revoke_in")
  /\ in_msg' = NoMsg /\ in_tag' = "READY" /\ in_skip' = 2
  /\ Skipped(in_msg)
  /\ UNCHANGED <<conVars, sockVars, outVars, msgVars, in_hdr, in_left,
                 in_seq_acked, userVars, session, sent, revoked, untold>>

UserNext ==
  \/ ceph_con_open \/ ceph_con_close
  \/ ceph_con_send \/ ceph_con_keepalive
  \/ FinishSend \/ FinishKeepalive
  \/ \E m \in 1..NumMsgs : ceph_msg_revoke(m)
  \/ ceph_msg_revoke_incoming

----------------------------------------------------------------------------
(* con_work(): the head of its loop and its ends.                           *)

ConWorkStart ==
  /\ pc = "idle" /\ work
  /\ work' = FALSE /\ pc' = "top"
  /\ UNCHANGED <<state, flags, delay, auth_retry, connect_seq, out_connect, sockVars,
                 outVars, msgVars, inVars, userVars, used, histVars>>

\* con_sock_closed()
con_sock_closed ==
  /\ pc = "top" /\ "SOCK_CLOSED" \in flags
  /\ Fault
  /\ UNCHANGED used

\* con_backoff(): queue the work with a delay.  When it is queued already
\* BACKOFF stays set, for that run of the work to see.
con_backoff ==
  /\ pc = "top" /\ "SOCK_CLOSED" \notin flags /\ "BACKOFF" \in flags
  /\ flags' = IF work THEN flags ELSE flags \ {"BACKOFF"}
  /\ work' = TRUE /\ pc' = "idle"
  /\ UNCHANGED <<state, delay, auth_retry, connect_seq, out_connect, sockVars,
                 outVars, msgVars, inVars, userVars, used, histVars>>

\* The tests of con->state before try_read().
ConWorkGo ==
  /\ pc = "top" /\ flags \cap {"SOCK_CLOSED", "BACKOFF"} = {}
  /\ Goto(IF state \in {"STANDBY", "CLOSED"} THEN "idle" ELSE "read")
  /\ UNCHANGED <<sockVars, outVars, msgVars, inVars, userVars, used, histVars>>

\* con->ops->fault() has returned.
con_fault_finish ==
  /\ pc = "fault"
  /\ Goto("idle")
  /\ UNCHANGED <<sockVars, outVars, msgVars, inVars, userVars, used, histVars>>

----------------------------------------------------------------------------
(* try_read(): one token a step; "goto more" is staying at "read".          *)

Next_ == Head(s2c)
Take == s2c' = Tail(s2c) /\ UNCHANGED <<tcp, nospace, c2s>>
MayRead(st) == pc = "read" /\ state = st /\ s2c # <<>>

\* Nothing to read from, nothing arrived, or the socket reports an error.
ReadNothing ==
  /\ pc = "read"
  /\ state \notin Connected \/ (s2c = <<>> /\ tcp # "rst")
  /\ Goto("write")
  /\ UNCHANGED <<sockVars, outVars, msgVars, inVars, userVars, used, histVars>>

ReadError ==
  /\ pc = "read" /\ state \in Connected /\ s2c = <<>> /\ tcp = "rst"
  /\ Fault
  /\ UNCHANGED used

\* prepare_write_connect() up to the unlock in get_connect_authorizer().
PrepareConnect(cseq, l) == out_connect' = cseq /\ pc' = l

\* read_partial_banner(), process_banner(): the right peer (a = 1), or not.
process_banner ==
  /\ MayRead("CONNECTING") /\ Next_.a = 1
  /\ Take
  /\ state' = "NEGOTIATING"
  /\ PrepareConnect(connect_seq, "auth_first")
  /\ UNCHANGED <<flags, work, delay, auth_retry, connect_seq, outVars, msgVars,
                 inVars, userVars, used, histVars>>

WrongPeer ==
  /\ MayRead("CONNECTING") /\ Next_.a # 1
  /\ Fault
  /\ UNCHANGED used

\* Where the caller of prepare_write_connect() goes on.
AfterAuth == CASE pc = "auth_first" -> "write"
               [] pc = "auth_more"  -> "read"
               [] OTHER             -> "preset"

\* get_connect_authorizer() has an authorizer or NULL; then the rest of
\* prepare_write_connect() and what its caller does next.
GotAuthorizer ==
  /\ pc \in {"auth_first", "auth_more", "auth_reset"}
  /\ IF state # "NEGOTIATING"
     THEN /\ pc' = "top"                                       \* -EAGAIN
          /\ UNCHANGED <<flags, out_kvec>>
     ELSE /\ pc' = AfterAuth
          /\ out_kvec' = Append(out_kvec, Tok("connect", session, out_connect))
          /\ flags' = flags \cup {"WRITE_PENDING"}
  /\ UNCHANGED <<state, work, delay, auth_retry, connect_seq, out_connect,
                 sockVars, outVars, out_msg, out_msg_done, out_kvec_is_msg,
                 out_skip, inVars, userVars, used, histVars>>

\* get_authorizer() failed: the error is returned before con->state is looked
\* at, and con_work() faults.
AuthorizerError ==
  /\ pc \in {"auth_first", "auth_more", "auth_reset"}
  /\ Happens("authfail")
  /\ Fault

\* con->ops->peer_reset() has returned.
PeerResetDone ==
  /\ pc = "preset"
  /\ Goto(IF state = "NEGOTIATING" THEN "read" ELSE "top")
  /\ untold' = FALSE
  /\ UNCHANGED <<sockVars, outVars, msgVars, inVars, userVars, used, session,
                 sent, received, revoked>>

\* process_connect(): a reply whose tag is Next_.t and connect_seq Next_.n.
Reply(tag) == MayRead("NEGOTIATING") /\ Next_.t = tag

\* FEATURES, BADPROTOVER, or READY without a required feature.
ReplyReject ==
  /\ Reply("REJECT")
  /\ ResetSeqs
  /\ con_fault(<<>>, <<>>)
  /\ UNCHANGED <<auth_retry, out_connect, out_msg_done, out_kvec,
                 out_kvec_is_msg, out_skip, in_tag, in_hdr, in_left, in_skip,
                 userVars, used, revoked, untold>>

ReplyBadAuthorizer ==
  /\ Reply("BADAUTHORIZER")
  /\ auth_retry' = auth_retry + 1
  /\ IF auth_retry + 1 = 2
     THEN /\ con_fault(out_queue, out_sent)
          /\ UNCHANGED <<out_connect, out_kvec>>
     ELSE /\ Take
          /\ out_kvec' = <<>>
          /\ PrepareConnect(connect_seq, "auth_more")
          /\ UNCHANGED <<state, flags, work, delay, out_queue, out_sent, in_msg>>
  /\ UNCHANGED <<connect_seq, out_seq, seq, out_msg, out_msg_done,
                 out_kvec_is_msg, out_skip, in_tag, in_hdr, in_left, in_skip,
                 in_seq, in_seq_acked, userVars, used, histVars>>

ReplyResetSession ==
  /\ Reply("RESETSESSION")
  /\ Take
  /\ reset_connection
  /\ out_kvec' = <<>>
  /\ PrepareConnect(0, "auth_reset")
  /\ untold' = TRUE
  /\ UNCHANGED <<state, flags, work, delay, auth_retry, out_msg_done,
                 out_kvec_is_msg, out_skip, in_tag, in_hdr, in_left, in_skip,
                 userVars, used, revoked>>

\* RETRY_SESSION takes the peer's connect_seq; RETRY_GLOBAL only raises
\* msgr->global_seq.
ReplyRetry ==
  /\ Reply("RETRY_SESSION") \/ Reply("RETRY_GLOBAL")
  /\ Take
  /\ connect_seq' = IF Next_.t = "RETRY_SESSION" THEN Next_.n ELSE connect_seq
  /\ out_kvec' = <<>>
  /\ PrepareConnect(connect_seq', "auth_more")
  /\ UNCHANGED <<state, flags, work, delay, auth_retry, outVars, out_msg,
                 out_msg_done, out_kvec_is_msg, out_skip, inVars, userVars,
                 used, histVars>>

\* READY or SEQ; a = 1 is CEPH_MSG_CONNECT_LOSSY.
ReplyReady ==
  /\ Reply("READY") \/ Reply("SEQ")
  /\ Take
  /\ state' = "OPEN" /\ auth_retry' = 0 /\ delay' = 0
  /\ connect_seq' = connect_seq + 1
  /\ in_skip' = 0
  /\ LET lossy == IF Next_.a = 1 THEN {"LOSSYTX"} ELSE {} IN
     IF Next_.t = "SEQ"
     THEN /\ in_tag' = "SEQ"
          /\ in_seq_acked' = in_seq
          /\ out_kvec' = <<Tok("seq", 0, in_seq)>>
          /\ flags' = flags \cup lossy \cup {"WRITE_PENDING"}
     ELSE /\ in_tag' = "READY"
          /\ flags' = flags \cup lossy
          /\ UNCHANGED <<in_seq_acked, out_kvec>>
  /\ UNCHANGED <<work, pc, out_connect, outVars, out_msg, out_msg_done,
                 out_kvec_is_msg, out_skip, in_hdr, in_msg, in_left, in_seq,
                 userVars, used, histVars>>

\* WAIT or an unknown tag: "connect protocol error, will retry".
ReplyWait ==
  /\ Reply("WAIT")
  /\ Fault
  /\ UNCHANGED used

SkipOne == in_skip' = in_skip - 1
\* in_base_pos < 0: read and discard what is left of a skipped message.
ReadSkip ==
  /\ MayRead("OPEN") /\ in_skip > 0
  /\ Take
  /\ SkipOne
  /\ UNCHANGED <<conVars, outVars, msgVars, in_tag, in_hdr, in_msg, in_left, in_seq,
                 in_seq_acked, userVars, used, histVars>>

\* The next token is read as a tag and what belongs to it.
ReadTag(tag) == MayRead("OPEN") /\ in_skip = 0 /\ in_tag = "READY" /\ Next_.t = tag

\* read_partial_message() has the header: an old seq is skipped and the
\* worker leaves try_read(); the next one goes to alloc_msg(); a gap faults.
ReadHdrOld ==
  /\ ReadTag("mhdr") /\ Next_.n <= in_seq
  /\ Take
  /\ in_hdr' = Next_.a /\ in_skip' = 2
  /\ Goto("write")
  /\ UNCHANGED <<outVars, msgVars, in_tag, in_msg, in_left, in_seq, in_seq_acked,
                 userVars, used, histVars>>

NotTooNew == Next_.n <= in_seq + 1
InSequence == Next_.n = in_seq + 1
ReadHdr ==
  /\ ReadTag("mhdr") /\ InSequence
  /\ Take
  /\ in_tag' = "MSG" /\ in_hdr' = Next_.a
  /\ Goto("alloc")
  /\ UNCHANGED <<outVars, msgVars, in_msg, in_left, in_skip, in_seq, in_seq_acked,
                 userVars, used, histVars>>

\* A gap in the sequence numbers, or a token that is no tag.
ReadBad ==
  /\ MayRead("OPEN") /\ in_skip = 0 /\ in_tag = "READY"
  /\ \/ Next_.t = "mhdr" /\ Next_.n > in_seq + 1
     \/ Next_.t \notin {"mhdr", "ack", "close"}
  /\ Fault
  /\ UNCHANGED used

\* ceph_con_in_msg_alloc() has a message, is told to skip it, or has none.
AllocMsg ==
  /\ pc = "alloc"
  /\ IF state = "OPEN"
     THEN pc' = "read" /\ in_msg' = in_hdr /\ in_left' = 2
     ELSE pc' = "top" /\ UNCHANGED <<in_msg, in_left>>          \* -EAGAIN
  /\ UNCHANGED <<state, flags, work, delay, auth_retry, connect_seq, out_connect,
                 sockVars, outVars, msgVars, in_tag, in_hdr, in_skip, in_seq,
                 in_seq_acked, userVars, used, histVars>>

AllocSkip ==
  /\ pc = "alloc" /\ state = "OPEN" /\ Happens("skip")
  /\ in_tag' = "READY" /\ in_skip' = 2
  /\ Skipped(in_hdr)
  /\ Goto("write")
  /\ UNCHANGED <<sockVars, outVars, msgVars, in_hdr, in_msg, in_left,
                 in_seq_acked, userVars, session, sent, revoked, untold>>

AllocNoMemory ==
  /\ pc = "alloc" /\ state = "OPEN" /\ Happens("nomem")
  /\ Fault

\* The rest of read_partial_message(): front and middle, then data and footer,
\* and process_message() up to the unlock around dispatch().
Body == MayRead("OPEN") /\ in_skip = 0 /\ in_tag = "MSG"

ReadFront ==
  /\ Body /\ in_left = 2
  /\ Take
  /\ in_left' = 1
  /\ UNCHANGED <<conVars, outVars, msgVars, in_tag, in_hdr, in_msg, in_skip, in_seq,
                 in_seq_acked, userVars, used, histVars>>

process_message ==
  /\ Body /\ in_left = 1
  /\ Take
  /\ in_left' = 0 /\ in_msg' = NoMsg /\ in_seq' = in_seq + 1
  /\ received' = Append(received, in_msg)
  /\ Goto("dispatch")
  /\ UNCHANGED <<outVars, msgVars, in_tag, in_hdr, in_skip, in_seq_acked, userVars,
                 used, session, sent, revoked, untold>>

\* dispatch() has returned.
DispatchDone ==
  /\ pc = "dispatch"
  /\ in_tag' = IF state = "OPEN" THEN "READY" ELSE in_tag
  /\ in_skip' = IF state = "OPEN" THEN 0 ELSE in_skip
  /\ Goto("read")
  /\ UNCHANGED <<sockVars, outVars, msgVars, in_hdr, in_msg, in_left, in_seq,
                 in_seq_acked, userVars, used, histVars>>

Acked(m) == seq[m] <= Next_.n

\* process_ack(), for an ack and for the peer's seq at the end of the
\* handshake: one message a step leaves out_sent, then the next tag is due.
process_ack ==
  /\ \/ ReadTag("ack")
     \/ MayRead("OPEN") /\ in_tag = "SEQ"
  /\ IF out_sent # <<>> /\ Acked(Head(out_sent))
     THEN /\ out_sent' = Tail(out_sent)
          /\ UNCHANGED <<sockVars, in_tag>>
     ELSE /\ Take
          /\ in_tag' = "READY"
          /\ UNCHANGED out_sent
  /\ UNCHANGED <<conVars, out_queue, out_seq, seq, msgVars, in_hdr, in_msg,
                 in_left, in_skip, in_seq, in_seq_acked, userVars, used, histVars>>

\* CEPH_MSGR_TAG_CLOSE: the socket is closed and try_write() is next.
ReadClose ==
  /\ ReadTag("close")
  /\ con_close_socket
  /\ state' = "CLOSED" /\ pc' = "write"
  /\ flags' = flags \ {"SOCK_CLOSED"}
  /\ work' = (work \/ ShutdownQueues)
  /\ UNCHANGED <<delay, auth_retry, connect_seq, out_connect, outVars, msgVars,
                 inVars, userVars, used, histVars>>

ReadNext ==
  \/ ReadNothing \/ ReadError \/ process_banner \/ WrongPeer
  \/ GotAuthorizer \/ AuthorizerError \/ PeerResetDone
  \/ ReplyReject \/ ReplyBadAuthorizer \/ ReplyResetSession \/ ReplyRetry
  \/ ReplyReady \/ ReplyWait
  \/ ReadSkip \/ ReadHdrOld \/ ReadHdr \/ ReadBad
  \/ AllocMsg \/ AllocSkip \/ AllocNoMemory
  \/ ReadFront \/ process_message \/ DispatchDone \/ process_ack \/ ReadClose

----------------------------------------------------------------------------
(* try_write(): one token, or one decision, a step.                         *)

\* May the socket take a token now?
Writable == tcp \in {"est", "fin"} /\ Len(c2s) < SndBuf

\* A write to a socket that the peer closed succeeds and goes nowhere.
Put(tok) ==
  /\ c2s' = IF tcp = "est" THEN Append(c2s, tok) ELSE c2s
  /\ UNCHANGED <<tcp, nospace, s2c>>

WantsWrite ==
  /\ pc = "write" /\ state # "PREOPEN"
  /\ out_skip > 0 \/ out_kvec # <<>> \/ (out_msg # NoMsg /\ ~out_msg_done)

\* PREOPEN: queue the banner and connect; more is written in the same call.
Connecting ==
  /\ pc = "write" /\ state = "PREOPEN"
  /\ out_kvec' = <<Tok("banner", 0, 0)>>
  /\ in_tag' = "READY" /\ in_skip' = 0

ceph_tcp_connect ==
  /\ Connecting
  /\ state' = "CONNECTING" /\ tcp' = "syn"
  /\ flags' = flags \cup {"WRITE_PENDING"}
  /\ UNCHANGED <<work, pc, delay, auth_retry, connect_seq, out_connect, nospace,
                 c2s, s2c, outVars, out_msg, out_msg_done, out_kvec_is_msg,
                 out_skip, in_hdr, in_msg, in_left, in_seq, in_seq_acked,
                 userVars, used, histVars>>

ConnectError ==
  /\ Connecting /\ Happens("connfail")
  /\ con_fault(out_queue, out_sent)
  /\ UNCHANGED <<auth_retry, connect_seq, out_connect, out_seq, seq, out_msg,
                 out_msg_done, out_kvec_is_msg, out_skip, in_hdr, in_left,
                 in_seq, in_seq_acked, userVars, histVars>>

\* The socket takes nothing now: try_write() returns 0.
WriteBlocked ==
  /\ WantsWrite /\ ~Writable /\ tcp \in {"syn", "est", "fin"}
  /\ Goto("idle")
  /\ nospace' = (tcp # "syn")
  /\ UNCHANGED <<tcp, c2s, s2c, outVars, msgVars, inVars, userVars, used, histVars>>

WriteError ==
  /\ WantsWrite /\ tcp = "rst"
  /\ Fault
  /\ UNCHANGED used

\* kernel_sendmsg() or sendpage() of a NULL con->sock.
WriteNoSocket ==
  /\ WantsWrite /\ tcp = "none"
  /\ Goto("oops")
  /\ UNCHANGED <<sockVars, outVars, msgVars, inVars, userVars, used, histVars>>

write_partial_skip ==
  /\ WantsWrite /\ Writable /\ out_skip > 0
  /\ Put(Tok("zero", 0, 0))
  /\ out_skip' = out_skip - 1
  /\ UNCHANGED <<conVars, outVars, out_msg, out_msg_done, out_kvec, out_kvec_is_msg,
                 inVars, userVars, used, histVars>>

write_partial_kvec ==
  /\ WantsWrite /\ Writable /\ out_skip = 0 /\ out_kvec # <<>>
  /\ Put(Head(out_kvec))
  /\ out_kvec' = Tail(out_kvec)
  /\ out_kvec_is_msg' = (out_kvec_is_msg /\ Tail(out_kvec) # <<>>)
  /\ UNCHANGED <<conVars, outVars, out_msg, out_msg_done, out_skip, inVars,
                 userVars, used, histVars>>

\* The data, then prepare_write_message_footer().
write_partial_message_data ==
  /\ WantsWrite /\ Writable /\ out_skip = 0 /\ out_kvec = <<>>
  /\ Put(Tok("data", out_msg, 0))
  /\ out_kvec' = <<Tok("footer", out_msg, 0)>>
  /\ out_kvec_is_msg' = TRUE /\ out_msg_done' = TRUE
  /\ UNCHANGED <<conVars, outVars, out_msg, out_skip, inVars, userVars, used,
                 histVars>>

\* do_next: nothing is left of out_kvec and of out_msg.
DoNext == pc = "write" /\ state # "PREOPEN" /\ ~WantsWrite
AckDue == in_seq > in_seq_acked
AckTok == Tok("ack", 0, in_seq)

\* "if it is requeued, resend with it's original seq"
MsgSeq(m) == IF seq[m] = 0 THEN out_seq + 1 ELSE seq[m]

prepare_write_message ==
  /\ DoNext /\ state = "OPEN" /\ out_queue # <<>>
  /\ LET m == Head(out_queue)
         s == MsgSeq(m)
     IN  /\ out_msg' = m
         /\ out_queue' = Tail(out_queue) /\ out_sent' = Append(out_sent, m)
         /\ seq' = [seq EXCEPT ![m] = s]
         /\ out_seq' = IF seq[m] = 0 THEN s ELSE out_seq
         /\ out_msg_done' = (m \notin HasData)
         /\ out_kvec' = (IF AckDue THEN <<AckTok>> ELSE <<>>)
                        \o <<Tok("hdr", m, s)>>
                        \o (IF m \in HasData THEN <<>> ELSE <<Tok("footer", m, 0)>>)
  /\ out_kvec_is_msg' = TRUE
  /\ in_seq_acked' = IF AckDue THEN in_seq ELSE in_seq_acked
  /\ flags' = flags \cup {"WRITE_PENDING"}
  /\ UNCHANGED <<state, work, pc, delay, auth_retry, connect_seq, out_connect,
                 sockVars, out_skip, in_tag, in_hdr, in_msg, in_left, in_skip,
                 in_seq, userVars, used, histVars>>

\* prepare_write_ack(), or prepare_write_keepalive() when no ack is due.
PrepareWriteControl ==
  /\ DoNext /\ state = "OPEN" /\ out_queue = <<>>
  /\ AckDue \/ "KEEPALIVE_PENDING" \in flags
  /\ out_msg' = NoMsg
  /\ out_kvec' = <<IF AckDue THEN AckTok ELSE Tok("keepalive", 0, 0)>>
  /\ in_seq_acked' = IF AckDue THEN in_seq ELSE in_seq_acked
  /\ flags' = (IF AckDue THEN flags ELSE flags \ {"KEEPALIVE_PENDING"})
              \cup {"WRITE_PENDING"}
  /\ UNCHANGED <<state, work, pc, delay, auth_retry, connect_seq, out_connect,
                 sockVars, outVars, out_msg_done, out_kvec_is_msg, out_skip,
                 in_tag, in_hdr, in_msg, in_left, in_skip, in_seq, userVars,
                 used, histVars>>

\* Nothing to do: WRITE_PENDING is cleared after KEEPALIVE_PENDING was seen
\* clear, and a caller may set the one in between.
NothingToDo ==
  /\ DoNext
  /\ state = "OPEN" => out_queue = <<>> /\ ~AckDue /\ "KEEPALIVE_PENDING" \notin flags
  /\ out_msg' = NoMsg
  /\ Goto("write_done")
  /\ UNCHANGED <<sockVars, outVars, out_msg_done, out_kvec, out_kvec_is_msg,
                 out_skip, inVars, userVars, used, histVars>>

WriteDone ==
  /\ pc = "write_done"
  /\ flags' = flags \ {"WRITE_PENDING"} /\ pc' = "idle"
  /\ UNCHANGED <<state, work, delay, auth_retry, connect_seq, out_connect,
                 sockVars, outVars, msgVars, inVars, userVars, used, histVars>>

WriteNext ==
  \/ ceph_tcp_connect \/ ConnectError
  \/ WriteBlocked \/ WriteError \/ WriteNoSocket
  \/ write_partial_skip \/ write_partial_kvec \/ write_partial_message_data
  \/ prepare_write_message \/ PrepareWriteControl \/ NothingToDo \/ WriteDone

con_work ==
  \/ ConWorkStart \/ con_sock_closed \/ con_backoff \/ ConWorkGo \/ con_fault_finish
  \/ ReadNext
  \/ WriteNext

ConNext == UserNext \/ con_work

=============================================================================
