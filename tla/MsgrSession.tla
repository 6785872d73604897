---------------------------- MODULE MsgrSession ----------------------------
(***************************************************************************)
(* A connection of module Messenger, the network and its peer, a monitor,   *)
(* OSD or MDS.  The peer is not part of the repository: it is modelled by   *)
(* what messenger.c relies on, the handshake of process_connect() with its  *)
(* session numbers, acks, and resending what was not acked.                 *)
(*                                                                          *)
(* A step of the peer or of the network includes the socket callback it     *)
(* causes on the client: ceph_sock_state_change(), ceph_sock_data_ready()   *)
(* or ceph_sock_write_space().                                              *)
(***************************************************************************)
EXTENDS Messenger

CONSTANTS
  Lossy,          \* what a peer's policy may be: does it set CEPH_MSG_CONNECT_LOSSY?
  MaxConnectSeq   \* a bound on the reconnections of a session

ASSUME SessionAssumption == Lossy \subseteq BOOLEAN /\ MaxConnectSeq \in Nat

VARIABLES
  p_lossy,    \* the peer's policy, which never changes
  p_state,    \* what it waits for: "hello", "accept" (connect), "seq", "open"
  p_tx,       \* tokens the peer has still to send
  p_rx,       \* the message being received and what is due of it
  p_cseq,     \* connect_seq of the peer's session; 0: it has no session
  p_sess,     \* history: the client session it belongs to
  p_in_seq,   \* seq of the last message it took
  p_out,      \* messages it has sent in the session, 1..p_out
  p_next,     \* those it has sent on this TCP connection or need not send
  p_acked,    \* those the client has acked
  delivered,  \* history: messages delivered in the session
  ever        \* history: all messages ever delivered

peerVars == <<p_state, p_tx, p_rx, p_cseq, p_sess, p_in_seq, p_out, p_next, p_acked,
              delivered, ever, p_lossy>>
sysVars == <<vars, peerVars>>

NoRx == [m |-> NoMsg, s |-> 0, due |-> <<>>, ok |-> TRUE]

Init ==
  /\ ConInit
  /\ p_lossy \in Lossy
  /\ p_state = "hello" /\ p_tx = <<>> /\ p_rx = NoRx
  /\ p_cseq = 0 /\ p_sess = 0 /\ p_in_seq = 0 /\ p_out = 0 /\ p_next = 0 /\ p_acked = 0
  /\ delivered = <<>> /\ ever = {}

----------------------------------------------------------------------------
(* Socket callbacks.                                                        *)

ceph_sock_data_ready == work' = TRUE

\* Queue work if something waits to be written and the socket was full.
ceph_sock_write_space ==
  IF nospace /\ "WRITE_PENDING" \in flags
  THEN work' = TRUE /\ nospace' = FALSE
  ELSE UNCHANGED <<work, nospace>>

\* TCP_CLOSE or TCP_CLOSE_WAIT
ceph_sock_state_change ==
  /\ flags' = flags \cup {"SOCK_CLOSED"}
  /\ work' = TRUE

\* What no step of the peer or the network changes.
PeerUnchanged ==
  UNCHANGED <<state, pc, delay, auth_retry, connect_seq, out_connect, outVars,
              msgVars, inVars, userVars, histVars, p_lossy>>

----------------------------------------------------------------------------
(* The network.                                                             *)

\* The TCP connection is established and the peer greets.
TcpEstablished ==
  /\ tcp = "syn" /\ connect_seq < MaxConnectSeq
  /\ tcp' = "est"
  /\ work' = TRUE
  /\ \/ p_tx' = <<Tok("banner", 1, 0)>> /\ UNCHANGED used
     \/ p_tx' = <<Tok("banner", 0, 0)>> /\ Happens("wrongpeer")
  /\ p_state' = "hello" /\ p_rx' = NoRx
  /\ PeerUnchanged
  /\ UNCHANGED <<flags, nospace, c2s, s2c, p_cseq, p_sess, p_in_seq, p_out, p_next, p_acked,
                 delivered, ever>>

\* The connection breaks.  What the client has not read is lost or not.
TcpReset ==
  /\ tcp \in {"syn", "est"} /\ Happens("fault")
  /\ tcp' = "rst" /\ c2s' = <<>> /\ s2c' \in {<<>>, s2c}
  /\ ceph_sock_state_change
  /\ PeerUnchanged
  /\ UNCHANGED <<nospace, peerVars>>

\* The peer's end of the connection is closed.
PeerClose ==
  /\ tcp' = "fin" /\ c2s' = <<>>
  /\ ceph_sock_state_change
  /\ PeerUnchanged
  /\ UNCHANGED <<nospace, s2c>>

ForgetSession ==
  /\ p_cseq' = 0 /\ p_sess' = 0 /\ p_in_seq' = 0 /\ p_out' = 0 /\ p_next' = 0 /\ p_acked' = 0
  /\ p_rx' = NoRx /\ delivered' = <<>>

\* The peer restarts and has no memory of the session.
PeerRestart ==
  /\ p_cseq > 0 /\ Happens("restart")
  /\ ForgetSession
  /\ p_tx' = <<>>
  /\ IF tcp = "est" THEN PeerClose
     ELSE PeerUnchanged /\ UNCHANGED <<sockVars, flags, work>>
  /\ UNCHANGED <<p_state, ever>>

----------------------------------------------------------------------------
(* The peer sends.                                                          *)

PeerTx ==
  /\ tcp = "est" /\ p_tx # <<>>
  /\ s2c' = Append(s2c, Head(p_tx)) /\ p_tx' = Tail(p_tx)
  /\ ceph_sock_data_ready
  /\ PeerUnchanged
  /\ UNCHANGED <<flags, tcp, nospace, c2s, used, p_state, p_rx, p_cseq, p_sess,
                 p_in_seq, p_out, p_next, p_acked, delivered, ever>>

MsgToks(i) == <<Tok("mhdr", i, i), Tok("mfront", i, 0), Tok("mdata", i, 0)>>

PeerNewMsg ==
  /\ tcp = "est" /\ p_state = "open" /\ Happens("inmsg")
  /\ p_out' = p_out + 1
  /\ PeerUnchanged
  /\ UNCHANGED <<sockVars, flags, work, p_state, p_tx, p_rx, p_cseq, p_sess, p_in_seq,
                 p_next, p_acked, delivered, ever>>

\* The next message, a new one or one that was not acked before a fault.
PeerSend ==
  /\ tcp = "est" /\ p_state = "open" /\ p_tx = <<>> /\ p_next < p_out
  /\ p_next' = p_next + 1 /\ p_tx' = MsgToks(p_next + 1)
  /\ PeerUnchanged
  /\ UNCHANGED <<sockVars, flags, work, used, p_state, p_rx, p_cseq, p_sess, p_in_seq,
                 p_out, p_acked, delivered, ever>>

\* The peer ends the session and tells the client to close.
PeerTagClose ==
  /\ tcp = "est" /\ p_state = "open" /\ p_tx = <<>> /\ Happens("tagclose")
  /\ p_state' = "closed" /\ p_tx' = <<Tok("close", 0, 0)>>
  /\ ForgetSession
  /\ PeerUnchanged
  /\ UNCHANGED <<sockVars, flags, work, ever>>

----------------------------------------------------------------------------
(* The peer receives, one token a step, when it has sent what it had to.    *)

Got == Head(c2s)
CanRx(st) == tcp = "est" /\ p_state = st /\ p_tx = <<>> /\ c2s # <<>>

\* It consumes the token, which makes room in the client's send buffer.
Consume ==
  /\ c2s' = Tail(c2s)
  /\ ceph_sock_write_space
  /\ PeerUnchanged
  /\ UNCHANGED <<flags, tcp, s2c>>

\* It does not understand the stream.
Hangup ==
  /\ PeerClose
  /\ p_tx' = <<>> /\ p_rx' = NoRx
  /\ UNCHANGED <<p_state, p_cseq, p_sess, p_in_seq, p_out, p_next, p_acked, delivered, ever>>

PeerBanner ==
  /\ CanRx("hello") /\ Got.t = "banner"
  /\ Consume
  /\ p_state' = "accept"
  /\ UNCHANGED <<used, p_tx, p_rx, p_cseq, p_sess, p_in_seq, p_out, p_next, p_acked,
                 delivered, ever>>

\* Replies that leave the session alone; n is a connect_seq.
Answer(tag, n) ==
  /\ Consume
  /\ p_tx' = <<Tok(tag, 0, n)>>
  /\ UNCHANGED <<p_state, p_rx, p_cseq, p_sess, p_in_seq, p_out, p_next, p_acked, delivered,
                 ever>>

\* Bytes that are no connect request: a bad protocol version, or nothing at all.
PeerNotConnect ==
  /\ CanRx("accept") /\ Got.t # "connect"
  /\ Answer("REJECT", 0) \/ Hangup
  /\ UNCHANGED used

PeerRefuse ==
  /\ CanRx("accept") /\ Got.t = "connect"
  /\ \/ Answer("BADAUTHORIZER", 0) /\ Happens("badauth")
     \/ Answer("RETRY_GLOBAL", 0) /\ Happens("gretry")
     \/ (Answer("REJECT", 0) \/ Answer("WAIT", 0)) /\ Happens("reject")

Ready(tag) == Tok(tag, IF p_lossy THEN 1 ELSE 0, Got.n + 1)

\* It lost the session, or the client tries again with an old connect_seq.
PeerResetSession ==
  /\ CanRx("accept") /\ Got.t = "connect"
  /\ ~p_lossy /\ p_cseq = 0 /\ Got.n > 0
  /\ Answer("RESETSESSION", 0)
  /\ UNCHANGED used

PeerRetrySession ==
  /\ CanRx("accept") /\ Got.t = "connect"
  /\ ~p_lossy /\ Got.n > 0 /\ Got.n <= p_cseq
  /\ Answer("RETRY_SESSION", p_cseq + 1)
  /\ UNCHANGED used

\* A client without a session, or one that reset its own.
PeerOpen ==
  /\ CanRx("accept") /\ Got.t = "connect"
  /\ p_lossy \/ Got.n = 0
  /\ Consume
  /\ p_state' = "open" /\ p_tx' = <<Ready("READY")>> /\ p_rx' = NoRx
  /\ p_cseq' = Got.n + 1 /\ p_sess' = Got.a
  /\ p_in_seq' = 0 /\ p_out' = 0 /\ p_next' = 0 /\ p_acked' = 0 /\ delivered' = <<>>
  /\ UNCHANGED <<used, ever>>

\* A client that comes back to its session: with the exchange of sequence
\* numbers (CEPH_FEATURE_RECONNECT_SEQ) or without.
PeerReopen ==
  /\ CanRx("accept") /\ Got.t = "connect"
  /\ ~p_lossy /\ p_cseq > 0 /\ Got.n > p_cseq
  /\ Consume
  /\ \/ p_state' = "open" /\ p_tx' = <<Ready("READY")>>
     \/ p_state' = "seq" /\ p_tx' = <<Ready("SEQ"), Tok("seq", 0, p_in_seq)>>
  /\ p_cseq' = Got.n + 1 /\ p_next' = p_acked
  /\ UNCHANGED <<used, p_rx, p_sess, p_in_seq, p_out, p_acked, delivered, ever>>

PeerSeq ==
  /\ CanRx("seq")
  /\ IF Got.t = "seq"
     THEN /\ Consume
          /\ p_state' = "open" /\ p_acked' = Got.n /\ p_next' = Got.n
          /\ UNCHANGED <<p_tx, p_rx, p_cseq, p_sess, p_in_seq, p_out, delivered, ever>>
     ELSE Hangup
  /\ UNCHANGED used

\* A tag: a message begins, an ack, a keepalive, or junk.
PeerTag ==
  /\ CanRx("open") /\ p_rx = NoRx
  /\ IF Got.t \in {"hdr", "ack", "keepalive"}
     THEN /\ Consume
          /\ p_rx' = IF Got.t = "hdr"
                     THEN [m |-> Got.a, s |-> Got.n, ok |-> TRUE,
                           due |-> IF Got.a \in HasData THEN <<"data", "footer">>
                                   ELSE <<"footer">>]
                     ELSE NoRx
          /\ p_acked' = IF Got.t = "ack" THEN Got.n ELSE p_acked
          /\ UNCHANGED <<p_state, p_tx, p_cseq, p_sess, p_in_seq, p_out, p_next,
                         delivered, ever>>
     ELSE Hangup
  /\ UNCHANGED used

\* The payload, whatever the bytes are.
PeerData ==
  /\ CanRx("open") /\ p_rx.due = <<"data", "footer">>
  /\ Consume
  /\ p_rx' = [p_rx EXCEPT !.due = <<"footer">>, !.ok = (Got = Tok("data", p_rx.m, 0))]
  /\ UNCHANGED <<used, p_state, p_tx, p_cseq, p_sess, p_in_seq, p_out, p_next, p_acked,
                 delivered, ever>>

\* The footer: a message is delivered unless it is an old one; without
\* CEPH_MSG_FOOTER_COMPLETE it is dropped; a bad checksum ends the connection.
PeerFooter ==
  /\ CanRx("open") /\ p_rx.due = <<"footer">>
  /\ IF Got.t = "zero" \/ (p_rx.ok /\ Got = Tok("footer", p_rx.m, 0))
     THEN /\ Consume
          /\ p_rx' = NoRx
          /\ IF Got.t # "zero" /\ p_rx.s > p_in_seq
             THEN /\ p_in_seq' = p_rx.s
                  /\ delivered' = Append(delivered, p_rx.m)
                  /\ ever' = ever \cup {p_rx.m}
                  /\ p_tx' = <<Tok("ack", 0, p_rx.s)>>
             ELSE UNCHANGED <<p_in_seq, delivered, ever, p_tx>>
          /\ UNCHANGED <<p_state, p_cseq, p_sess, p_out, p_next, p_acked>>
     ELSE Hangup
  /\ UNCHANGED used

PeerRx ==
  \/ PeerBanner \/ PeerNotConnect \/ PeerRefuse \/ PeerResetSession \/ PeerRetrySession
  \/ PeerOpen \/ PeerReopen \/ PeerSeq \/ PeerTag \/ PeerData \/ PeerFooter

\* The peer hangs up of its own accord.
PeerHangup ==
  /\ tcp = "est" /\ Happens("fault")
  /\ Hangup

PeerNext ==
  \/ TcpEstablished \/ TcpReset \/ PeerRestart \/ PeerHangup
  \/ PeerTx \/ PeerNewMsg \/ PeerSend \/ PeerTagClose
  \/ PeerRx

Next ==
  \/ ConNext /\ UNCHANGED peerVars
  \/ PeerNext

Spec == Init /\ [][Next]_sysVars

----------------------------------------------------------------------------
(* Properties.                                                              *)

Range_(q) == {q[i] : i \in 1..Len(q)}

Kinds == {"banner", "connect", "seq", "hdr", "data", "footer", "zero", "ack", "keepalive",
          "mhdr", "mfront", "mdata", "close", "REJECT", "BADAUTHORIZER", "RESETSESSION",
          "RETRY_SESSION", "RETRY_GLOBAL", "READY", "SEQ", "WAIT"}
Token == [t : Kinds, a : Nat, n : Nat]
DueKinds == {<<>>, <<"footer">>, <<"data", "footer">>}

ConType ==
  /\ state \in States /\ flags \subseteq Flags /\ work \in BOOLEAN
  /\ pc \in Locked \cup Unlocked \cup {"oops"}
  /\ delay \in Nat /\ auth_retry \in Nat /\ connect_seq \in Nat /\ out_connect \in Nat
SockType ==
  /\ tcp \in {"none", "syn", "est", "fin", "rst"} /\ nospace \in BOOLEAN
  /\ c2s \in Seq(Token) /\ s2c \in Seq(Token)
OutType ==
  /\ out_queue \in Seq(1..NumMsgs) /\ out_sent \in Seq(1..NumMsgs)
  /\ out_seq \in Nat /\ seq \in [1..NumMsgs -> Nat]
MsgType ==
  /\ out_msg \in 0..NumMsgs /\ out_msg_done \in BOOLEAN
  /\ out_kvec \in Seq(Token) /\ out_kvec_is_msg \in BOOLEAN /\ out_skip \in Nat
InType ==
  /\ in_tag \in {"READY", "MSG", "SEQ"} /\ in_hdr \in Nat /\ in_msg \in Nat
  /\ in_left \in 0..2 /\ in_skip \in 0..2 /\ in_seq \in Nat /\ in_seq_acked \in Nat
UserType ==
  /\ tails \in [send : Nat, keepalive : Nat] /\ n_sent \in 0..NumMsgs
  /\ user_open \in BOOLEAN /\ used \in 0..MaxEvents
HistType ==
  /\ session \in Nat /\ sent \in Seq(1..NumMsgs) /\ received \in Seq(Nat)
  /\ revoked \subseteq 1..NumMsgs /\ untold \in BOOLEAN
PeerType ==
  /\ p_state \in {"hello", "accept", "seq", "open", "closed"} /\ p_tx \in Seq(Token)
  /\ p_rx \in [m : Nat, s : Nat, due : DueKinds, ok : BOOLEAN]
  /\ p_cseq \in Nat /\ p_sess \in Nat /\ p_in_seq \in Nat
  /\ p_out \in Nat /\ p_next \in Nat /\ p_acked \in Nat
  /\ delivered \in Seq(Nat) /\ ever \subseteq Nat

\* Every variable that changes has a value of its type; in particular the queues hold
\* submitted messages only, and what is skipped is never more than a message.
TypeOK ==
  ConType /\ SockType /\ OutType /\ MsgType /\ InType /\ UserType /\ HistType /\ PeerType

\* The BUG_ONs on con->sock in con_work(), try_read() and ceph_tcp_connect()
\* and the one on con->in_msg in try_write(): outside callbacks of the worker a
\* socket exists exactly in the states that use one, and no half-read message
\* survives into a new connection attempt.
SocketMatchesState ==
  /\ (tcp # "none") <=> (state \in Connected)
  /\ state \in {"PREOPEN", "CONNECTING", "NEGOTIATING"} => in_msg = NoMsg

\* "ordered and reliable delivery": what the peer was given in this session is
\* what was submitted, in that order, without a gap or a duplicate, but for
\* messages the caller revoked.  (Messages are numbered as they are submitted.)
DeliveredInOrder ==
  p_cseq > 0 /\ p_sess = session =>
    /\ \A i, j \in 1..Len(delivered) :
         i < j /\ {delivered[i], delivered[j]} \cap revoked = {} => delivered[i] < delivered[j]
    /\ \A m \in Range_(delivered) \ revoked :
         /\ m \in Range_(sent)
         /\ \A k \in Range_(sent) \ revoked : k < m => k \in Range_(delivered)

\* Incoming messages reach dispatch() in the order the peer sent them, each
\* once, whatever was resent after a fault: in_seq counts exactly those.
ReceivedInOrder ==
  /\ received = [i \in 1..in_seq |-> i]
  /\ in_seq_acked <= in_seq

\* The WARN_ON of process_connect(): the connect_seq of a READY or SEQ reply is
\* the next one of the client, whatever was retried or reset in between.
ConnectSeqsAgree ==
  state = "NEGOTIATING" /\ s2c # <<>> /\ Head(s2c).t \in {"READY", "SEQ"}
    => Head(s2c).n = connect_seq + 1

\* The worker has reset the session and peer_reset() is next.
Telling == untold /\ state = "NEGOTIATING" /\ pc \in {"auth_reset", "preset"}


\* "Tell ceph about it.": a session that the peer reset is not used again before
\* peer_reset() was called.
ToldBeforeUse == state = "OPEN" => ~untold

\* The WARN_ON of clear_standby(): a connection goes to STANDBY and stays there
\* without WRITE_PENDING, so that the next ceph_con_send() queues work.
StandbyIsQuiet == state = "STANDBY" => "WRITE_PENDING" \notin flags

\* "We tolerate TCP disconnects by reconnecting": when disconnects are all that
\* happens, no message is ever discarded by a reset of the session.
DisconnectsTolerated == session = 0

\* The WARN_ON of ceph_con_open(): a connection its owner closed stays CLOSED until it
\* opens it again, although the close may come while the worker has dropped con->mutex.
\* (Not when get_authorizer() fails at that point: its error is returned before
\* con->state is looked at, and con_fault() takes the connection to STANDBY.)
ClosedStaysClosed == ~user_open => state = "CLOSED"

\* Workqueue, network and peer make progress; no caller is obliged to call.
Fairness ==
  /\ WF_sysVars(con_work /\ UNCHANGED peerVars)
  /\ WF_sysVars(TcpEstablished) /\ WF_sysVars(PeerRx)
  /\ WF_sysVars(PeerTx) /\ WF_sysVars(PeerSend)

FairSpec == Spec /\ Fairness

\* Reliable delivery: a message that ceph_con_send() accepted reaches the peer
\* however the connection breaks in between, unless the session is reset.
EventuallyDelivered ==
  \A m \in 1..NumMsgs : m \in Range_(sent) ~> (m \in ever \/ m \notin Range_(sent))

----------------------------------------------------------------------------
\* The peer and the client mean the same session.
SessionUp == p_cseq > 0 /\ p_sess = session

Channel == INSTANCE ReliableChannel WITH
  Msg <- 1..NumMsgs, submitted <- sent, up <- SessionUp, once <- ever,
  delivered <- IF SessionUp THEN delivered ELSE <<>>

\* The connection and its peer implement a reliable channel: reconnecting,
\* requeueing and resending neither lose, reorder nor repeat a message.
ImplementsChannel == Channel!Spec
=============================================================================
