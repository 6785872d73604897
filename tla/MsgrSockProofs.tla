-------------------------- MODULE MsgrSockProofs --------------------------
(***************************************************************************)
(* con->sock and con->state agree, for any number of messages and events.   *)
(* SocketMatchesState is not inductive: a fault is only harmless when the   *)
(* connection is not CLOSED, which the worker knows from SOCK_CLOSED, from  *)
(* the state it last looked at, or, after get_authorizer(), not at all.     *)
(* Hence the assumption on "authfail" and "close": get_connect_authorizer() *)
(* returns an error before it looks at con->state again, so an authorizer   *)
(* that fails while the owner closes the connection breaks the invariant.   *)
(***************************************************************************)
EXTENDS MsgrSession, TLAPS

AuthPc == {"auth_first", "auth_more", "auth_reset"}

\* While get_authorizer() runs the connection is being negotiated.
AuthNegotiates == pc \in AuthPc /\ "authfail" \in May => state = "NEGOTIATING"

\* SOCK_CLOSED is about the socket the connection has.
ClosedFlagHasSocket == "SOCK_CLOSED" \in flags => tcp \in {"fin", "rst"}

\* A half-read message belongs to an open connection, or to a lossy one that
\* failed and that its owner has still to close.
InMsgHeld == in_msg # NoMsg => state = "OPEN" \/ (state = "CLOSED" /\ user_open)

SockInv ==
  /\ SocketMatchesState /\ ClosedStaysClosed
  /\ AuthNegotiates /\ ClosedFlagHasSocket /\ InMsgHeld

\* A step that changes none of what SockInv is about.
LEMMA Quiet ==
  ASSUME SockInv, UNCHANGED <<state, tcp, in_msg, user_open>>,
         "SOCK_CLOSED" \in flags' => "SOCK_CLOSED" \in flags,
         pc' \in AuthPc => pc \in AuthPc \/ state = "NEGOTIATING"
  PROVE  SockInv'
BY DEF SockInv, SocketMatchesState, ClosedStaysClosed, AuthNegotiates, ClosedFlagHasSocket, InMsgHeld

\* con_fault() of a connection that is not CLOSED.
LEMMA FaultKeepsSock ==
  ASSUME SockInv, NEW q, NEW u, con_fault(q, u), state # "CLOSED", user_open' = user_open
  PROVE  SockInv'
<1>1. user_open
  BY DEF SockInv, ClosedStaysClosed
<1>2. /\ tcp' = "none" /\ pc' \notin AuthPc /\ state' \in {"CLOSED", "STANDBY", "PREOPEN"}
      /\ state' # "CLOSED" => in_msg' = NoMsg
      /\ "SOCK_CLOSED" \notin flags'
  BY DEF con_fault, con_close_socket, StandbyFlags, AuthPc
<1> QED BY <1>1, <1>2 DEF SockInv, SocketMatchesState, ClosedStaysClosed, AuthNegotiates,
           ClosedFlagHasSocket, InMsgHeld, Connected

\* The calls of the upper layers.
LEMMA UserKeepsSock ==
  ASSUME SockInv, UserNext, "authfail" \notin May \/ "close" \notin May
  PROVE  SockInv'
<1> USE DEF SockInv, SocketMatchesState, ClosedStaysClosed, AuthNegotiates, ClosedFlagHasSocket,
            InMsgHeld
<1>1. CASE ceph_con_open
  BY <1>1 DEF ceph_con_open, Connected, inVars, sockVars
<1>2. CASE ceph_con_close
  BY <1>2 DEF ceph_con_close, ClosedFlags, Connected, con_close_socket, reset_connection, Happens
<1>3. CASE ceph_con_send \/ ceph_con_keepalive
  <2>1. UNCHANGED <<tcp, in_msg, user_open, pc>>
    BY <1>3, Zenon DEF ceph_con_send, ceph_con_keepalive, sockVars, inVars
  <2>2. "SOCK_CLOSED" \in flags' => "SOCK_CLOSED" \in flags
    BY <1>3 DEF ceph_con_send, ceph_con_keepalive, SetWritePending, SetKeepalivePending
  <2>3. state' = state \/ (state = "STANDBY" /\ state' = "PREOPEN")
    BY <1>3, Zenon DEF ceph_con_send, ceph_con_keepalive, clear_standby
  <2> QED BY <2>1, <2>2, <2>3 DEF Connected
<1>4. CASE FinishSend \/ FinishKeepalive
  <2>1. UNCHANGED <<state, tcp, in_msg, user_open, pc>>
    BY <1>4, Zenon DEF FinishSend, FinishKeepalive, sockVars, inVars
  <2>2. "SOCK_CLOSED" \in flags' => "SOCK_CLOSED" \in flags
    BY <1>4 DEF FinishSend, FinishKeepalive, SetWritePending, SetKeepalivePending
  <2> QED BY <2>1, <2>2
<1>5. ASSUME NEW m \in 1..NumMsgs, ceph_msg_revoke(m) PROVE SockInv'
  BY <1>5, Quiet, Zenon DEF ceph_msg_revoke, conVars, sockVars, inVars, userVars
<1>6. CASE ceph_msg_revoke_incoming
  <2>1. UNCHANGED <<state, tcp, user_open, pc, flags>> /\ in_msg' = NoMsg
    BY <1>6, Zenon DEF ceph_msg_revoke_incoming, conVars, sockVars, userVars
  <2> QED BY <2>1
<1> QED BY <1>1, <1>2, <1>3, <1>4, <1>5, <1>6 DEF UserNext

\* try_read() and the head of con_work()'s loop.
LEMMA ReadKeepsSock ==
  ASSUME SockInv,
         \/ ConWorkStart \/ con_sock_closed \/ con_backoff \/ ConWorkGo \/ con_fault_finish
         \/ ReadNext
  PROVE  SockInv'
<1> USE DEF SockInv, SocketMatchesState, ClosedStaysClosed, AuthNegotiates, ClosedFlagHasSocket,
            InMsgHeld
<1>1. CASE ConWorkStart \/ con_backoff \/ ConWorkGo \/ con_fault_finish \/ ReadNothing
  <2>1. UNCHANGED <<state, tcp, in_msg, user_open>>
    BY <1>1, Zenon DEF ConWorkStart, con_backoff, ConWorkGo, con_fault_finish, ReadNothing, Goto,
       sockVars, inVars, userVars
  <2>2. /\ "SOCK_CLOSED" \in flags' => "SOCK_CLOSED" \in flags
        /\ pc' \notin AuthPc
    BY <1>1 DEF ConWorkStart, con_backoff, ConWorkGo, con_fault_finish, ReadNothing, Goto, AuthPc
  <2> QED BY <2>1, <2>2, Quiet, Zenon
<1>2. CASE con_sock_closed
  <2>1. state # "CLOSED"
    BY <1>2 DEF con_sock_closed, Connected
  <2> QED BY <1>2, <2>1, FaultKeepsSock, Zenon DEF con_sock_closed, Fault, userVars
<1>3. CASE ReadError \/ WrongPeer \/ ReplyWait \/ ReadBad
  <2>1. state # "CLOSED"
    BY <1>3 DEF ReadError, WrongPeer, ReplyWait, ReadBad, Reply, MayRead, Connected
  <2> QED BY <1>3, <2>1, FaultKeepsSock, Zenon
          DEF ReadError, WrongPeer, ReplyWait, ReadBad, Fault, userVars
<1>4. CASE AuthorizerError
  <2>1. state = "NEGOTIATING"
    BY <1>4, Zenon DEF AuthorizerError, Happens, AuthPc
  <2> QED BY <1>4, <2>1, FaultKeepsSock, Zenon DEF AuthorizerError, Fault, userVars
<1>5. CASE AllocNoMemory
  BY <1>5, FaultKeepsSock, Zenon DEF AllocNoMemory, Fault, userVars
<1>6. CASE ReplyReject
  BY <1>6, FaultKeepsSock, Zenon DEF ReplyReject, Reply, MayRead, userVars
<1>7. CASE ReplyBadAuthorizer
  <2>1. state = "NEGOTIATING" /\ user_open' = user_open
    BY <1>7, Zenon DEF ReplyBadAuthorizer, Reply, MayRead, userVars
  <2>2. CASE auth_retry + 1 = 2
    BY <1>7, <2>1, <2>2, FaultKeepsSock, Zenon DEF ReplyBadAuthorizer
  <2>3. CASE auth_retry + 1 # 2
    BY <1>7, <2>1, <2>3, Quiet, Zenon DEF ReplyBadAuthorizer, Take
  <2> QED BY <2>2, <2>3
<1>8. CASE process_banner
  <2>1. /\ state = "CONNECTING" /\ state' = "NEGOTIATING"
        /\ UNCHANGED <<tcp, flags, in_msg, user_open>>
    BY <1>8, Zenon DEF process_banner, MayRead, Take, inVars, userVars
  <2> QED BY <2>1 DEF Connected
<1>9. CASE GotAuthorizer
  <2>1. UNCHANGED <<state, tcp, in_msg, user_open>>
    BY <1>9, Zenon DEF GotAuthorizer, sockVars, inVars, userVars
  <2>2. "SOCK_CLOSED" \in flags' => "SOCK_CLOSED" \in flags
    BY <1>9 DEF GotAuthorizer
  <2> QED BY <1>9, <2>1, <2>2, Quiet, Zenon DEF GotAuthorizer, AfterAuth, AuthPc
<1>10. CASE PeerResetDone \/ ReadFront \/ ReadSkip \/ ReadHdrOld \/ ReadHdr \/ AllocSkip \/ DispatchDone
            \/ process_ack
  <2>1. UNCHANGED <<state, tcp, in_msg, user_open, flags>>
    BY <1>10, Zenon DEF PeerResetDone, ReadFront, ReadSkip, ReadHdrOld, ReadHdr, AllocSkip, DispatchDone,
       process_ack, Goto, Take, conVars, sockVars, inVars, userVars
  <2>2. pc' \notin AuthPc
    BY <1>10, Zenon DEF PeerResetDone, ReadFront, ReadSkip, ReadHdrOld, ReadHdr, AllocSkip, DispatchDone,
       process_ack, Goto, conVars, AuthPc, Body, ReadTag, MayRead
  <2> QED BY <2>1, <2>2, Quiet, Zenon
<1>11. CASE ReplyResetSession
  <2>1. UNCHANGED <<state, tcp, user_open, flags>> /\ in_msg' = NoMsg /\ state = "NEGOTIATING"
    BY <1>11, Zenon DEF ReplyResetSession, Reply, MayRead, Take, reset_connection, userVars
  <2> QED BY <2>1
<1>12. CASE ReplyRetry
  <2>1. UNCHANGED <<state, tcp, user_open, flags, in_msg>> /\ state = "NEGOTIATING"
    BY <1>12, Zenon DEF ReplyRetry, Reply, MayRead, Take, inVars, userVars
  <2> QED BY <2>1, Quiet, Zenon
<1>13. CASE ReplyReady
  <2>1. UNCHANGED <<tcp, user_open, in_msg, pc>> /\ state = "NEGOTIATING" /\ state' = "OPEN" /\ pc = "read"
    BY <1>13, Zenon DEF ReplyReady, Reply, MayRead, Take, inVars, userVars
  <2>2. "SOCK_CLOSED" \in flags' => "SOCK_CLOSED" \in flags
    BY <1>13 DEF ReplyReady
  <2> QED BY <2>1, <2>2 DEF Connected, AuthPc
<1>14. CASE AllocMsg
  <2>1. UNCHANGED <<state, tcp, user_open, flags>> /\ pc' \notin AuthPc
        /\ (state = "OPEN" \/ in_msg' = in_msg)
    BY <1>14, Zenon DEF AllocMsg, sockVars, userVars, AuthPc
  <2> QED BY <2>1
<1>15. CASE process_message
  <2>1. UNCHANGED <<state, tcp, user_open, flags>> /\ pc' \notin AuthPc /\ in_msg' = NoMsg
    BY <1>15, Zenon DEF process_message, Goto, Take, userVars, AuthPc
  <2> QED BY <2>1
<1>16. CASE ReadClose
  <2>1. /\ tcp' = "none" /\ state' = "CLOSED" /\ state = "OPEN" /\ pc' \notin AuthPc
        /\ UNCHANGED <<user_open, in_msg>>
    BY <1>16, Zenon DEF ReadClose, con_close_socket, ReadTag, MayRead, inVars, userVars, AuthPc
  <2>2. "SOCK_CLOSED" \notin flags'
    BY <1>16 DEF ReadClose
  <2> QED BY <2>1, <2>2 DEF Connected
<1> QED BY <1>1, <1>2, <1>3, <1>4, <1>5, <1>6, <1>7, <1>8, <1>9, <1>10, <1>11, <1>12, <1>13, <1>14,
           <1>15, <1>16, Zenon DEF ReadNext

\* try_write().
LEMMA WriteKeepsSock ==
  ASSUME SockInv, WriteNext
  PROVE  SockInv'
<1> USE DEF SockInv, SocketMatchesState, ClosedStaysClosed, AuthNegotiates, ClosedFlagHasSocket,
            InMsgHeld
<1>1. CASE ceph_tcp_connect
  <2>1. /\ tcp' = "syn" /\ state' = "CONNECTING" /\ state = "PREOPEN" /\ pc = "write"
        /\ UNCHANGED <<user_open, in_msg, pc>>
    BY <1>1, Zenon DEF ceph_tcp_connect, Connecting, userVars
  <2>2. "SOCK_CLOSED" \in flags' => "SOCK_CLOSED" \in flags
    BY <1>1 DEF ceph_tcp_connect
  <2> QED BY <2>1, <2>2 DEF Connected, AuthPc
<1>2. CASE ConnectError
  BY <1>2, FaultKeepsSock, Zenon DEF ConnectError, Connecting, userVars
<1>3. CASE WriteError
  <2>1. state # "CLOSED"
    BY <1>3 DEF WriteError, Connected
  <2> QED BY <1>3, <2>1, FaultKeepsSock, Zenon DEF WriteError, Fault, userVars
<1>4. CASE ~(ceph_tcp_connect \/ ConnectError \/ WriteError)
  <2>1. UNCHANGED <<state, tcp, in_msg, user_open>> /\ pc' \notin AuthPc
    BY <1>4, Zenon DEF WriteNext, WriteBlocked, WriteNoSocket, write_partial_skip, write_partial_kvec,
       write_partial_message_data, prepare_write_message, PrepareWriteControl, NothingToDo, WriteDone,
       WantsWrite, DoNext, Put, Goto, conVars, sockVars, inVars, userVars, AuthPc
  <2>2. "SOCK_CLOSED" \in flags' => "SOCK_CLOSED" \in flags
    <3>1. \/ flags' = flags
          \/ flags' = flags \cup {"WRITE_PENDING"}
          \/ flags' = (flags \ {"KEEPALIVE_PENDING"}) \cup {"WRITE_PENDING"}
          \/ flags' = flags \ {"WRITE_PENDING"}
      BY <1>4, Zenon DEF WriteNext, WriteBlocked, WriteNoSocket, write_partial_skip,
         write_partial_kvec, write_partial_message_data, prepare_write_message,
         PrepareWriteControl, NothingToDo, WriteDone, Goto, conVars
    <3> QED BY <3>1
  <2> QED BY <2>1, <2>2, Quiet, Zenon
<1> QED BY <1>1, <1>2, <1>3, <1>4, Zenon DEF WriteNext

\* The network and the peer.
LEMMA PeerKeepsSock ==
  ASSUME SockInv, PeerNext
  PROVE  SockInv'
<1>1. UNCHANGED <<state, in_msg, user_open, pc>>
  BY Zenon DEF PeerNext, PeerRx, TcpEstablished, TcpReset, PeerRestart, PeerHangup, PeerTx, PeerNewMsg,
     PeerSend, PeerTagClose, PeerBanner, PeerNotConnect, PeerRefuse, PeerResetSession,
     PeerRetrySession, PeerOpen, PeerReopen, PeerSeq, PeerTag, PeerData, PeerFooter, Answer, Consume,
     Hangup, PeerClose, PeerUnchanged, inVars, userVars
<1>2. \/ tcp' = tcp /\ flags' = flags
      \/ tcp = "syn" /\ tcp' = "est" /\ flags' = flags
      \/ tcp \in {"syn", "est"} /\ tcp' \in {"fin", "rst"}
  BY Zenon DEF PeerNext, PeerRx, TcpEstablished, TcpReset, PeerRestart, PeerHangup, PeerTx, PeerNewMsg,
     PeerSend, PeerTagClose, PeerBanner, PeerNotConnect, PeerRefuse, PeerResetSession,
     PeerRetrySession, PeerOpen, PeerReopen, PeerSeq, PeerTag, PeerData, PeerFooter, Answer, Consume,
     Hangup, PeerClose, CanRx, sockVars
<1> QED BY <1>1, <1>2 DEF SockInv, SocketMatchesState, ClosedStaysClosed, AuthNegotiates,
           ClosedFlagHasSocket, InMsgHeld

\* con->sock exists exactly in the states that use it, and no half-read message
\* survives into a new connection attempt, however calls, faults, answers of
\* the peer and socket callbacks interleave: the BUG_ONs of try_read(),
\* try_write() and ceph_tcp_connect() cannot fire, and a connection that was
\* closed stays closed (the WARN_ON of ceph_con_open()).
THEOREM SocketCorrect ==
  ASSUME "authfail" \notin May \/ "close" \notin May
  PROVE  Spec => [](SocketMatchesState /\ ClosedStaysClosed)
<1>1. Init => SockInv
  BY DEF Init, ConInit, SockInv, SocketMatchesState, ClosedStaysClosed, AuthNegotiates,
     ClosedFlagHasSocket, InMsgHeld, Connected, AuthPc
<1>2. SockInv /\ [Next]_sysVars => SockInv'
  <2> SUFFICES ASSUME SockInv, [Next]_sysVars PROVE SockInv'
    OBVIOUS
  <2>1. CASE ConNext
    BY <2>1, UserKeepsSock, ReadKeepsSock, WriteKeepsSock, Zenon DEF ConNext, con_work
  <2>2. CASE PeerNext
    BY <2>2, PeerKeepsSock
  <2>3. CASE UNCHANGED sysVars
    BY <2>3, Quiet, Zenon DEF sysVars, vars, conVars, sockVars, inVars, userVars
  <2> QED BY <2>1, <2>2, <2>3 DEF Next
<1>3. SockInv => SocketMatchesState /\ ClosedStaysClosed
  BY DEF SockInv
<1> QED BY <1>1, <1>2, <1>3, PTL DEF Spec

============================================================================
