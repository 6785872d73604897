---------------------------- MODULE MsgrProofs ----------------------------
(***************************************************************************)
(* Proofs about MsgrSession, for every number of messages, every size of    *)
(* the send buffer, every backoff interval and any number of events.        *)
(***************************************************************************)
EXTENDS MsgrSession, TLAPS

\* list_del_init() leaves a list of messages.
LEMMA WithoutType ==
  ASSUME NEW S, NEW q \in Seq(S), NEW m
  PROVE  Without(q, m) \in Seq(S)
<1>1. CASE Holds(q, m)
  <2> DEFINE k == CHOOSE i \in 1..Len(q) : q[i] = m
  <2>1. k \in 1..Len(q)
    <3>1. \E i \in 1..Len(q) : q[i] = m
      BY <1>1 DEF Holds
    <3> QED BY <3>1
  <2>2. Without(q, m) = SubSeq(q, 1, k - 1) \o SubSeq(q, k + 1, Len(q))
    BY <1>1 DEF Without
  <2> HIDE DEF k
  <2>3. SubSeq(q, 1, k - 1) \in Seq(S) /\ SubSeq(q, k + 1, Len(q)) \in Seq(S)
    BY <2>1
  <2> QED BY <2>2, <2>3
<1>2. CASE ~Holds(q, m)
  BY <1>2 DEF Without
<1> QED BY <1>1, <1>2

\* The first message of a queue and what is left without it.
LEMMA HeadTailType ==
  ASSUME NEW S, NEW q \in Seq(S), q # <<>>
  PROVE  Head(q) \in S /\ Tail(q) \in Seq(S)
OBVIOUS

\* A queue with one more message.
LEMMA AppendType ==
  ASSUME NEW S, NEW q \in Seq(S), NEW e \in S
  PROVE  Append(q, e) \in Seq(S)
OBVIOUS

\* Tok() makes tokens.
LEMMA TokType ==
  ASSUME NEW t \in Kinds, NEW a \in Nat, NEW n \in Nat
  PROVE  Tok(t, a, n) \in Token
BY DEF Tok, Token

\* con_fault() keeps the types of what it assigns.
LEMMA FaultType ==
  ASSUME ConType, InType, NEW q \in Seq(1..NumMsgs), NEW u \in Seq(1..NumMsgs),
         con_fault(q, u), out_connect' = out_connect,
         auth_retry' \in Nat, connect_seq' \in Nat
  PROVE  /\ ConType' /\ SockType' /\ in_msg' \in Nat
         /\ out_queue' \in Seq(1..NumMsgs) /\ out_sent' \in Seq(1..NumMsgs)
<1>1. Requeue(q, u) \in Seq(1..NumMsgs) /\ <<>> \in Seq(1..NumMsgs) /\ <<>> \in Seq(Token)
  BY DEF Requeue
<1>2. Backoff \in Nat
  BY MessengerAssumption DEF Backoff, ConType
<1>3. work' \in BOOLEAN
  BY Zenon DEF ConType, con_fault
<1>4. in_msg' \in Nat /\ delay' \in Nat
  BY <1>2, 0 \in Nat, Zenon DEF ConType, InType, con_fault, NoMsg
<1>5. state' \in States /\ flags' \subseteq Flags
  BY DEF ConType, con_fault, States, Flags, StandbyFlags
<1>6. out_queue' \in Seq(1..NumMsgs) /\ out_sent' \in Seq(1..NumMsgs)
  BY <1>1, Zenon DEF con_fault
<1>7. pc' \in Unlocked
  BY DEF con_fault, Unlocked
<1>8. ConType'
  BY <1>3, <1>4, <1>5, <1>7, Zenon DEF ConType
<1>9. SockType'
  BY <1>1, Zenon DEF con_fault, con_close_socket, SockType
<1> QED BY <1>4, <1>6, <1>8, <1>9

\* Types of variables that a step leaves alone.
LEMMA Stutter ==
  /\ ConType /\ UNCHANGED conVars => ConType'
  /\ SockType /\ UNCHANGED sockVars => SockType'
  /\ OutType /\ UNCHANGED outVars => OutType'
  /\ MsgType /\ UNCHANGED msgVars => MsgType'
  /\ InType /\ UNCHANGED inVars => InType'
  /\ UserType /\ UNCHANGED userVars /\ UNCHANGED used => UserType'
  /\ HistType /\ UNCHANGED histVars => HistType'
  /\ PeerType /\ UNCHANGED peerVars => PeerType'
BY Zenon DEF ConType, SockType, OutType, MsgType, InType, UserType, HistType, PeerType,
       conVars, sockVars, outVars, msgVars, inVars, userVars, histVars, peerVars

\* An outside event stays within the bound on events.
LEMMA HappensType ==
  ASSUME UserType, NEW e, Happens(e)
  PROVE  used' \in 0..MaxEvents
BY MessengerAssumption DEF UserType, Happens

\* A step that ends in con_fault() keeps the types.
LEMMA FaultKeepsType ==
  ASSUME TypeOK, Fault, used' \in 0..MaxEvents, UNCHANGED peerVars
  PROVE  TypeOK'
<1>1. /\ con_fault(out_queue, out_sent) /\ connect_seq' \in Nat /\ auth_retry' \in Nat
      /\ out_connect' = out_connect
  BY Zenon DEF Fault, TypeOK, ConType
<1>2. out_queue \in Seq(1..NumMsgs) /\ out_sent \in Seq(1..NumMsgs)
  BY DEF TypeOK, OutType
<1>3. /\ ConType' /\ SockType' /\ in_msg' \in Nat
      /\ out_queue' \in Seq(1..NumMsgs) /\ out_sent' \in Seq(1..NumMsgs)
  BY <1>1, <1>2, FaultType, Zenon DEF TypeOK
<1>4. OutType'
  BY <1>3, Zenon DEF TypeOK, OutType, Fault
<1>5. InType'
  BY <1>3, Zenon DEF TypeOK, InType, Fault
<1>6. UserType'
  BY Zenon DEF TypeOK, UserType, Fault, userVars
<1> QED BY <1>3, <1>4, <1>5, <1>6, Stutter, Zenon DEF TypeOK, Fault

\* The calls of the upper layers keep the types.
LEMMA UserKeepsType ==
  ASSUME TypeOK, UserNext, UNCHANGED peerVars
  PROVE  TypeOK'
<1>1. CASE ceph_con_open
  <2>1. ConType' /\ UserType'
    BY <1>1, Zenon DEF TypeOK, ConType, UserType, ceph_con_open, States
  <2> QED BY <1>1, <2>1, Stutter, Zenon DEF TypeOK, ceph_con_open
<1>2. CASE ceph_con_close
  <2>1. used' \in 0..MaxEvents /\ session + 1 \in Nat /\ 0 \in Nat
        /\ <<>> \in Seq(1..NumMsgs) /\ <<>> \in Seq(Nat) /\ 0 \in 0..NumMsgs
    BY <1>2, HappensType, MessengerAssumption DEF TypeOK, HistType, ceph_con_close
  <2>2. ConType' /\ SockType'
    <3>1. ShutdownQueues \in BOOLEAN /\ flags \ ClosedFlags \subseteq Flags /\ <<>> \in Seq(Token)
      BY DEF ShutdownQueues, TypeOK, ConType
    <3> QED BY <1>2, <2>1, <3>1, Zenon DEF TypeOK, ConType, SockType, ceph_con_close, States,
               reset_connection, ResetSeqs, con_close_socket
  <2>3. OutType' /\ MsgType' /\ InType'
    BY <1>2, <2>1 DEF TypeOK, OutType, MsgType, InType, ceph_con_close, reset_connection,
       ResetSeqs, NoMsg
  <2>4. UserType' /\ HistType'
    BY <1>2, <2>1, Zenon DEF TypeOK, UserType, HistType, ceph_con_close, reset_connection,
       ResetSeqs
  <2> QED BY <1>2, <2>2, <2>3, <2>4, Stutter, Zenon DEF TypeOK, ceph_con_close
<1>3. CASE ceph_con_send
  <2>1. n_sent + 1 \in 1..NumMsgs /\ n_sent' \in 0..NumMsgs /\ connect_seq + 1 \in Nat
    <3>1. n_sent \in 0..NumMsgs /\ connect_seq \in Nat
      BY Zenon DEF TypeOK, UserType, ConType
    <3>2. n_sent < NumMsgs /\ n_sent' = n_sent + 1
      BY <1>3, Zenon DEF ceph_con_send
    <3> QED BY <3>1, <3>2, MessengerAssumption
  <2>2. Append(out_queue, n_sent + 1) \in Seq(1..NumMsgs) /\ Append(sent, n_sent + 1) \in Seq(1..NumMsgs)
    BY <2>1 DEF TypeOK, OutType, HistType
  <2>3. tails' \in [send : Nat, keepalive : Nat]
    BY <1>3 DEF TypeOK, UserType, ceph_con_send
  <2>4. flags' \subseteq Flags /\ state' \in States
    BY <1>3 DEF TypeOK, ConType, ceph_con_send, SetWritePending, Flags, States, clear_standby
  <2>5. ConType'
    BY <1>3, <2>1, <2>4, Zenon DEF TypeOK, ConType, ceph_con_send, SetWritePending, clear_standby
  <2>6. OutType' /\ UserType' /\ HistType'
    BY <1>3, <2>1, <2>2, <2>3, Zenon DEF TypeOK, OutType, UserType, HistType, ceph_con_send
  <2> QED BY <1>3, <2>5, <2>6, Stutter, Zenon DEF TypeOK, ceph_con_send
<1>4. CASE ceph_con_keepalive
  <2>1. used' \in 0..MaxEvents /\ connect_seq + 1 \in Nat
    BY <1>4, HappensType DEF TypeOK, ConType, ceph_con_keepalive
  <2>2. tails' \in [send : Nat, keepalive : Nat]
    BY <1>4 DEF TypeOK, UserType, ceph_con_keepalive
  <2>3. flags' \subseteq Flags /\ state' \in States
    BY <1>4 DEF TypeOK, ConType, ceph_con_keepalive, SetKeepalivePending, Flags, States,
       clear_standby
  <2>4. ConType' /\ UserType'
    BY <1>4, <2>1, <2>2, <2>3, Zenon DEF TypeOK, ConType, UserType, ceph_con_keepalive,
       SetKeepalivePending, clear_standby
  <2> QED BY <1>4, <2>4, Stutter, Zenon DEF TypeOK, ceph_con_keepalive
<1>5. CASE FinishSend
  <2>1. tails' \in [send : Nat, keepalive : Nat] /\ flags' \subseteq Flags
    BY <1>5 DEF TypeOK, ConType, UserType, FinishSend, SetWritePending, Flags
  <2>2. ConType' /\ UserType'
    BY <1>5, <2>1, Zenon DEF TypeOK, ConType, UserType, FinishSend, SetWritePending
  <2> QED BY <1>5, <2>2, Stutter, Zenon DEF TypeOK, FinishSend
<1>6. CASE FinishKeepalive
  <2>1. tails' \in [send : Nat, keepalive : Nat] /\ flags' \subseteq Flags
    BY <1>6 DEF TypeOK, ConType, UserType, FinishKeepalive, SetKeepalivePending, Flags
  <2>2. ConType' /\ UserType'
    BY <1>6, <2>1, Zenon DEF TypeOK, ConType, UserType, FinishKeepalive, SetKeepalivePending
  <2> QED BY <1>6, <2>2, Stutter, Zenon DEF TypeOK, FinishKeepalive
<1>7. ASSUME NEW m \in 1..NumMsgs, ceph_msg_revoke(m) PROVE TypeOK'
  <2>1. used' \in 0..MaxEvents
    BY <1>7, HappensType DEF TypeOK, ceph_msg_revoke
  <2>2. Without(out_queue, m) \in Seq(1..NumMsgs) /\ Without(out_sent, m) \in Seq(1..NumMsgs)
    BY WithoutType DEF TypeOK, OutType
  <2>3. [seq EXCEPT ![m] = 0] \in [1..NumMsgs -> Nat] /\ revoked \cup {m} \subseteq 1..NumMsgs
    BY DEF TypeOK, OutType, HistType
  <2>4. Len(out_kvec) \in Nat /\ 0 \in 0..NumMsgs
    BY MessengerAssumption DEF TypeOK, MsgType
  <2>5. OutType' /\ MsgType'
    BY <1>7, <2>2, <2>3, <2>4, Zenon DEF TypeOK, OutType, MsgType, ceph_msg_revoke, NoMsg
  <2>6. UserType' /\ HistType'
    BY <1>7, <2>1, <2>3, Zenon DEF TypeOK, UserType, HistType, ceph_msg_revoke, userVars
  <2> QED BY <1>7, <2>5, <2>6, Stutter, Zenon DEF TypeOK, ceph_msg_revoke
<1>8. CASE ceph_msg_revoke_incoming
  <2>1. used' \in 0..MaxEvents /\ Append(received, in_msg) \in Seq(Nat)
    BY <1>8, HappensType DEF TypeOK, HistType, InType, ceph_msg_revoke_incoming
  <2>2. InType'
    BY <1>8 DEF TypeOK, InType, ceph_msg_revoke_incoming, Skipped, NoMsg
  <2>3. UserType' /\ HistType'
    BY <1>8, <2>1, Zenon DEF TypeOK, UserType, HistType, ceph_msg_revoke_incoming, Skipped, userVars
  <2> QED BY <1>8, <2>2, <2>3, Stutter, Zenon DEF TypeOK, ceph_msg_revoke_incoming
<1> QED BY <1>1, <1>2, <1>3, <1>4, <1>5, <1>6, <1>7, <1>8 DEF UserNext

\* The head of con_work()'s loop and its ends keep the types.
LEMMA WorkKeepsType ==
  ASSUME TypeOK, UNCHANGED peerVars,
         ConWorkStart \/ con_sock_closed \/ con_backoff \/ ConWorkGo \/ con_fault_finish
  PROVE  TypeOK'
<1>1. CASE ConWorkStart
  <2>1. ConType'
    BY <1>1, Zenon DEF TypeOK, ConType, ConWorkStart, Locked
  <2> QED BY <1>1, <2>1, Stutter, Zenon DEF TypeOK, ConWorkStart
<1>2. CASE con_sock_closed
  BY <1>2, FaultKeepsType, Zenon DEF TypeOK, UserType, con_sock_closed
<1>3. CASE con_backoff
  <2>1. flags' \subseteq Flags
    BY <1>3 DEF TypeOK, ConType, con_backoff
  <2>2. ConType'
    BY <1>3, <2>1, Zenon DEF TypeOK, ConType, con_backoff, Unlocked
  <2> QED BY <1>3, <2>2, Stutter, Zenon DEF TypeOK, con_backoff
<1>4. CASE ConWorkGo
  <2>1. ConType'
    BY <1>4, Zenon DEF TypeOK, ConType, ConWorkGo, Goto, Locked, Unlocked
  <2> QED BY <1>4, <2>1, Stutter, Zenon DEF TypeOK, ConWorkGo
<1>5. CASE con_fault_finish
  <2>1. ConType'
    BY <1>5, Zenon DEF TypeOK, ConType, con_fault_finish, Goto, Unlocked
  <2> QED BY <1>5, <2>1, Stutter, Zenon DEF TypeOK, con_fault_finish
<1> QED BY <1>1, <1>2, <1>3, <1>4, <1>5

\* Reading a token leaves a stream of tokens.
LEMMA TakeType ==
  ASSUME SockType, s2c # <<>>
  PROVE  Next_ \in Token /\ (Take => SockType')
<1>1. Head(s2c) \in Token /\ Tail(s2c) \in Seq(Token)
  BY DEF SockType
<1> QED BY <1>1, Zenon DEF SockType, Take, Next_

\* try_read() up to the end of the handshake keeps the types.
LEMMA HandshakeKeepsType ==
  ASSUME TypeOK, UNCHANGED peerVars,
         \/ ReadNothing \/ ReadError \/ process_banner \/ WrongPeer
         \/ GotAuthorizer \/ AuthorizerError \/ PeerResetDone
         \/ ReplyReject \/ ReplyBadAuthorizer \/ ReplyResetSession \/ ReplyRetry
         \/ ReplyReady \/ ReplyWait
  PROVE  TypeOK'
<1>1. CASE ReadNothing
  <2>1. ConType'
    BY <1>1, Zenon DEF TypeOK, ConType, ReadNothing, Goto, Locked
  <2> QED BY <1>1, <2>1, Stutter, Zenon DEF TypeOK, ReadNothing
<1>2. CASE ReadError \/ WrongPeer \/ ReplyWait
  BY <1>2, FaultKeepsType, Zenon DEF TypeOK, UserType, ReadError, WrongPeer, ReplyWait
<1>3. CASE process_banner
  <2>1. SockType'
    BY <1>3, TakeType, Zenon DEF TypeOK, process_banner, MayRead
  <2>2. ConType'
    BY <1>3, Zenon DEF TypeOK, ConType, process_banner, PrepareConnect, States, Unlocked
  <2> QED BY <1>3, <2>1, <2>2, Stutter, Zenon DEF TypeOK, process_banner
<1>4. CASE GotAuthorizer
  <2>1. Append(out_kvec, Tok("connect", session, out_connect)) \in Seq(Token)
    <3>1. Tok("connect", session, out_connect) \in Token
      BY TokType, Zenon DEF TypeOK, ConType, HistType, Kinds
    <3> QED BY <3>1 DEF TypeOK, MsgType
  <2>2. flags' \subseteq Flags
    BY <1>4 DEF TypeOK, ConType, GotAuthorizer, Flags
  <2>3. pc' \in Locked \cup Unlocked
    BY <1>4 DEF GotAuthorizer, AfterAuth, Locked, Unlocked
  <2>4. ConType'
    BY <1>4, <2>2, <2>3, Zenon DEF TypeOK, ConType, GotAuthorizer
  <2>5. MsgType'
    BY <1>4, <2>1, Zenon DEF TypeOK, MsgType, GotAuthorizer
  <2> QED BY <1>4, <2>4, <2>5, Stutter, Zenon DEF TypeOK, GotAuthorizer
<1>5. CASE AuthorizerError
  BY <1>5, FaultKeepsType, HappensType, Zenon DEF TypeOK, AuthorizerError
<1>6. CASE PeerResetDone
  <2>1. ConType'
    BY <1>6, Zenon DEF TypeOK, ConType, PeerResetDone, Goto, Locked
  <2>2. HistType'
    BY <1>6, Zenon DEF TypeOK, HistType, PeerResetDone
  <2> QED BY <1>6, <2>1, <2>2, Stutter, Zenon DEF TypeOK, PeerResetDone
<1>7. CASE ReplyReject
  <2>1. <<>> \in Seq(1..NumMsgs) /\ <<>> \in Seq(Nat) /\ session + 1 \in Nat
        /\ [m \in 1..NumMsgs |-> 0] \in [1..NumMsgs -> Nat] /\ 0 \in 0..NumMsgs /\ 0 \in Nat
    BY MessengerAssumption DEF TypeOK, HistType
  <2>2. /\ ConType' /\ SockType' /\ in_msg' \in Nat
        /\ out_queue' \in Seq(1..NumMsgs) /\ out_sent' \in Seq(1..NumMsgs)
    <3>1. /\ con_fault(<<>>, <<>>) /\ connect_seq' \in Nat /\ auth_retry' \in Nat
          /\ out_connect' = out_connect
      BY <1>7, <2>1, Zenon DEF TypeOK, ConType, ReplyReject, ResetSeqs
    <3> QED BY <2>1, <3>1, FaultType, Zenon DEF TypeOK
  <2>3. OutType' /\ MsgType' /\ InType'
    BY <1>7, <2>1, <2>2, Zenon DEF TypeOK, OutType, MsgType, InType, ReplyReject, ResetSeqs, NoMsg
  <2>4. UserType' /\ HistType'
    BY <1>7, <2>1, Zenon DEF TypeOK, UserType, HistType, ReplyReject, ResetSeqs, userVars
  <2> QED BY <1>7, <2>2, <2>3, <2>4, Stutter, Zenon DEF TypeOK
<1>8. CASE ReplyBadAuthorizer
  <2>1. auth_retry + 1 \in Nat /\ <<>> \in Seq(Token)
    BY DEF TypeOK, ConType
  <2>2. CASE auth_retry + 1 = 2
    <3>1. con_fault(out_queue, out_sent) /\ UNCHANGED <<out_connect, connect_seq>>
      BY <1>8, <2>2, Zenon DEF ReplyBadAuthorizer
    <3>2. out_queue \in Seq(1..NumMsgs) /\ out_sent \in Seq(1..NumMsgs) /\ connect_seq' \in Nat
          /\ auth_retry' \in Nat
      BY <1>8, <2>1, <3>1 DEF TypeOK, OutType, ConType, ReplyBadAuthorizer
    <3>3. /\ ConType' /\ SockType' /\ in_msg' \in Nat
          /\ out_queue' \in Seq(1..NumMsgs) /\ out_sent' \in Seq(1..NumMsgs)
      BY <3>1, <3>2, FaultType, Zenon DEF TypeOK
    <3>4. OutType' /\ MsgType' /\ InType'
      BY <1>8, <2>2, <3>3, Zenon DEF TypeOK, OutType, MsgType, InType, ReplyBadAuthorizer
    <3> QED BY <1>8, <3>3, <3>4, Stutter, Zenon DEF TypeOK, ReplyBadAuthorizer
  <2>3. CASE auth_retry + 1 # 2
    <3>1. SockType'
      BY <1>8, <2>3, TakeType, Zenon DEF TypeOK, ReplyBadAuthorizer, Reply, MayRead
    <3>2. ConType'
      BY <1>8, <2>1, <2>3, Zenon DEF TypeOK, ConType, ReplyBadAuthorizer, PrepareConnect, Unlocked
    <3>3. OutType' /\ MsgType' /\ InType'
      BY <1>8, <2>1, <2>3, Zenon DEF TypeOK, OutType, MsgType, InType, ReplyBadAuthorizer
    <3> QED BY <1>8, <3>1, <3>2, <3>3, Stutter, Zenon DEF TypeOK, ReplyBadAuthorizer
  <2> QED BY <2>2, <2>3
<1>9. CASE ReplyResetSession
  <2>1. <<>> \in Seq(1..NumMsgs) /\ <<>> \in Seq(Nat) /\ session + 1 \in Nat /\ <<>> \in Seq(Token)
        /\ [m \in 1..NumMsgs |-> 0] \in [1..NumMsgs -> Nat] /\ 0 \in 0..NumMsgs /\ 0 \in Nat
    BY MessengerAssumption DEF TypeOK, HistType
  <2>2. SockType'
    BY <1>9, TakeType, Zenon DEF TypeOK, ReplyResetSession, Reply, MayRead
  <2>3. ConType'
    BY <1>9, <2>1, Zenon DEF TypeOK, ConType, ReplyResetSession, PrepareConnect,
       reset_connection, ResetSeqs, Unlocked
  <2>4. OutType' /\ MsgType' /\ InType'
    BY <1>9, <2>1, Zenon DEF TypeOK, OutType, MsgType, InType, ReplyResetSession,
       reset_connection, ResetSeqs, NoMsg
  <2>5. UserType' /\ HistType'
    BY <1>9, <2>1, Zenon DEF TypeOK, UserType, HistType, ReplyResetSession, reset_connection,
       ResetSeqs, userVars
  <2> QED BY <1>9, <2>2, <2>3, <2>4, <2>5, Stutter, Zenon DEF TypeOK
<1>10. CASE ReplyRetry
  <2>1. SockType' /\ Next_ \in Token
    BY <1>10, TakeType, Zenon DEF TypeOK, ReplyRetry, Reply, MayRead
  <2>2. Next_.n \in Nat /\ <<>> \in Seq(Token)
    BY <2>1 DEF Token
  <2>3. ConType'
    BY <1>10, <2>2, Zenon DEF TypeOK, ConType, ReplyRetry, PrepareConnect, Unlocked
  <2>4. MsgType'
    BY <1>10, <2>2, Zenon DEF TypeOK, MsgType, ReplyRetry
  <2> QED BY <1>10, <2>1, <2>3, <2>4, Stutter, Zenon DEF TypeOK, ReplyRetry
<1>11. CASE ReplyReady
  <2>1. SockType'
    BY <1>11, TakeType, Zenon DEF TypeOK, ReplyReady, Reply, MayRead
  <2>2. <<Tok("seq", 0, in_seq)>> \in Seq(Token) /\ connect_seq + 1 \in Nat /\ 0 \in 0..2
    <3>1. Tok("seq", 0, in_seq) \in Token
      BY TokType, 0 \in Nat, Zenon DEF TypeOK, InType, Kinds
    <3> QED BY <3>1 DEF TypeOK, ConType
  <2>3. flags' \subseteq Flags
    BY <1>11 DEF TypeOK, ConType, ReplyReady, Flags
  <2>4. ConType'
    BY <1>11, <2>2, <2>3, 0 \in Nat, Zenon DEF TypeOK, ConType, ReplyReady, States
  <2>5. MsgType' /\ InType'
    BY <1>11, <2>2, Zenon DEF TypeOK, MsgType, InType, ReplyReady
  <2> QED BY <1>11, <2>1, <2>4, <2>5, Stutter, Zenon DEF TypeOK, ReplyReady
<1> QED BY <1>1, <1>2, <1>3, <1>4, <1>5, <1>6, <1>7, <1>8, <1>9, <1>10, <1>11

\* Reading messages, acks and the close tag keeps the types.
LEMMA ReadKeepsType ==
  ASSUME TypeOK, UNCHANGED peerVars,
         \/ ReadSkip \/ ReadHdrOld \/ ReadHdr \/ ReadBad
         \/ AllocMsg \/ AllocSkip \/ AllocNoMemory
         \/ ReadFront \/ process_message \/ DispatchDone \/ process_ack \/ ReadClose
  PROVE  TypeOK'
<1>1. CASE ReadSkip
  <2>1. SockType'
    BY <1>1, TakeType, Zenon DEF TypeOK, ReadSkip, MayRead
  <2>2. InType'
    BY <1>1 DEF TypeOK, InType, ReadSkip, SkipOne
  <2> QED BY <1>1, <2>1, <2>2, Stutter, Zenon DEF TypeOK, ReadSkip
<1>2. CASE ReadHdrOld \/ ReadHdr
  <2>1. SockType' /\ Next_ \in Token
    BY <1>2, TakeType, Zenon DEF TypeOK, ReadHdrOld, ReadHdr, ReadTag, MayRead
  <2>2. Next_.a \in Nat /\ 2 \in 0..2
    BY <2>1 DEF Token
  <2>3. ConType'
    BY <1>2, Zenon DEF TypeOK, ConType, ReadHdrOld, ReadHdr, Goto, Locked, Unlocked
  <2>4. InType'
    BY <1>2, <2>2, Zenon DEF TypeOK, InType, ReadHdrOld, ReadHdr
  <2> QED BY <1>2, <2>1, <2>3, <2>4, Stutter, Zenon DEF TypeOK, ReadHdrOld, ReadHdr
<1>3. CASE ReadBad
  BY <1>3, FaultKeepsType, Zenon DEF TypeOK, UserType, ReadBad
<1>4. CASE AllocMsg
  <2>1. ConType'
    BY <1>4, Zenon DEF TypeOK, ConType, AllocMsg, Locked
  <2>2. InType'
    BY <1>4 DEF TypeOK, InType, AllocMsg
  <2> QED BY <1>4, <2>1, <2>2, Stutter, Zenon DEF TypeOK, AllocMsg
<1>5. CASE AllocSkip
  <2>1. used' \in 0..MaxEvents
    BY <1>5, HappensType, Zenon DEF TypeOK, AllocSkip
  <2>2. Append(received, in_hdr) \in Seq(Nat)
    BY DEF TypeOK, HistType, InType
  <2>3. ConType'
    BY <1>5, Zenon DEF TypeOK, ConType, AllocSkip, Goto, Locked
  <2>4. InType'
    BY <1>5 DEF TypeOK, InType, AllocSkip, Skipped
  <2>5. UserType' /\ HistType'
    BY <1>5, <2>1, <2>2, Zenon DEF TypeOK, UserType, HistType, AllocSkip, Skipped, userVars
  <2> QED BY <1>5, <2>3, <2>4, <2>5, Stutter, Zenon DEF TypeOK, AllocSkip
<1>6. CASE AllocNoMemory
  BY <1>6, FaultKeepsType, HappensType, Zenon DEF TypeOK, AllocNoMemory
<1>7. CASE ReadFront
  <2>1. SockType'
    BY <1>7, TakeType, Zenon DEF TypeOK, ReadFront, Body, MayRead
  <2>2. InType'
    BY <1>7 DEF TypeOK, InType, ReadFront
  <2> QED BY <1>7, <2>1, <2>2, Stutter, Zenon DEF TypeOK, ReadFront
<1>8. CASE process_message
  <2>1. SockType'
    BY <1>8, TakeType, Zenon DEF TypeOK, process_message, Body, MayRead
  <2>2. Append(received, in_msg) \in Seq(Nat)
    BY DEF TypeOK, HistType, InType
  <2>3. ConType'
    BY <1>8, Zenon DEF TypeOK, ConType, process_message, Goto, Unlocked
  <2>4. InType'
    BY <1>8 DEF TypeOK, InType, process_message, NoMsg
  <2>5. HistType'
    BY <1>8, <2>2, Zenon DEF TypeOK, HistType, process_message
  <2> QED BY <1>8, <2>1, <2>3, <2>4, <2>5, Stutter, Zenon DEF TypeOK, process_message
<1>9. CASE DispatchDone
  <2>1. ConType'
    BY <1>9, Zenon DEF TypeOK, ConType, DispatchDone, Goto, Locked
  <2>2. InType'
    BY <1>9 DEF TypeOK, InType, DispatchDone
  <2> QED BY <1>9, <2>1, <2>2, Stutter, Zenon DEF TypeOK, DispatchDone
<1>10. CASE process_ack
  <2>1. s2c # <<>>
    BY <1>10, Zenon DEF process_ack, ReadTag, MayRead
  <2>2. SockType'
    BY <1>10, <2>1, TakeType, Stutter, Zenon DEF TypeOK, process_ack
  <2>3. out_sent # <<>> => Tail(out_sent) \in Seq(1..NumMsgs)
    BY DEF TypeOK, OutType
  <2>4. OutType' /\ InType'
    BY <1>10, <2>3, Zenon DEF TypeOK, OutType, InType, process_ack
  <2> QED BY <1>10, <2>2, <2>4, Stutter, Zenon DEF TypeOK, process_ack
<1>11. CASE ReadClose
  <2>1. flags' \subseteq Flags /\ <<>> \in Seq(Token)
    BY <1>11 DEF TypeOK, ConType, ReadClose
  <2>2. ConType' /\ SockType'
    BY <1>11, <2>1, Zenon DEF TypeOK, ConType, SockType, ReadClose, con_close_socket, States, Locked
  <2> QED BY <1>11, <2>2, Stutter, Zenon DEF TypeOK, ReadClose
<1> QED BY <1>1, <1>2, <1>3, <1>4, <1>5, <1>6, <1>7, <1>8, <1>9, <1>10, <1>11

\* Writing a token leaves a stream of tokens.
LEMMA PutType ==
  ASSUME SockType, NEW tok \in Token, Put(tok)
  PROVE  SockType'
<1>1. Append(c2s, tok) \in Seq(Token)
  BY DEF SockType
<1> QED BY <1>1, Zenon DEF SockType, Put

\* try_write() keeps the types.
LEMMA WriteKeepsType ==
  ASSUME TypeOK, WriteNext, UNCHANGED peerVars
  PROVE  TypeOK'
<1>a. Tok("banner", 0, 0) \in Token /\ Tok("zero", 0, 0) \in Token
      /\ Tok("keepalive", 0, 0) \in Token
  BY TokType, 0 \in Nat, Zenon DEF Kinds
<1>b. \A m \in 0..NumMsgs : Tok("data", m, 0) \in Token /\ Tok("footer", m, 0) \in Token
  <2>1. \A m \in 0..NumMsgs : m \in Nat
    OBVIOUS
  <2> QED BY <2>1, TokType, 0 \in Nat, Zenon DEF Kinds
<1>c. AckTok \in Token
  BY TokType, 0 \in Nat, Zenon DEF AckTok, TypeOK, InType, Kinds
<1>1. CASE ceph_tcp_connect
  <2>1. <<Tok("banner", 0, 0)>> \in Seq(Token) /\ 0 \in 0..2
    BY <1>a
  <2>2. flags' \subseteq Flags
    BY <1>1 DEF TypeOK, ConType, ceph_tcp_connect, Flags
  <2>3. ConType' /\ SockType'
    BY <1>1, <2>2, Zenon DEF TypeOK, ConType, SockType, ceph_tcp_connect, States
  <2>4. MsgType' /\ InType'
    BY <1>1, <2>1, Zenon DEF TypeOK, MsgType, InType, ceph_tcp_connect, Connecting
  <2> QED BY <1>1, <2>3, <2>4, Stutter, Zenon DEF TypeOK, ceph_tcp_connect
<1>2. CASE ConnectError
  <2>1. <<Tok("banner", 0, 0)>> \in Seq(Token) /\ 0 \in 0..2
    BY <1>a
  <2>2. used' \in 0..MaxEvents
    BY <1>2, HappensType, Zenon DEF TypeOK, ConnectError
  <2>3. /\ con_fault(out_queue, out_sent) /\ connect_seq' \in Nat /\ auth_retry' \in Nat
        /\ out_connect' = out_connect
    BY <1>2, Zenon DEF TypeOK, ConType, ConnectError
  <2>4. out_queue \in Seq(1..NumMsgs) /\ out_sent \in Seq(1..NumMsgs)
    BY DEF TypeOK, OutType
  <2>5. /\ ConType' /\ SockType' /\ in_msg' \in Nat
        /\ out_queue' \in Seq(1..NumMsgs) /\ out_sent' \in Seq(1..NumMsgs)
    BY <2>3, <2>4, FaultType, Zenon DEF TypeOK
  <2>6. OutType' /\ MsgType' /\ InType'
    BY <1>2, <2>1, <2>5, Zenon DEF TypeOK, OutType, MsgType, InType, ConnectError, Connecting
  <2>7. UserType'
    BY <1>2, <2>2, Zenon DEF TypeOK, UserType, ConnectError, userVars
  <2> QED BY <1>2, <2>5, <2>6, <2>7, Stutter, Zenon DEF TypeOK, ConnectError
<1>3. CASE WriteBlocked
  <2>1. ConType' /\ SockType'
    BY <1>3, Zenon DEF TypeOK, ConType, SockType, WriteBlocked, Goto, Unlocked
  <2> QED BY <1>3, <2>1, Stutter, Zenon DEF TypeOK, WriteBlocked
<1>4. CASE WriteError
  BY <1>4, FaultKeepsType, Zenon DEF TypeOK, UserType, WriteError
<1>5. CASE WriteNoSocket
  <2>1. ConType'
    BY <1>5, Zenon DEF TypeOK, ConType, WriteNoSocket, Goto
  <2> QED BY <1>5, <2>1, Stutter, Zenon DEF TypeOK, WriteNoSocket
<1>6. CASE write_partial_skip
  <2>1. SockType'
    BY <1>6, <1>a, PutType, Zenon DEF TypeOK, write_partial_skip
  <2>2. out_skip - 1 \in Nat
    BY <1>6 DEF TypeOK, MsgType, write_partial_skip
  <2>3. MsgType'
    BY <1>6, <2>2, Zenon DEF TypeOK, MsgType, write_partial_skip
  <2> QED BY <1>6, <2>1, <2>3, Stutter, Zenon DEF TypeOK, write_partial_skip
<1>7. CASE write_partial_kvec
  <2>1. Head(out_kvec) \in Token /\ Tail(out_kvec) \in Seq(Token)
    BY <1>7 DEF TypeOK, MsgType, write_partial_kvec
  <2>2. SockType'
    BY <1>7, <2>1, PutType, Zenon DEF TypeOK, write_partial_kvec
  <2>3. MsgType'
    BY <1>7, <2>1, Zenon DEF TypeOK, MsgType, write_partial_kvec
  <2> QED BY <1>7, <2>2, <2>3, Stutter, Zenon DEF TypeOK, write_partial_kvec
<1>8. CASE write_partial_message_data
  <2>1. Tok("data", out_msg, 0) \in Token /\ Tok("footer", out_msg, 0) \in Token
    BY <1>b, Zenon DEF TypeOK, MsgType
  <2>2. <<Tok("footer", out_msg, 0)>> \in Seq(Token)
    BY <2>1
  <2>3. SockType'
    BY <1>8, <2>1, PutType, Zenon DEF TypeOK, write_partial_message_data
  <2>4. MsgType'
    BY <1>8, <2>2, Zenon DEF TypeOK, MsgType, write_partial_message_data
  <2> QED BY <1>8, <2>3, <2>4, Stutter, Zenon DEF TypeOK, write_partial_message_data
<1>9. CASE prepare_write_message
  <2> DEFINE m == Head(out_queue)
             s == MsgSeq(m)
             ack == IF AckDue THEN <<AckTok>> ELSE <<>>
             rest == IF m \in HasData THEN <<>> ELSE <<Tok("footer", m, 0)>>
  <2>1. m \in 1..NumMsgs /\ Tail(out_queue) \in Seq(1..NumMsgs)
    <3>1. out_queue # <<>> /\ out_queue \in Seq(1..NumMsgs)
      BY <1>9, Zenon DEF TypeOK, OutType, prepare_write_message
    <3> QED BY <3>1, HeadTailType, Zenon
  <2>2. s \in Nat /\ out_seq + 1 \in Nat /\ m \in 0..NumMsgs /\ m \in Nat
    BY <2>1 DEF TypeOK, OutType, MsgSeq
  <2>3. Append(out_sent, m) \in Seq(1..NumMsgs) /\ [seq EXCEPT ![m] = s] \in [1..NumMsgs -> Nat]
    BY <2>1, <2>2 DEF TypeOK, OutType
  <2>4. Tok("hdr", m, s) \in Token /\ Tok("footer", m, 0) \in Token
    <3> HIDE DEF m, s
    <3> QED BY <2>2, <1>b, TokType, Zenon DEF Kinds
  <2>5. ack \in Seq(Token) /\ rest \in Seq(Token) /\ <<Tok("hdr", m, s)>> \in Seq(Token)
    BY <2>4, <1>c
  <2>6. ack \o <<Tok("hdr", m, s)>> \o rest \in Seq(Token)
    <3> HIDE DEF ack, rest
    <3> QED BY <2>5
  <2>7. flags' \subseteq Flags
    BY <1>9 DEF TypeOK, ConType, prepare_write_message, Flags
  <2>8. ConType'
    BY <1>9, <2>7, Zenon DEF TypeOK, ConType, prepare_write_message
  <2>9. OutType'
    BY <1>9, <2>1, <2>2, <2>3, Zenon DEF TypeOK, OutType, prepare_write_message
  <2>10. MsgType'
    BY <1>9, <2>2, <2>6, Zenon DEF TypeOK, MsgType, prepare_write_message
  <2>11. InType'
    BY <1>9, Zenon DEF TypeOK, InType, prepare_write_message
  <2> QED BY <1>9, <2>8, <2>9, <2>10, <2>11, Stutter, Zenon DEF TypeOK, prepare_write_message
<1>10. CASE PrepareWriteControl
  <2>1. <<IF AckDue THEN AckTok ELSE Tok("keepalive", 0, 0)>> \in Seq(Token) /\ 0 \in 0..NumMsgs
    BY <1>a, <1>c, MessengerAssumption
  <2>2. flags' \subseteq Flags
    BY <1>10 DEF TypeOK, ConType, PrepareWriteControl, Flags
  <2>3. ConType'
    BY <1>10, <2>2, Zenon DEF TypeOK, ConType, PrepareWriteControl
  <2>4. MsgType' /\ InType'
    BY <1>10, <2>1, Zenon DEF TypeOK, MsgType, InType, PrepareWriteControl, NoMsg
  <2> QED BY <1>10, <2>3, <2>4, Stutter, Zenon DEF TypeOK, PrepareWriteControl
<1>11. CASE NothingToDo
  <2>1. 0 \in 0..NumMsgs
    BY MessengerAssumption
  <2>2. ConType' /\ MsgType'
    BY <1>11, <2>1, Zenon DEF TypeOK, ConType, MsgType, NothingToDo, NoMsg, Goto, Locked
  <2> QED BY <1>11, <2>2, Stutter, Zenon DEF TypeOK, NothingToDo
<1>12. CASE WriteDone
  <2>1. flags' \subseteq Flags
    BY <1>12 DEF TypeOK, ConType, WriteDone
  <2>2. ConType'
    BY <1>12, <2>1, Zenon DEF TypeOK, ConType, WriteDone, Unlocked
  <2> QED BY <1>12, <2>2, Stutter, Zenon DEF TypeOK, WriteDone
<1> QED BY <1>1, <1>2, <1>3, <1>4, <1>5, <1>6, <1>7, <1>8, <1>9, <1>10, <1>11, <1>12
        DEF WriteNext

\* What a socket callback or a step of the peer does to the client.
LEMMA PeerUnchangedType ==
  ASSUME TypeOK, PeerUnchanged, used' \in 0..MaxEvents,
         flags' \subseteq Flags, work' \in BOOLEAN, SockType', PeerType'
  PROVE  TypeOK'
<1>1. ConType' /\ UserType'
  BY Zenon DEF TypeOK, PeerUnchanged, ConType, UserType, userVars
<1> QED BY <1>1, Stutter, Zenon DEF TypeOK, PeerUnchanged

\* The FIN or RST of the peer keeps the types of the socket.
LEMMA PeerCloseType ==
  ASSUME TypeOK, PeerClose
  PROVE  SockType' /\ flags' \subseteq Flags /\ work' \in BOOLEAN /\ PeerUnchanged
<1>1. <<>> \in Seq(Token) /\ flags \cup {"SOCK_CLOSED"} \subseteq Flags
  BY DEF TypeOK, ConType, Flags
<1> QED BY <1>1, Zenon DEF TypeOK, SockType, PeerClose, ceph_sock_state_change

\* A peer that hangs up keeps the types.
LEMMA HangupType ==
  ASSUME TypeOK, Hangup, used' \in 0..MaxEvents
  PROVE  TypeOK'
<1>1. NoRx \in [m : Nat, s : Nat, due : DueKinds, ok : BOOLEAN] /\ <<>> \in Seq(Token)
  BY DEF NoRx, NoMsg, DueKinds
<1>2. PeerType'
  BY <1>1, Zenon DEF TypeOK, PeerType, Hangup
<1> QED BY <1>2, PeerCloseType, PeerUnchangedType, Zenon DEF Hangup

\* The peer takes one token off the stream.
LEMMA ConsumeType ==
  ASSUME TypeOK, c2s # <<>>
  PROVE  /\ Got \in Token /\ Got.a \in Nat /\ Got.n \in Nat
         /\ Consume => SockType' /\ flags' \subseteq Flags /\ work' \in BOOLEAN /\ PeerUnchanged
<1>1. Got \in Token /\ Tail(c2s) \in Seq(Token)
  BY DEF TypeOK, SockType, Got
<1>2. Got.a \in Nat /\ Got.n \in Nat
  BY <1>1 DEF Token
<1> QED BY <1>1, <1>2, Zenon DEF TypeOK, ConType, SockType, Consume, ceph_sock_write_space

\* The network's and the peer's own steps keep the types.
LEMMA NetworkKeepsType ==
  ASSUME TypeOK,
         \/ TcpEstablished \/ TcpReset \/ PeerRestart \/ PeerHangup
         \/ PeerTx \/ PeerNewMsg \/ PeerSend \/ PeerTagClose
  PROVE  TypeOK'
<1>a. NoRx \in [m : Nat, s : Nat, due : DueKinds, ok : BOOLEAN] /\ 0 \in Nat
      /\ <<>> \in Seq(Token) /\ <<>> \in Seq(Nat)
  BY DEF NoRx, NoMsg, DueKinds
<1>b. used \in 0..MaxEvents
  BY DEF TypeOK, UserType
<1>1. CASE TcpEstablished
  <2>1. Tok("banner", 0, 0) \in Token /\ Tok("banner", 1, 0) \in Token
    BY TokType, 0 \in Nat, 1 \in Nat, Zenon DEF Kinds
  <2>2. <<Tok("banner", 0, 0)>> \in Seq(Token) /\ <<Tok("banner", 1, 0)>> \in Seq(Token)
    BY <2>1
  <2>3. PeerType' /\ SockType'
    BY <1>1, <1>a, <2>2, Zenon DEF TypeOK, PeerType, SockType, TcpEstablished
  <2>4. used' \in 0..MaxEvents
    BY <1>1, <1>b, HappensType, Zenon DEF TypeOK, TcpEstablished
  <2>5. flags' \subseteq Flags /\ work' \in BOOLEAN /\ PeerUnchanged
    BY <1>1, Zenon DEF TypeOK, ConType, TcpEstablished
  <2> QED BY <2>3, <2>4, <2>5, PeerUnchangedType
<1>2. CASE TcpReset
  <2>1. used' \in 0..MaxEvents
    BY <1>2, HappensType, Zenon DEF TypeOK, TcpReset
  <2>2. s2c' \in Seq(Token) /\ flags' \subseteq Flags /\ work' \in BOOLEAN
    <3>1. flags \cup {"SOCK_CLOSED"} \subseteq Flags
      BY DEF TypeOK, ConType, Flags
    <3> QED BY <1>2, <1>a, <3>1, Zenon DEF TypeOK, SockType, TcpReset, ceph_sock_state_change
  <2>3. SockType' /\ PeerType'
    BY <1>2, <2>2, <1>a, Stutter, Zenon DEF TypeOK, SockType, TcpReset
  <2> QED BY <1>2, <2>1, <2>2, <2>3, PeerUnchangedType, Zenon DEF TcpReset
<1>3. CASE PeerRestart
  <2>1. used' \in 0..MaxEvents
    BY <1>3, HappensType, Zenon DEF TypeOK, PeerRestart
  <2>2. PeerType'
    BY <1>3, <1>a, Zenon DEF TypeOK, PeerType, PeerRestart, ForgetSession
  <2>3. SockType' /\ flags' \subseteq Flags /\ work' \in BOOLEAN /\ PeerUnchanged
    <3>1. CASE tcp = "est"
      BY <1>3, <3>1, PeerCloseType, Zenon DEF PeerRestart
    <3>2. CASE tcp # "est"
      BY <1>3, <3>2, Stutter, Zenon DEF TypeOK, ConType, PeerRestart
    <3> QED BY <3>1, <3>2
  <2> QED BY <2>1, <2>2, <2>3, PeerUnchangedType
<1>4. CASE PeerHangup
  BY <1>4, HangupType, HappensType, Zenon DEF TypeOK, PeerHangup
<1>5. CASE PeerTx
  <2>1. Append(s2c, Head(p_tx)) \in Seq(Token) /\ Tail(p_tx) \in Seq(Token)
    BY <1>5 DEF TypeOK, SockType, PeerType, PeerTx
  <2>2. SockType' /\ PeerType'
    BY <1>5, <2>1, Zenon DEF TypeOK, SockType, PeerType, PeerTx
  <2>3. flags' \subseteq Flags /\ work' \in BOOLEAN /\ PeerUnchanged /\ used' \in 0..MaxEvents
    BY <1>5, <1>b, Zenon DEF TypeOK, ConType, PeerTx, ceph_sock_data_ready
  <2> QED BY <2>2, <2>3, PeerUnchangedType
<1>6. CASE PeerNewMsg
  <2>1. used' \in 0..MaxEvents
    BY <1>6, HappensType, Zenon DEF TypeOK, PeerNewMsg
  <2>2. p_out + 1 \in Nat
    BY DEF TypeOK, PeerType
  <2>3. SockType' /\ PeerType'
    BY <1>6, <2>2, Stutter, Zenon DEF TypeOK, PeerType, PeerNewMsg
  <2>4. flags' \subseteq Flags /\ work' \in BOOLEAN /\ PeerUnchanged
    BY <1>6, Zenon DEF TypeOK, ConType, PeerNewMsg
  <2> QED BY <2>1, <2>3, <2>4, PeerUnchangedType
<1>7. CASE PeerSend
  <2>1. p_next + 1 \in Nat
    BY DEF TypeOK, PeerType
  <2>2. /\ Tok("mhdr", p_next + 1, p_next + 1) \in Token
        /\ Tok("mfront", p_next + 1, 0) \in Token /\ Tok("mdata", p_next + 1, 0) \in Token
    BY <2>1, TokType, 0 \in Nat, Zenon DEF Kinds
  <2>3. MsgToks(p_next + 1) \in Seq(Token)
    BY <2>2 DEF MsgToks
  <2>4. SockType' /\ PeerType'
    BY <1>7, <2>1, <2>3, Stutter, Zenon DEF TypeOK, PeerType, PeerSend
  <2>5. flags' \subseteq Flags /\ work' \in BOOLEAN /\ PeerUnchanged /\ used' \in 0..MaxEvents
    BY <1>7, <1>b, Zenon DEF TypeOK, ConType, PeerSend
  <2> QED BY <2>4, <2>5, PeerUnchangedType
<1>8. CASE PeerTagClose
  <2>1. used' \in 0..MaxEvents
    BY <1>8, HappensType, Zenon DEF TypeOK, PeerTagClose
  <2>2. Tok("close", 0, 0) \in Token
    BY TokType, 0 \in Nat, Zenon DEF Kinds
  <2>3. <<Tok("close", 0, 0)>> \in Seq(Token)
    BY <2>2
  <2>4. SockType' /\ PeerType'
    BY <1>8, <2>3, <1>a, Stutter, Zenon DEF TypeOK, PeerType, PeerTagClose, ForgetSession
  <2>5. flags' \subseteq Flags /\ work' \in BOOLEAN /\ PeerUnchanged
    BY <1>8, Zenon DEF TypeOK, ConType, PeerTagClose
  <2> QED BY <2>1, <2>4, <2>5, PeerUnchangedType
<1> QED BY <1>1, <1>2, <1>3, <1>4, <1>5, <1>6, <1>7, <1>8

\* The peer's replies in the handshake.
LEMMA AnswerType ==
  ASSUME TypeOK, c2s # <<>>, used' \in 0..MaxEvents,
         NEW t \in Kinds, NEW n \in Nat, Answer(t, n)
  PROVE  TypeOK'
<1>1. Tok(t, 0, n) \in Token
  BY TokType, 0 \in Nat, Zenon
<1>2. <<Tok(t, 0, n)>> \in Seq(Token)
  BY <1>1
<1>3. PeerType'
  BY <1>2, Zenon DEF TypeOK, PeerType, Answer
<1>4. Consume
  BY Zenon DEF Answer
<1> QED BY <1>3, <1>4, ConsumeType, PeerUnchangedType, Zenon

\* The peer's receiving steps keep the types.
LEMMA PeerRxKeepsType ==
  ASSUME TypeOK, PeerRx
  PROVE  TypeOK'
<1>a. NoRx \in [m : Nat, s : Nat, due : DueKinds, ok : BOOLEAN] /\ 0 \in Nat
      /\ <<>> \in Seq(Token) /\ <<>> \in Seq(Nat)
  BY DEF NoRx, NoMsg, DueKinds
<1>b. used \in 0..MaxEvents
  BY DEF TypeOK, UserType
<1>c. c2s # <<>>
  BY Zenon DEF PeerRx, PeerBanner, PeerNotConnect, PeerRefuse, PeerResetSession, PeerRetrySession,
     PeerOpen, PeerReopen, PeerSeq, PeerTag, PeerData, PeerFooter, CanRx
<1>d. Got \in Token /\ Got.a \in Nat /\ Got.n \in Nat
  BY <1>c, ConsumeType, Zenon
<1>e. ASSUME Consume, PeerType', used' = used PROVE TypeOK'
  BY <1>b, <1>c, <1>e, ConsumeType, PeerUnchangedType, Zenon
<1>f. ASSUME Hangup, used' = used PROVE TypeOK'
  BY <1>b, <1>f, HangupType, Zenon
<1>1. CASE PeerBanner
  <2>1. PeerType'
    BY <1>1, Zenon DEF TypeOK, PeerType, PeerBanner
  <2> QED BY <1>1, <1>e, <2>1, Zenon DEF PeerBanner
<1>2. CASE PeerNotConnect
  BY <1>2, <1>a, <1>b, <1>c, <1>f, AnswerType, Zenon DEF PeerNotConnect, Kinds
<1>3. CASE PeerRefuse
  <2>1. used' \in 0..MaxEvents
    BY <1>3, HappensType, Zenon DEF TypeOK, PeerRefuse
  <2> QED BY <1>3, <1>a, <1>c, <2>1, AnswerType, Zenon DEF PeerRefuse, Kinds
<1>4. CASE PeerResetSession
  BY <1>4, <1>a, <1>b, <1>c, AnswerType, Zenon DEF PeerResetSession, Kinds
<1>5. CASE PeerRetrySession
  <2>1. p_cseq + 1 \in Nat
    BY DEF TypeOK, PeerType
  <2> QED BY <1>5, <1>b, <1>c, <2>1, AnswerType, Zenon DEF PeerRetrySession, Kinds
<1>6. CASE PeerOpen \/ PeerReopen
  <2>1. Got.n + 1 \in Nat /\ 1 \in Nat
    BY <1>d
  <2>2. Ready("READY") \in Token /\ Ready("SEQ") \in Token
    BY <1>a, <2>1, TokType, Zenon DEF Ready, Kinds
  <2>3. Tok("seq", 0, p_in_seq) \in Token
    BY <1>a, TokType, Zenon DEF Kinds, TypeOK, PeerType
  <2>4. /\ <<Ready("READY")>> \in Seq(Token)
        /\ <<Ready("SEQ"), Tok("seq", 0, p_in_seq)>> \in Seq(Token)
    BY <2>2, <2>3
  <2>5. PeerType'
    BY <1>6, <1>a, <1>d, <2>1, <2>4, Zenon DEF TypeOK, PeerType, PeerOpen, PeerReopen
  <2> QED BY <1>6, <1>e, <2>5, Zenon DEF PeerOpen, PeerReopen
<1>7. CASE PeerSeq
  <2>1. CASE Got.t = "seq"
    <3>1. PeerType'
      BY <1>7, <1>d, <2>1, Zenon DEF TypeOK, PeerType, PeerSeq
    <3> QED BY <1>7, <1>e, <2>1, <3>1, Zenon DEF PeerSeq
  <2>2. CASE Got.t # "seq"
    BY <1>7, <1>f, <2>2, Zenon DEF PeerSeq
  <2> QED BY <2>1, <2>2
<1>8. CASE PeerTag
  <2>1. CASE Got.t \in {"hdr", "ack", "keepalive"}
    <3> DEFINE due == IF Got.a \in HasData THEN <<"data", "footer">> ELSE <<"footer">>
               rx == [m |-> Got.a, s |-> Got.n, ok |-> TRUE, due |-> due]
    <3>1. due \in DueKinds
      BY DEF DueKinds
    <3>2. rx \in [m : Nat, s : Nat, due : DueKinds, ok : BOOLEAN]
      <4> HIDE DEF due
      <4> QED BY <1>d, <3>1
    <3>3. p_rx' \in [m : Nat, s : Nat, due : DueKinds, ok : BOOLEAN]
      BY <1>8, <1>a, <2>1, <3>2, Zenon DEF PeerTag
    <3>4. PeerType'
      BY <1>8, <1>d, <2>1, <3>3, Zenon DEF TypeOK, PeerType, PeerTag
    <3> QED BY <1>8, <1>e, <2>1, <3>4, Zenon DEF PeerTag
  <2>2. CASE Got.t \notin {"hdr", "ack", "keepalive"}
    BY <1>8, <1>f, <2>2, Zenon DEF PeerTag
  <2> QED BY <2>1, <2>2
<1>9. CASE PeerData
  <2>1. p_rx' \in [m : Nat, s : Nat, due : DueKinds, ok : BOOLEAN]
    <3>1. p_rx' = [p_rx EXCEPT !.due = <<"footer">>, !.ok = (Got = Tok("data", p_rx.m, 0))]
      BY <1>9, Zenon DEF PeerData
    <3>2. <<"footer">> \in DueKinds /\ (Got = Tok("data", p_rx.m, 0)) \in BOOLEAN
      BY DEF DueKinds
    <3> QED BY <3>1, <3>2 DEF TypeOK, PeerType
  <2>2. PeerType'
    BY <1>9, <2>1, Zenon DEF TypeOK, PeerType, PeerData
  <2> QED BY <1>9, <1>e, <2>2, Zenon DEF PeerData
<1>10. CASE PeerFooter
  <2>1. p_rx.m \in Nat /\ p_rx.s \in Nat
    BY DEF TypeOK, PeerType
  <2>2. Append(delivered, p_rx.m) \in Seq(Nat) /\ ever \cup {p_rx.m} \subseteq Nat
    BY <2>1, AppendType, Zenon DEF TypeOK, PeerType
  <2>3. Tok("ack", 0, p_rx.s) \in Token
    BY <1>a, <2>1, TokType, Zenon DEF Kinds
  <2>4. <<Tok("ack", 0, p_rx.s)>> \in Seq(Token)
    BY <2>3
  <2>5. CASE Hangup
    BY <1>10, <1>f, <2>5, Zenon DEF PeerFooter
  <2>6. CASE ~Hangup
    <3>1. Consume /\ used' = used
      BY <1>10, <2>6, Zenon DEF PeerFooter
    <3>2. PeerType'
      BY <1>10, <1>a, <2>1, <2>2, <2>4, <2>6, Zenon DEF TypeOK, PeerType, PeerFooter
    <3> QED BY <1>e, <3>1, <3>2, Zenon
  <2> QED BY <2>5, <2>6
<1> QED BY <1>1, <1>2, <1>3, <1>4, <1>5, <1>6, <1>7, <1>8, <1>9, <1>10 DEF PeerRx

\* Every reachable state of a connection and its peer is well typed: whatever
\* is revoked, reset, retried and resent, out_queue and out_sent hold submitted
\* messages, sequence numbers are numbers and what is skipped on input is at
\* most the rest of a message.
THEOREM TypeCorrect == Spec => []TypeOK
<1>1. Init => TypeOK
  <2> SUFFICES ASSUME Init PROVE TypeOK
    OBVIOUS
  <2>1. /\ NoRx \in [m : Nat, s : Nat, due : DueKinds, ok : BOOLEAN]
        /\ <<>> \in Seq(Token) /\ <<>> \in Seq(Nat) /\ <<>> \in Seq(1..NumMsgs)
        /\ 0 \in 0..NumMsgs /\ 0 \in 0..MaxEvents /\ 0 \in 0..2 /\ 0 \in Nat
        /\ {} \subseteq Flags /\ {} \subseteq 1..NumMsgs /\ {} \subseteq Nat
    BY MessengerAssumption DEF NoRx, NoMsg, DueKinds
  <2>a. /\ [send |-> 0, keepalive |-> 0] \in [send : Nat, keepalive : Nat]
        /\ [m \in 1..NumMsgs |-> 0] \in [1..NumMsgs -> Nat]
    OBVIOUS
  <2>2. ConType /\ SockType /\ OutType /\ MsgType
    BY <2>1, <2>a, Zenon DEF Init, ConInit, ConType, SockType, OutType, MsgType, States, Unlocked, NoMsg
  <2>3. InType /\ UserType /\ HistType /\ PeerType
    BY <2>1, <2>a, Zenon DEF Init, ConInit, InType, UserType, HistType, PeerType, NoMsg
  <2> QED BY <2>2, <2>3 DEF TypeOK
<1>2. TypeOK /\ [Next]_sysVars => TypeOK'
  <2> SUFFICES ASSUME TypeOK, [Next]_sysVars PROVE TypeOK'
    OBVIOUS
  <2>1. CASE ConNext /\ UNCHANGED peerVars
    BY <2>1, UserKeepsType, WorkKeepsType, HandshakeKeepsType, ReadKeepsType, WriteKeepsType, Zenon
       DEF ConNext, con_work, ReadNext
  <2>2. CASE PeerNext
    BY <2>2, NetworkKeepsType, PeerRxKeepsType, Zenon DEF PeerNext
  <2>3. CASE UNCHANGED sysVars
    <3>1. UNCHANGED <<conVars, sockVars, outVars, msgVars, inVars, userVars, used, histVars, peerVars>>
      BY <2>3, Zenon DEF sysVars, vars
    <3> QED BY <3>1, Stutter, Zenon DEF TypeOK
  <2> QED BY <2>1, <2>2, <2>3 DEF Next
<1> QED BY <1>1, <1>2, PTL DEF Spec

============================================================================
