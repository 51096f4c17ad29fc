------------------------ MODULE StreamingCallsProofs ------------------------
(***************************************************************************)
(* Proofs about StreamingCalls, for any number of calls, connections and   *)
(* messages and for any choice of ids.                                     *)
(***************************************************************************)
EXTENDS StreamingCalls, TLAPS

(* The inductive invariant.                                                *)

Early      == {"idle", "load", "store"}
Registered == {"connect", "eval", "enqueue", "recv", "failed"}
Sent       == {"recv", "returned"}

\* An entry of pendingRequests is under the id its call sends, and its call
\* has been handed nothing yet.
PendingInv ==
  \A k \in MessageId : pendingRequests[k] # NoCall =>
    /\ sendId[pendingRequests[k]] = k
    /\ pc[pendingRequests[k]] \in Registered
    /\ resultChannel[pendingRequests[k]] = <<>>

\* A call that has not registered yet has been handed nothing.
EarlyInv == \A c \in Calls : pc[c] \in Early => resultChannel[c] = <<>>

SendIdInv == \A c \in Calls : sendId[c] \in {ReqId[c], Uuid[c]}

\* What a loop is writing or the server has read.
Sending == writing \cup atServer

\* Whatever is queued, being written, at the server, on its way back or being timed belongs to
\* a call that has been sent: its sendId does not change any more.
QueueInv  == \A e \in Conns : \A i \in 1 .. Len(queue[e]) : pc[queue[e][i]] \in Sent
ServerInv == \A m \in Sending : pc[m.call] \in Sent
ReplyInv  == \A c \in replies : pc[c] \in Sent /\ c \in served
TimerInv  == \A c \in Calls : timer[c] # "off" => pc[c] \in Sent
SentInv   == QueueInv /\ ServerInv /\ ReplyInv /\ TimerInv

\* What was handed out came from a sent call.
OriginInv == \A c \in Calls : \A i \in 1 .. Len(resultChannel[c]) :
               pc[resultChannel[c][i].of] \in Sent

Inv == /\ TypeOK /\ PendingInv /\ EarlyInv /\ SendIdInv /\ SentInv /\ OriginInv
       /\ AtMostOneResult /\ AnswerMatchesWireId

-----------------------------------------------------------------------------
(* decodeId yields a message id, changes nothing the second time, and keeps *)
(* strings as they are.                                                    *)
LEMMA DecodeIdFacts ==
  ASSUME NEW k \in MessageId
  PROVE  /\ DecodeId(k) \in MessageId
         /\ DecodeId(DecodeId(k)) = DecodeId(k)
         /\ DecodeId(k).type = "string" => DecodeId(k) = k
         /\ k.type = "string" => DecodeId(k) = k
  BY DEF DecodeId, MessageId

LEMMA TypeInit == Init => TypeOK
  BY IdAssumption, BoundAssumption DEF Init, TypeOK, Conns

(* What the pieces of an action do to the types. *)
LEMMA ConnectType ==
  ASSUME TypeOK, Connect \/ ConnectFails
  PROVE  /\ connected' \in 0 .. MaxConns /\ dialed' \in 0 .. MaxConns
         /\ sendChannel' \in 0 .. MaxConns /\ clearing' \in Nat
  BY BoundAssumption DEF TypeOK, Connect, ConnectFails, conn

LEMMA DeliverType ==
  ASSUME TypeOK, NEW p \in Calls, NEW c \in Calls,
         NEW kind \in {"reply", "timeout"}, Deliver(p, kind, c)
  PROVE  resultChannel' \in [Calls -> Seq(Result)]
  <1>1. [kind |-> kind, id |-> ReqId[p], of |-> c] \in Result
    BY IdAssumption DEF Result
  <1> QED BY <1>1 DEF Deliver, TypeOK

LEMMA TypeStep == TypeOK /\ [Next]_vars => TypeOK'
  <1> SUFFICES ASSUME TypeOK, [Next]_vars PROVE TypeOK'
    OBVIOUS
  <1> USE DEF TypeOK
  <1>1. ASSUME NEW c \in Calls, RequestConnect(c) PROVE TypeOK'
    BY <1>1, ConnectType DEF RequestConnect, Goto, net
  <1>2. ASSUME NEW c \in Calls, LoadPending(c) PROVE TypeOK'
    BY <1>2, IdAssumption DEF LoadPending, Goto, conn, net
  <1>3. ASSUME NEW c \in Calls, StorePending(c) PROVE TypeOK'
    BY <1>3 DEF StorePending, Goto, conn, net
  <1>4. ASSUME NEW c \in Calls, SendConnect(c) PROVE TypeOK'
    BY <1>4, ConnectType DEF SendConnect, Goto, net
  <1>5. ASSUME NEW c \in Calls, EvalSendChannel(c) PROVE TypeOK'
    BY <1>5 DEF EvalSendChannel, Goto, conn, net
  <1>6. ASSUME NEW c \in Calls, Enqueue(c) PROVE TypeOK'
    <2>1. channelOf[c] \in Conns
      BY <1>6, BoundAssumption DEF Enqueue, Conns
    <2> QED BY <1>6, <2>1 DEF Enqueue, StartExpire, Goto, conn, net
  <1>7. ASSUME NEW c \in Calls, Return(c) PROVE TypeOK'
    BY <1>7 DEF Return, Goto, conn, net
  <1>8. ASSUME NEW c \in Calls, HandleResult(c) PROVE TypeOK'
    <2> DEFINE k == DecodeId(sendId[c])
               p == Pending(k)
    <2>1. k \in MessageId
      BY DecodeIdFacts
    <2>2. CASE p = NoCall
      BY <1>8, <2>2 DEF HandleResult, ToHandler, conn, net
    <2>3. CASE p # NoCall
      <3>1. p \in Calls
        BY <2>1, <2>3 DEF Pending
      <3>2. resultChannel' \in [Calls -> Seq(Result)]
        BY <1>8, <2>3, <3>1, DeliverType DEF HandleResult
      <3> QED BY <1>8, <2>1, <2>3, <3>2 DEF HandleResult, LoadAndDelete, conn, net
    <2> QED BY <2>2, <2>3
  <1>9. ASSUME NEW c \in Calls, Expire(c) PROVE TypeOK'
    <2> DEFINE p == Pending(sendId[c])
    <2>2. CASE p = NoCall
      BY <1>9, <2>2 DEF Expire, conn, net
    <2>3. CASE p # NoCall
      <3>1. p \in Calls
        BY <2>3 DEF Pending
      <3>2. resultChannel' \in [Calls -> Seq(Result)]
        BY <1>9, <2>3, <3>1, DeliverType DEF Expire
      <3> QED BY <1>9, <2>3, <3>2 DEF Expire, LoadAndDelete, conn, net
    <2> QED BY <2>2, <2>3
  <1>10. ASSUME NEW l \in Conns, NEW e \in Conns, Take(l, e) PROVE TypeOK'
    <2>1. queue' \in [Conns -> Seq(Calls)]
      BY <1>10 DEF Take
    <2>2. Head(queue[e]) \in Calls
      BY <1>10 DEF Take
    <2>3. writing' \subseteq [call : Calls, by : Conns, on : Conns]
      <3>1. connected # 0 => connected \in Conns
        BY BoundAssumption DEF Conns
      <3>2. writing' = writing \cup (IF connected = 0 THEN {}
              ELSE {[call |-> Head(queue[e]), by |-> l, on |-> connected]})
        BY <1>10 DEF Take
      <3> QED BY <2>2, <3>1, <3>2
    <2> QED BY <1>10, <2>1, <2>3 DEF Take, conn
  <1>17. ASSUME NEW w \in writing, Write(w) PROVE TypeOK'
    <2>1. /\ writing' \subseteq [call : Calls, by : Conns, on : Conns]
          /\ atServer' \subseteq [call : Calls, on : Conns]
      BY <1>17 DEF Write
    <2> QED BY <1>17, <2>1 DEF Write, conn
  <1>11. ASSUME NEW m \in atServer, ServerReply(m) PROVE TypeOK'
    BY <1>11 DEF ServerReply, conn, net
  <1>12. ASSUME NEW p \in Pushes, ServerPush(p) PROVE TypeOK'
    BY <1>12 DEF ServerPush, conn, net
  <1>13. ASSUME NEW p \in Pushes, HandlePush(p) PROVE TypeOK'
    BY <1>13 DEF HandlePush, ToHandler, conn, net
  <1>14. CASE TransportClose
    BY <1>14, BoundAssumption DEF TransportClose, net
  <1>15. CASE ClearSendChannel
    BY <1>15, BoundAssumption DEF ClearSendChannel, net
  <1>16. CASE UNCHANGED vars
    BY <1>16 DEF vars, conn, net
  <1> QED
    BY <1>1, <1>2, <1>3, <1>4, <1>5, <1>6, <1>7, <1>8, <1>9, <1>10, <1>11,
       <1>12, <1>13, <1>14, <1>15, <1>16, <1>17 DEF Next, Request

\* Every variable of the client keeps its type: in particular the id that comes
\* back from the wire is always one pendingRequests can be asked for.
THEOREM TypeCorrect == Spec => []TypeOK
  BY TypeInit, TypeStep, PTL DEF Spec

-----------------------------------------------------------------------------
(* The invariant beyond the types.                                         *)

LEMMA InvInit == Init => Inv
  <1> SUFFICES ASSUME Init PROVE Inv
    OBVIOUS
  <1>1. TypeOK
    BY TypeInit
  <1>2. PendingInv /\ EarlyInv /\ SendIdInv /\ SentInv
    BY <1>1, IdAssumption
    DEF Init, PendingInv, EarlyInv, SendIdInv, SentInv, QueueInv, ServerInv, Sending,
        ReplyInv, TimerInv, TypeOK, Early
  <1>3. OriginInv /\ AtMostOneResult /\ AnswerMatchesWireId
    BY DEF Init, OriginInv, AtMostOneResult, AnswerMatchesWireId
  <1> QED BY <1>1, <1>2, <1>3 DEF Inv

\* What is on a resultChannel names the call it comes from.
LEMMA ResultOf ==
  ASSUME TypeOK, NEW c \in Calls, NEW i \in 1 .. Len(resultChannel[c])
  PROVE  resultChannel[c][i].of \in Calls
  <1>1. resultChannel[c] \in Seq(Result)
    BY DEF TypeOK
  <1>2. resultChannel[c][i] \in Result
    BY <1>1
  <1> QED BY <1>2 DEF Result

\* A call that was sent stays sent.
SentStays == \A d \in Calls : pc[d] \in Sent => pc'[d] \in Sent

LEMMA QueueFrame ==
  ASSUME TypeOK, QueueInv, SentStays, UNCHANGED queue
  PROVE  QueueInv'
  <1> SUFFICES ASSUME NEW e \in Conns, NEW i \in 1 .. Len(queue[e])
               PROVE  pc'[queue[e][i]] \in Sent
    BY DEF QueueInv, Sent
  <1>1. queue[e] \in Seq(Calls)
    BY DEF TypeOK
  <1>2. queue[e][i] \in Calls
    BY <1>1
  <1> QED BY <1>2 DEF QueueInv, SentStays

LEMMA ServerFrame ==
  ASSUME TypeOK, ServerInv, SentStays, Sending' \subseteq Sending
  PROVE  ServerInv'
  BY DEF TypeOK, ServerInv, Sending, SentStays, Sent

LEMMA ReplyFrame ==
  ASSUME TypeOK, ReplyInv, SentStays, replies' \subseteq replies, served \subseteq served'
  PROVE  ReplyInv'
  BY DEF TypeOK, ReplyInv, SentStays, Sent

LEMMA TimerFrame ==
  ASSUME TypeOK, TimerInv, SentStays, UNCHANGED timer
  PROVE  TimerInv'
  BY DEF TypeOK, TimerInv, SentStays, Sent

\* AnswerMatchesWireId after a step, with what it speaks of primed one by one.
LEMMA MatchesAfter ==
  ASSUME \A d \in Calls : \A i \in 1 .. Len(resultChannel'[d]) :
           LET q == resultChannel'[d][i] IN
           /\ q.id = ReqId[d]
           /\ q.kind = "reply" => DecodeId(sendId'[q.of]) = sendId'[d] /\ q.of \in served'
           /\ q.kind = "timeout" => sendId'[q.of] = sendId'[d] /\ timer'[q.of] = "fired"
  PROVE  AnswerMatchesWireId'
  BY DEF AnswerMatchesWireId, DecodeId

\* What was handed out keeps its justification as long as the ids on the wire
\* do not change.
LEMMA ResultFrame ==
  ASSUME TypeOK, OriginInv, AtMostOneResult, AnswerMatchesWireId,
         SentStays, UNCHANGED <<sendId, resultChannel>>, served \subseteq served',
         \A d \in Calls : timer[d] = "fired" => timer'[d] = "fired"
  PROVE  OriginInv' /\ AtMostOneResult' /\ AnswerMatchesWireId'
  <1>1. OriginInv'
    BY ResultOf DEF OriginInv, SentStays, Sent
  <1>2. AnswerMatchesWireId'
    BY ResultOf, SMTT(30) DEF AnswerMatchesWireId, DecodeId
  <1> QED BY <1>1, <1>2 DEF AtMostOneResult

\* The steps of request that move only the program counter, past Load and
\* outside the sends: nothing the invariant says is disturbed.
LEMMA GotoStep ==
  ASSUME Inv, TypeOK', NEW c \in Calls, NEW label,
         Goto(c, label),
         \/ pc[c] = "idle" /\ label \in {"load", "failed"}
         \/ pc[c] = "connect" /\ label \in {"eval", "failed"}
         \/ pc[c] = "eval" /\ label = "enqueue"
         \/ pc[c] = "recv" /\ label = "returned" /\ resultChannel[c] # <<>>,
         UNCHANGED <<sendId, pendingRequests, queue, net, resultChannel, timer>>
  PROVE  Inv'
  <1> USE DEF Inv, TypeOK
  <1>1. SentStays
    BY DEF Goto, SentStays, Sent
  <1>2. PendingInv'
    BY DEF PendingInv, Registered, Goto
  <1>3. EarlyInv'
    BY DEF EarlyInv, Early, Goto
  <1>4. SentInv'
    BY <1>1, QueueFrame, ServerFrame, ReplyFrame, TimerFrame DEF SentInv, Sending, net
  <1>5. SendIdInv'
    BY DEF SendIdInv
  <1> QED BY <1>1, <1>2, <1>3, <1>4, <1>5, ResultFrame DEF net

\* Taking an entry out and handing its call a message, by handleResult or by
\* expire: the call had been handed nothing, and is in no other entry.
LEMMA DeliverStep ==
  ASSUME Inv, TypeOK', NEW c \in Calls, NEW k \in MessageId,
         NEW kind \in {"reply", "timeout"},
         pendingRequests[k] \in Calls,
         LoadAndDelete(k), Deliver(pendingRequests[k], kind, c),
         pc[c] \in Sent,
         kind = "reply" => DecodeId(sendId[c]) = k /\ c \in served',
         kind = "timeout" => sendId[c] = k /\ timer'[c] = "fired",
         UNCHANGED <<pc, sendId>>, served \subseteq served',
         \A d \in Calls : timer[d] = "fired" => timer'[d] = "fired"
  PROVE  /\ PendingInv' /\ EarlyInv' /\ OriginInv'
         /\ AtMostOneResult' /\ AnswerMatchesWireId'
  <1> DEFINE p == pendingRequests[k]
             r == [kind |-> kind, id |-> ReqId[p], of |-> c]
  <1> USE DEF Inv
  <1>1. sendId[p] = k /\ pc[p] \in Registered /\ resultChannel[p] = <<>>
    BY CallsAssumption DEF PendingInv
  <1>2. resultChannel' = [resultChannel EXCEPT ![p] = <<r>>]
    BY <1>1 DEF Deliver, TypeOK
  <1>3. resultChannel'[p] = <<r>> /\ \A d \in Calls \ {p} : resultChannel'[d] = resultChannel[d]
    BY <1>2 DEF TypeOK
  <1>4. PendingInv'
    BY <1>3, CallsAssumption DEF PendingInv, LoadAndDelete, TypeOK
  <1>5. EarlyInv'
    BY <1>1, <1>3 DEF EarlyInv, Early, Registered
  <1>6. AtMostOneResult'
    <2>1. \A d \in Calls \ {p} : Len(resultChannel'[d]) <= 1
      BY <1>3 DEF AtMostOneResult
    <2>2. Len(resultChannel'[p]) <= 1
      <3> HIDE DEF p, r
      <3> QED BY <1>3
    <2> QED BY <2>1, <2>2 DEF AtMostOneResult
  <1>7. OriginInv'
    BY <1>3 DEF OriginInv, Sent
  <1>8. AnswerMatchesWireId'
    <2>1. ASSUME NEW d \in Calls, NEW i \in 1 .. Len(resultChannel'[d])
          PROVE  LET q == resultChannel'[d][i] IN
                 /\ q.id = ReqId[d]
                 /\ q.kind = "reply" => /\ DecodeId(sendId[q.of]) = sendId[d]
                                        /\ q.of \in served'
                 /\ q.kind = "timeout" => /\ sendId[q.of] = sendId[d]
                                          /\ timer'[q.of] = "fired"
      <3>1. CASE d = p
        <4>1. resultChannel'[d][i] = r
          BY <1>3, <3>1
        <4> QED BY <1>1, <3>1, <4>1
      <3>2. CASE d # p
        BY <1>3, <3>2, ResultOf DEF AnswerMatchesWireId
      <3> QED BY <3>1, <3>2
    <2>2. sendId' = sendId
      OBVIOUS
    <2> QED BY ONLY <2>1, <2>2, MatchesAfter
  <1> QED BY <1>4, <1>5, <1>6, <1>7, <1>8

LEMMA InvStep == Inv /\ [Next]_vars => Inv'
  <1> SUFFICES ASSUME Inv, [Next]_vars PROVE Inv'
    OBVIOUS
  <1>0. TypeOK /\ TypeOK'
    BY TypeStep DEF Inv
  <1>1. ASSUME NEW c \in Calls, RequestConnect(c) PROVE Inv'
    BY <1>0, <1>1, GotoStep DEF RequestConnect
  <1>2. ASSUME NEW c \in Calls, LoadPending(c) PROVE Inv'
    <2> USE DEF Inv
    <2>1. SentStays /\ UNCHANGED <<queue, net, timer, resultChannel, pendingRequests>>
      BY <1>0, <1>2 DEF LoadPending, Goto, SentStays, Sent, TypeOK
    <2>2. \A d \in Calls \ {c} : sendId'[d] = sendId[d] /\ pc'[d] = pc[d]
      BY <1>0, <1>2 DEF LoadPending, Goto, TypeOK
    <2>3. pc[c] = "load" /\ pc'[c] = "store" /\ resultChannel[c] = <<>>
      BY <1>0, <1>2 DEF LoadPending, Goto, TypeOK, EarlyInv, Early
    <2>4. PendingInv'
      <3> SUFFICES ASSUME NEW k \in MessageId, pendingRequests[k] # NoCall
                   PROVE  /\ sendId'[pendingRequests[k]] = k
                          /\ pc'[pendingRequests[k]] \in Registered
                          /\ resultChannel'[pendingRequests[k]] = <<>>
        BY <2>1 DEF PendingInv, Registered
      <3>1. pendingRequests[k] \in Calls \ {c}
        <4>1. pendingRequests[k] \in Calls
          BY <1>0 DEF TypeOK
        <4>2. pc[pendingRequests[k]] # "load"
          BY DEF PendingInv, Registered
        <4> QED BY <2>3, <4>1, <4>2
      <3> QED BY <2>1, <2>2, <3>1 DEF PendingInv
    <2>5. EarlyInv' /\ SendIdInv'
      BY <1>0, <1>2, <2>1, <2>2, <2>3, SMTT(30)
         DEF EarlyInv, Early, SendIdInv, LoadPending, TypeOK
    <2>6. SentInv'
      BY <1>0, <2>1, QueueFrame, ServerFrame, ReplyFrame, TimerFrame DEF SentInv, Sending, net
    <2>7. OriginInv' /\ AtMostOneResult'
      BY <1>0, <2>1, ResultOf DEF OriginInv, SentStays, Sent, AtMostOneResult
    <2>8. AnswerMatchesWireId'
      <3>1. ASSUME NEW d \in Calls, NEW i \in 1 .. Len(resultChannel[d])
            PROVE  sendId'[d] = sendId[d] /\ sendId'[resultChannel[d][i].of]
                                             = sendId[resultChannel[d][i].of]
        <4>1. d # c
          BY <2>3, <3>1
        <4>2. resultChannel[d][i].of \in Calls \ {c}
          BY <1>0, <2>3, <3>1, ResultOf DEF OriginInv, Sent
        <4> QED BY <2>2, <4>1, <4>2
      <3>2. UNCHANGED <<resultChannel, served, timer>>
        BY ONLY <2>1 DEF net
      <3>3. AnswerMatchesWireId
        OBVIOUS
      <3> QED BY ONLY <3>1, <3>2, <3>3, MatchesAfter DEF AnswerMatchesWireId
    <2> QED BY <1>0, <2>4, <2>5, <2>6, <2>7, <2>8
  <1>3. ASSUME NEW c \in Calls, StorePending(c) PROVE Inv'
    <2> USE DEF Inv
    <2>1. SentStays /\ UNCHANGED <<queue, net, timer, resultChannel, sendId>>
      BY <1>0, <1>3 DEF StorePending, Goto, SentStays, Sent, TypeOK
    <2>2. PendingInv'
      <3>1. resultChannel[c] = <<>>
        BY <1>3 DEF StorePending, EarlyInv, Early
      <3> QED BY <1>0, <1>3, <2>1, <3>1 DEF StorePending, Goto, PendingInv, Registered, TypeOK
    <2>3. EarlyInv' /\ SendIdInv'
      BY <1>0, <1>3, <2>1 DEF StorePending, Goto, EarlyInv, Early, SendIdInv, TypeOK
    <2>4. SentInv'
      BY <1>0, <2>1, QueueFrame, ServerFrame, ReplyFrame, TimerFrame DEF SentInv, Sending, net
    <2> QED BY <1>0, <2>1, <2>2, <2>3, <2>4, ResultFrame DEF net
  <1>4. ASSUME NEW c \in Calls, SendConnect(c) PROVE Inv'
    BY <1>0, <1>4, GotoStep DEF SendConnect
  <1>5. ASSUME NEW c \in Calls, EvalSendChannel(c) PROVE Inv'
    BY <1>0, <1>5, GotoStep DEF EvalSendChannel
  <1>6. ASSUME NEW c \in Calls, Enqueue(c) PROVE Inv'
    <2> USE DEF Inv
    <2>1. SentStays /\ UNCHANGED <<net, resultChannel, sendId, pendingRequests>>
      BY <1>0, <1>6 DEF Enqueue, Goto, SentStays, Sent, TypeOK
    <2>2. PendingInv' /\ EarlyInv' /\ SendIdInv'
      BY <1>0, <1>6, <2>1
      DEF Enqueue, Goto, PendingInv, EarlyInv, Early, SendIdInv, Registered, TypeOK
    <2>3. QueueInv'
      <3> SUFFICES ASSUME NEW e \in Conns, NEW i \in 1 .. Len(queue'[e])
                   PROVE  pc'[queue'[e][i]] \in Sent
        BY DEF QueueInv, Sent
      <3>1. queue[e] \in Seq(Calls) /\ pc'[c] \in Sent
        BY <1>0, <1>6 DEF TypeOK, Enqueue, Goto, Sent
      <3>2. queue'[e] = queue[e] \/ queue'[e] = Append(queue[e], c)
        BY <1>0, <1>6 DEF Enqueue, TypeOK
      <3>3. queue'[e][i] = c \/ (i \in 1 .. Len(queue[e]) /\ queue'[e][i] = queue[e][i])
        BY <3>1, <3>2
      <3>4. i \in 1 .. Len(queue[e]) => queue[e][i] \in Calls
        BY <3>1
      <3> QED BY <2>1, <3>1, <3>3, <3>4 DEF QueueInv, SentInv, SentStays
    <2>4. TimerInv'
      BY <1>0, <1>6, <2>1 DEF Enqueue, StartExpire, Goto, TimerInv, SentInv, Sent, TypeOK
    <2>5. SentInv'
      BY <1>0, <2>1, <2>3, <2>4, ServerFrame, ReplyFrame DEF SentInv, Sending, net
    <2>6. \A d \in Calls : timer[d] = "fired" => timer'[d] = "fired"
      BY <1>0, <1>6 DEF Enqueue, StartExpire, TimerInv, SentInv, Sent, TypeOK
    <2> QED BY <1>0, <2>1, <2>2, <2>5, <2>6, ResultFrame DEF net
  <1>7. ASSUME NEW c \in Calls, Return(c) PROVE Inv'
    BY <1>0, <1>7, GotoStep DEF Return
  <1>8. ASSUME NEW c \in Calls, HandleResult(c) PROVE Inv'
    <2> DEFINE k == DecodeId(sendId[c])
    <2> USE DEF Inv
    <2>1. k \in MessageId
      BY <1>0, DecodeIdFacts DEF TypeOK
    <2>2. SentStays /\ UNCHANGED <<pc, sendId, queue, writing, atServer, served, timer>>
      BY <1>8 DEF HandleResult, SentStays, conn
    <2>3. SendIdInv' /\ SentInv'
      <3>1. replies' \subseteq replies
        BY <1>8 DEF HandleResult
      <3> QED BY <1>0, <2>2, <3>1, QueueFrame, ServerFrame, ReplyFrame, TimerFrame
              DEF SentInv, Sending, SendIdInv
    <2>4. CASE pendingRequests[k] = NoCall
      <3>1. UNCHANGED <<pendingRequests, resultChannel>>
        BY <1>8, <2>4 DEF HandleResult, Pending
      <3>2. PendingInv' /\ EarlyInv'
        BY <2>2, <3>1 DEF PendingInv, EarlyInv
      <3> QED BY <1>0, <2>2, <2>3, <3>1, <3>2, ResultFrame
    <2>5. CASE pendingRequests[k] # NoCall
      <3>1. pendingRequests[k] \in Calls
        BY <1>0, <2>1, <2>5 DEF TypeOK
      <3>2. LoadAndDelete(k) /\ Deliver(pendingRequests[k], "reply", c)
        BY <1>8, <2>5 DEF HandleResult, Pending
      <3>3. pc[c] \in Sent /\ c \in served
        BY <1>8 DEF HandleResult, SentInv, ReplyInv
      <3> QED BY <1>0, <2>1, <2>2, <2>3, <3>1, <3>2, <3>3, DeliverStep
    <2> QED BY <2>4, <2>5
  <1>9. ASSUME NEW c \in Calls, Expire(c) PROVE Inv'
    <2> DEFINE k == sendId[c]
    <2> USE DEF Inv
    <2>1. k \in MessageId
      BY <1>0 DEF TypeOK
    <2>2. SentStays /\ UNCHANGED <<pc, sendId, queue, writing, atServer, served, replies>>
      BY <1>9 DEF Expire, SentStays, conn, net
    <2>3. timer[c] = "armed" /\ timer' = [timer EXCEPT ![c] = "fired"]
      BY <1>9 DEF Expire
    <2>4. \A d \in Calls : /\ timer[d] = "fired" => timer'[d] = "fired"
                           /\ timer'[d] # "off" => timer[d] # "off"
      BY <1>0, <2>3 DEF TypeOK
    <2>5. SendIdInv' /\ SentInv'
      <3>1. TimerInv'
        BY <2>2, <2>4 DEF SentInv, TimerInv, Sent
      <3> QED BY <1>0, <2>2, <3>1, QueueFrame, ServerFrame, ReplyFrame
              DEF SentInv, Sending, SendIdInv
    <2>6. CASE pendingRequests[k] = NoCall
      <3>1. UNCHANGED <<pendingRequests, resultChannel>>
        BY <1>9, <2>6 DEF Expire, Pending
      <3>2. PendingInv' /\ EarlyInv'
        BY <2>2, <3>1 DEF PendingInv, EarlyInv
      <3> QED BY <1>0, <2>2, <2>4, <2>5, <3>1, <3>2, ResultFrame
    <2>7. CASE pendingRequests[k] # NoCall
      <3>1. pendingRequests[k] \in Calls
        BY <1>0, <2>1, <2>7 DEF TypeOK
      <3>2. LoadAndDelete(k) /\ Deliver(pendingRequests[k], "timeout", c)
        BY <1>9, <2>7 DEF Expire, Pending
      <3>3. pc[c] \in Sent /\ timer'[c] = "fired"
        BY <1>0, <2>3 DEF SentInv, TimerInv, TypeOK
      <3> QED BY <1>0, <2>1, <2>2, <2>4, <2>5, <3>1, <3>2, <3>3, DeliverStep
    <2> QED BY <2>6, <2>7
  <1>10. ASSUME NEW l \in Conns, NEW e \in Conns, Take(l, e) PROVE Inv'
    <2> USE DEF Inv
    <2>1. SentStays /\ UNCHANGED <<pc, sendId, pendingRequests, served, replies,
                                   resultChannel, timer>>
      BY <1>10 DEF Take, SentStays
    <2>2. PendingInv' /\ EarlyInv' /\ SendIdInv'
      BY <2>1 DEF PendingInv, EarlyInv, SendIdInv
    <2>3. queue[e] \in Seq(Calls) /\ queue[e] # <<>>
      BY <1>0, <1>10 DEF Take, TypeOK
    <2>4. Head(queue[e]) \in Calls /\ pc[Head(queue[e])] \in Sent
      <3>1. Head(queue[e]) = queue[e][1] /\ 1 \in 1 .. Len(queue[e]) /\ queue[e][1] \in Calls
        BY <2>3
      <3> QED BY <3>1 DEF SentInv, QueueInv
    <2>5. ServerInv'
      BY <1>10, <2>1, <2>4 DEF Take, SentInv, ServerInv, Sending, Sent
    <2>6. QueueInv'
      <3> SUFFICES ASSUME NEW f \in Conns, NEW i \in 1 .. Len(queue'[f])
                   PROVE  pc[queue'[f][i]] \in Sent
        BY <2>1 DEF QueueInv, Sent
      <3>1. CASE f # e
        BY <1>0, <1>10, <3>1 DEF Take, TypeOK, SentInv, QueueInv
      <3>2. CASE f = e
        <4>1. queue'[e] = Tail(queue[e])
          BY <1>0, <1>10 DEF Take, TypeOK
        <4>2. i + 1 \in 1 .. Len(queue[e]) /\ queue'[e][i] = queue[e][i + 1]
          BY <2>3, <3>2, <4>1
        <4> QED BY <3>2, <4>2 DEF SentInv, QueueInv
      <3> QED BY <3>1, <3>2
    <2>7. SentInv'
      BY <1>0, <2>1, <2>5, <2>6, ReplyFrame, TimerFrame DEF SentInv
    <2> QED BY <1>0, <2>1, <2>2, <2>7, ResultFrame
  <1>17. ASSUME NEW w \in writing, Write(w) PROVE Inv'
    <2> USE DEF Inv
    <2>1. SentStays /\ UNCHANGED <<pc, sendId, pendingRequests, queue, served, replies,
                                   resultChannel, timer>>
      BY <1>17 DEF Write, SentStays
    <2>2. PendingInv' /\ EarlyInv' /\ SendIdInv'
      BY <2>1 DEF PendingInv, EarlyInv, SendIdInv
    <2>3. ServerInv'
      BY <1>17, <2>1 DEF Write, SentInv, ServerInv, Sending, Sent
    <2>4. SentInv'
      BY <1>0, <2>1, <2>3, QueueFrame, ReplyFrame, TimerFrame DEF SentInv
    <2> QED BY <1>0, <2>1, <2>2, <2>4, ResultFrame
  <1>11. ASSUME NEW m \in atServer, ServerReply(m) PROVE Inv'
    <2> USE DEF Inv
    <2>1. SentStays /\ UNCHANGED <<pc, sendId, pendingRequests, queue, resultChannel, timer>>
      BY <1>11 DEF ServerReply, SentStays
    <2>2. PendingInv' /\ EarlyInv' /\ SendIdInv'
      BY <2>1 DEF PendingInv, EarlyInv, SendIdInv
    <2>3. ReplyInv'
      BY <1>11, <2>1 DEF ServerReply, SentInv, ServerInv, ReplyInv, Sending, Sent
    <2>4. Sending' \subseteq Sending /\ served \subseteq served'
      BY <1>11 DEF ServerReply, Sending
    <2>5. SentInv'
      BY <1>0, <2>1, <2>3, <2>4, QueueFrame, ServerFrame, TimerFrame DEF SentInv
    <2> QED BY <1>0, <2>1, <2>2, <2>4, <2>5, ResultFrame
  <1>12. ASSUME UNCHANGED <<pc, sendId, pendingRequests, queue, writing, atServer,
                            served, resultChannel, timer>>,
                replies' \subseteq replies
         PROVE  Inv'
    <2> USE DEF Inv
    <2>1. SentStays
      BY <1>12 DEF SentStays
    <2>2. PendingInv' /\ EarlyInv' /\ SendIdInv'
      BY <1>12 DEF PendingInv, EarlyInv, SendIdInv
    <2>3. SentInv'
      BY <1>0, <1>12, <2>1, QueueFrame, ServerFrame, ReplyFrame, TimerFrame DEF SentInv, Sending
    <2> QED BY <1>0, <1>12, <2>1, <2>2, <2>3, ResultFrame
  <1>13. ASSUME NEW p \in Pushes, ServerPush(p) \/ HandlePush(p) PROVE Inv'
    BY <1>12, <1>13 DEF ServerPush, HandlePush
  <1>14. CASE TransportClose
    BY <1>12, <1>14 DEF TransportClose
  <1>15. CASE ClearSendChannel
    BY <1>12, <1>15 DEF ClearSendChannel, net
  <1>16. CASE UNCHANGED vars
    BY <1>12, <1>16 DEF vars, net
  <1> QED
    BY <1>1, <1>2, <1>3, <1>4, <1>5, <1>6, <1>7, <1>8, <1>9, <1>10, <1>11,
       <1>13, <1>14, <1>15, <1>16, <1>17 DEF Next, Request

LEMMA InvAlways == Spec => []Inv
  BY InvInit, InvStep, PTL DEF Spec

\* However many calls race, with whatever ids, no call is ever handed two
\* messages: taking the entry out of pendingRequests decides between
\* handleResult and expire.
THEOREM OneResult == Spec => []AtMostOneResult
  <1>1. Inv => AtMostOneResult
    BY DEF Inv
  <1> QED BY <1>1, InvAlways, PTL

\* What a call is handed always comes from the server or from a timer under the
\* very id the call is registered with, and carries the id the caller chose.
THEOREM AnswersMatch == Spec => []AnswerMatchesWireId
  <1>1. Inv => AnswerMatchesWireId
    BY DEF Inv
  <1> QED BY <1>1, InvAlways, PTL

-----------------------------------------------------------------------------
(* Distinct ids.                                                           *)

\* When the ids differ on the wire, one id names one call: also when it is the
\* uuid of a clone.
LEMMA WireIdNamesCall ==
  ASSUME DistinctIds, TypeOK, SendIdInv, NEW c \in Calls, NEW d \in Calls,
         DecodeId(sendId[d]) = sendId[c]
  PROVE  d = c
  <1>1. /\ ReqId[c] \in MessageId /\ ReqId[d] \in MessageId
        /\ Uuid[c] \in MessageId /\ Uuid[d] \in MessageId
    BY IdAssumption
  <1>2. CASE sendId[d] = Uuid[d]
    BY <1>1, <1>2, DecodeIdFacts, UuidAssumption DEF SendIdInv
  <1>3. CASE sendId[d] = ReqId[d] /\ sendId[c] = Uuid[c]
    BY <1>1, <1>3, DecodeIdFacts, UuidAssumption
  <1>4. CASE sendId[d] = ReqId[d] /\ sendId[c] = ReqId[c]
    BY <1>1, <1>4, DecodeIdFacts DEF DistinctIds
  <1> QED BY <1>2, <1>3, <1>4 DEF SendIdInv

LEMMA TimerIdNamesCall ==
  ASSUME DistinctIds, TypeOK, SendIdInv, NEW c \in Calls, NEW d \in Calls,
         sendId[d] = sendId[c]
  PROVE  d = c
  <1>1. CASE sendId[d] = Uuid[d]
    BY <1>1, UuidAssumption DEF SendIdInv
  <1>2. CASE sendId[d] = ReqId[d]
    BY <1>2, UuidAssumption DEF SendIdInv, DistinctIds
  <1> QED BY <1>1, <1>2 DEF SendIdInv

LEMMA InvOwnAnswer == DistinctIds /\ Inv => OwnAnswer
  <1> SUFFICES ASSUME DistinctIds, Inv, NEW c \in Calls,
                      NEW i \in 1 .. Len(resultChannel[c])
               PROVE  resultChannel[c][i].of = c
    BY DEF OwnAnswer
  <1> USE DEF Inv
  <1>1. resultChannel[c][i] \in Result
    <2>1. resultChannel[c] \in Seq(Result)
      BY DEF TypeOK
    <2> QED BY <2>1
  <1>2. resultChannel[c][i].of \in Calls /\ resultChannel[c][i].kind \in {"reply", "timeout"}
    BY <1>1 DEF Result
  <1> QED BY <1>2, WireIdNamesCall, TimerIdNamesCall DEF AnswerMatchesWireId

\* If the callers' ids differ on the wire, every call is handed the answer to
\* its own request or its own timeout.
THEOREM OwnAnswers == DistinctIds /\ Spec => []OwnAnswer
  <1> SUFFICES ASSUME DistinctIds PROVE Spec => []OwnAnswer
    OBVIOUS
  <1>1. Inv => OwnAnswer
    BY InvOwnAnswer
  <1> QED BY <1>1, InvAlways, PTL

-----------------------------------------------------------------------------
(* Refinement of RpcCalls.                                                 *)

\* One call changes its phase and the server does nothing.
LEMMA PhaseStep ==
  ASSUME NEW c \in Calls, NEW from, NEW to,
         Phase(c) \in from, Phase(c)' = to,
         \A d \in Calls \ {c} : Phase(d)' = Phase(d),
         UNCHANGED served
  PROVE  Abstract!Settle(c, from, to)
  BY DEF Abstract!Settle

LEMMA PhaseStutter ==
  ASSUME \A d \in Calls : Phase(d)' = Phase(d), UNCHANGED served
  PROVE  UNCHANGED Abstract!vars
  BY DEF Abstract!vars

\* Handing a sent call its first message settles it.
LEMMA PhaseDeliver ==
  ASSUME TypeOK, NEW c \in Calls, NEW kind \in {"reply", "timeout"},
         Deliver(c, kind, c), UNCHANGED <<pc, served>>,
         pc[c] \in Sent, resultChannel[c] = <<>>
  PROVE  Abstract!Settle(c, {"busy"}, IF kind = "reply" THEN "answered" ELSE "timedout")
  <1> DEFINE r == [kind |-> kind, id |-> ReqId[c], of |-> c]
  <1>1. /\ resultChannel'[c] = <<r>>
        /\ \A d \in Calls \ {c} : resultChannel'[d] = resultChannel[d]
    BY DEF Deliver, TypeOK
  <1>2. Phase(c) = "busy"
    BY DEF Phase, Sent
  <1>3. Phase(c)' = IF kind = "reply" THEN "answered" ELSE "timedout"
    BY <1>1 DEF Phase
  <1>4. \A d \in Calls \ {c} : Phase(d)' = Phase(d)
    BY <1>1 DEF Phase
  <1> QED BY <1>2, <1>3, <1>4, PhaseStep

LEMMA RefineInit == Init => Abstract!Init
  BY DEF Init, Abstract!Init, Phase

LEMMA RefineStep ==
  ASSUME DistinctIds, Inv, Inv', [Next]_vars
  PROVE  [Abstract!Next]_(Abstract!vars)
  <1> USE DEF Inv
  <1>1. ASSUME UNCHANGED <<pc, resultChannel, served>> PROVE UNCHANGED Abstract!vars
    <2>1. \A d \in Calls : Phase(d)' = Phase(d)
      BY <1>1 DEF Phase
    <2> QED BY <1>1, <2>1, PhaseStutter
  <1>2. ASSUME NEW c \in Calls, NEW label \in {"store", "connect", "eval", "enqueue", "recv"},
               Goto(c, label), pc[c] \in {"load", "store", "connect", "eval", "enqueue"},
               UNCHANGED <<resultChannel, served>>
        PROVE  UNCHANGED Abstract!vars
    <2>1. \A d \in Calls : Phase(d)' = Phase(d)
      BY <1>2 DEF Phase, Goto, TypeOK
    <2> QED BY <1>2, <2>1, PhaseStutter
  <1>3. ASSUME NEW c \in Calls, RequestConnect(c)
        PROVE  Abstract!Begin(c) \/ Abstract!Fail(c)
    <2>1. /\ resultChannel[c] = <<>>
          /\ UNCHANGED <<resultChannel, served>> /\ pc[c] = "idle"
      BY <1>3 DEF RequestConnect, EarlyInv, Early, net
    <2>2. Phase(c) = "idle"
      BY <2>1 DEF Phase
    <2>3. CASE Goto(c, "load")
      <3>1. Phase(c)' = "busy" /\ \A d \in Calls \ {c} : Phase(d)' = Phase(d)
        BY <2>1, <2>3 DEF Goto, Phase, TypeOK
      <3>2. Abstract!Settle(c, {"idle"}, "busy")
        BY <2>1, <2>2, <3>1, PhaseStep
      <3> QED BY <3>2 DEF Abstract!Begin
    <2>4. CASE Goto(c, "failed")
      <3>1. Phase(c)' = "failed" /\ \A d \in Calls \ {c} : Phase(d)' = Phase(d)
        BY <2>1, <2>4 DEF Goto, Phase, TypeOK
      <3>2. Abstract!Settle(c, {"idle", "busy"}, "failed")
        BY <2>1, <2>2, <3>1, PhaseStep
      <3> QED BY <3>2 DEF Abstract!Fail
    <2> QED BY <1>3, <2>3, <2>4 DEF RequestConnect
  <1>4. ASSUME NEW c \in Calls, SendConnect(c)
        PROVE  Abstract!Fail(c) \/ UNCHANGED Abstract!vars
    <2>1. UNCHANGED <<resultChannel, served>> /\ pc[c] = "connect"
      BY <1>4 DEF SendConnect, net
    <2>2. CASE Goto(c, "eval")
      BY <1>2, <2>1, <2>2
    <2>3. CASE Goto(c, "failed") /\ resultChannel[c] = <<>>
      <3>1. /\ Phase(c) = "busy" /\ Phase(c)' = "failed"
            /\ \A d \in Calls \ {c} : Phase(d)' = Phase(d)
        BY <2>1, <2>3 DEF Goto, Phase, TypeOK
      <3>2. Abstract!Settle(c, {"idle", "busy"}, "failed")
        BY <2>1, <3>1, PhaseStep
      <3> QED BY <3>2 DEF Abstract!Fail
    <2>4. CASE Goto(c, "failed") /\ resultChannel[c] # <<>>
      <3>1. \A d \in Calls : Phase(d)' = Phase(d)
        BY <2>1, <2>4 DEF Goto, Phase, TypeOK
      <3> QED BY <2>1, <3>1, PhaseStutter
    <2> QED BY <1>4, <2>2, <2>3, <2>4 DEF SendConnect
  <1>5. ASSUME NEW c \in Calls, Return(c) PROVE UNCHANGED Abstract!vars
    <2>1. \A d \in Calls : Phase(d)' = Phase(d)
      BY <1>5 DEF Return, Goto, Phase, TypeOK
    <2> QED BY <1>5, <2>1, PhaseStutter DEF Return, net
  <1>6. ASSUME NEW c \in Calls, LoadPending(c) \/ StorePending(c) \/ EvalSendChannel(c)
                                \/ Enqueue(c)
        PROVE  UNCHANGED Abstract!vars
    BY <1>2, <1>6 DEF LoadPending, StorePending, EvalSendChannel, Enqueue, net
  <1>7. ASSUME NEW c \in Calls, HandleResult(c)
        PROVE  Abstract!Answer(c) \/ UNCHANGED Abstract!vars
    <2> DEFINE k == DecodeId(sendId[c])
    <2>0. k \in MessageId
      BY DecodeIdFacts DEF TypeOK
    <2>1. UNCHANGED <<pc, served>> /\ pc[c] \in Sent /\ c \in served
      BY <1>7 DEF HandleResult, SentInv, ReplyInv
    <2>2. CASE pendingRequests[k] = NoCall
      BY <1>1, <1>7, <2>1, <2>2 DEF HandleResult, Pending
    <2>3. CASE pendingRequests[k] # NoCall
      <3>1. /\ pendingRequests[k] \in Calls
            /\ sendId[pendingRequests[k]] = k
            /\ resultChannel[pendingRequests[k]] = <<>>
        BY <2>0, <2>3 DEF PendingInv, TypeOK
      <3>2. c = pendingRequests[k]
        BY <3>1, WireIdNamesCall
      <3>3. Deliver(c, "reply", c)
        BY <1>7, <2>3, <3>2 DEF HandleResult, Pending
      <3>4. Abstract!Settle(c, {"busy"}, "answered")
        BY <2>1, <3>1, <3>2, <3>3, PhaseDeliver
      <3> QED BY <2>1, <3>4 DEF Abstract!Answer
    <2> QED BY <2>2, <2>3
  <1>8. ASSUME NEW c \in Calls, Expire(c)
        PROVE  Abstract!Timeout(c) \/ UNCHANGED Abstract!vars
    <2> DEFINE k == sendId[c]
    <2>0. k \in MessageId
      BY DEF TypeOK
    <2>1. UNCHANGED <<pc, served>> /\ pc[c] \in Sent
      BY <1>8 DEF Expire, SentInv, TimerInv, net
    <2>2. CASE pendingRequests[k] = NoCall
      BY <1>1, <1>8, <2>1, <2>2 DEF Expire, Pending
    <2>3. CASE pendingRequests[k] # NoCall
      <3>1. /\ pendingRequests[k] \in Calls
            /\ sendId[pendingRequests[k]] = k
            /\ resultChannel[pendingRequests[k]] = <<>>
        BY <2>0, <2>3 DEF PendingInv, TypeOK
      <3>2. c = pendingRequests[k]
        BY <3>1, TimerIdNamesCall
      <3>3. Deliver(c, "timeout", c)
        BY <1>8, <2>3, <3>2 DEF Expire, Pending
      <3>4. Abstract!Settle(c, {"busy"}, "timedout")
        BY <2>1, <3>1, <3>2, <3>3, PhaseDeliver
      <3> QED BY <3>4 DEF Abstract!Timeout
    <2> QED BY <2>2, <2>3
  <1>9. ASSUME NEW m \in atServer, ServerReply(m)
        PROVE  Abstract!Serve(m.call) \/ UNCHANGED Abstract!vars
    <2>1. UNCHANGED <<pc, resultChannel>> /\ served' = served \cup {m.call}
      BY <1>9 DEF ServerReply
    <2>2. m.call \in Calls /\ Phase(m.call) # "idle"
      BY DEF TypeOK, SentInv, ServerInv, Sending, Sent, Phase
    <2>3. \A d \in Calls : Phase(d)' = Phase(d)
      BY <2>1 DEF Phase
    <2>4. CASE m.call \in served
      BY <2>1, <2>3, <2>4, PhaseStutter
    <2>5. CASE m.call \notin served
      BY <2>1, <2>2, <2>3, <2>5 DEF Abstract!Serve
    <2> QED BY <2>4, <2>5
  <1>10. ASSUME \/ \E l, e \in Conns : Take(l, e)
                \/ \E w \in writing : Write(w)
         PROVE  UNCHANGED Abstract!vars
    BY <1>1, <1>10 DEF Take, Write
  <1>11. ASSUME NEW p \in Pushes, ServerPush(p) \/ HandlePush(p)
         PROVE  UNCHANGED Abstract!vars
    BY <1>1, <1>11 DEF ServerPush, HandlePush
  <1>12. CASE TransportClose \/ ClearSendChannel \/ UNCHANGED vars
    BY <1>1, <1>12 DEF TransportClose, ClearSendChannel, vars, net
  <1>13. \A m \in atServer : m.call \in Calls
    BY DEF TypeOK
  <1> QED
    BY <1>3, <1>4, <1>5, <1>6, <1>7, <1>8, <1>9, <1>10, <1>11, <1>12, <1>13
    DEF Next, Request, Abstract!Next

\* With ids that differ on the wire the client implements the abstract remote
\* call: a call settles at most once, and as answered only if the server served
\* that very call.
THEOREM ImplementsAbstractCalls == DistinctIds /\ Spec => ImplementsRpcCalls
  <1> SUFFICES ASSUME DistinctIds PROVE Spec => ImplementsRpcCalls
    OBVIOUS
  <1>1. Init => Abstract!Init
    BY RefineInit
  <1>2. Inv /\ Inv' /\ [Next]_vars => [Abstract!Next]_(Abstract!vars)
    BY RefineStep
  <1> QED BY <1>1, <1>2, InvAlways, PTL DEF Spec, ImplementsRpcCalls, Abstract!Spec

-----------------------------------------------------------------------------
(* Late replies.                                                           *)

\* What was sent is in one place: queued, at the server or served; and what the
\* server has answered is either on its way or with a caller.
OnceInv ==
  /\ \A e, f \in Conns : \A i \in 1 .. Len(queue[e]), j \in 1 .. Len(queue[f]) :
       queue[e][i] = queue[f][j] => e = f /\ i = j
  /\ \A e \in Conns : \A i \in 1 .. Len(queue[e]) :
       queue[e][i] \notin served /\ \A m \in Sending : m.call # queue[e][i]
  /\ \A m \in Sending : m.call \notin served /\ \A n \in Sending : n.call = m.call => n = m
  /\ \A d \in Calls : \A i \in 1 .. Len(resultChannel[d]) :
       resultChannel[d][i].kind = "reply" => resultChannel[d][i].of \notin replies
  /\ \A c \in served : pc[c] \in Sent

\* A call that registered has its entry, or what it was handed for it.
KeptInv ==
  \A c \in Calls : pc[c] \in {"connect", "eval", "enqueue", "recv", "returned"} =>
    pendingRequests[sendId[c]] = c \/ resultChannel[c] # <<>>
LEMMA OnceInit == Init => OnceInv
  BY DEF Init, OnceInv, Sending

LEMMA OnceFrame ==
  ASSUME TypeOK, OnceInv, SentStays, UNCHANGED <<queue, writing, atServer, served, resultChannel>>,
         replies' \subseteq replies
  PROVE  OnceInv'
  <1>1. \A c \in served' : pc'[c] \in Sent
    BY DEF OnceInv, SentStays, TypeOK
  <1> QED BY <1>1 DEF OnceInv, Sending, Sent

\* An entry is taken out and its call handed a message.
LEMMA OnceDeliver ==
  ASSUME Inv, OnceInv, NEW p \in Calls, NEW c \in Calls, NEW kind \in {"reply", "timeout"},
         resultChannel[p] = <<>>, Deliver(p, kind, c), kind = "reply" => c \notin replies',
         UNCHANGED <<pc, queue, writing, atServer, served>>, replies' \subseteq replies
  PROVE  OnceInv'
  <1>1. PICK r : r = [kind |-> kind, id |-> ReqId[p], of |-> c]
    OBVIOUS
  <1>2. /\ resultChannel'[p] = <<r>>
        /\ \A d \in Calls \ {p} : resultChannel'[d] = resultChannel[d]
    BY <1>1 DEF Deliver, Inv, TypeOK
  <1>3. ASSUME NEW d \in Calls, NEW i \in 1 .. Len(resultChannel'[d]),
               resultChannel'[d][i].kind = "reply"
        PROVE  resultChannel'[d][i].of \notin replies'
    <2>1. CASE d = p
      <3>1. resultChannel'[d][i] = r
        BY <1>2, <2>1
      <3> QED BY <1>1, <1>3, <3>1
    <2>2. CASE d # p
      BY <1>2, <1>3, <2>2 DEF OnceInv
    <2> QED BY <2>1, <2>2
  <1> QED BY <1>3 DEF OnceInv, Sending, Sent

\* A message that is being written is not yet at the server: the records differ.
LEMMA Apart == TypeOK => writing \cap atServer = {}
  <1> SUFFICES ASSUME TypeOK, NEW w \in writing, w \in atServer PROVE FALSE
    OBVIOUS
  <1>1. DOMAIN w = {"call", "by", "on"} /\ DOMAIN w = {"call", "on"}
    BY DEF TypeOK
  <1> QED BY <1>1

LEMMA OnceStep == Inv /\ OnceInv /\ [Next]_vars => OnceInv'
  <1> SUFFICES ASSUME Inv, OnceInv, [Next]_vars PROVE OnceInv'
    OBVIOUS
  <1>0. TypeOK /\ PendingInv /\ SentInv
    BY DEF Inv
  <1>1. ASSUME NEW c \in Calls, Request(c), ~Enqueue(c) PROVE OnceInv'
    <2>1. UNCHANGED <<queue, net, resultChannel>>
      BY <1>1 DEF Request, RequestConnect, LoadPending, StorePending, SendConnect,
                  EvalSendChannel, Return
    <2>2. SentStays
      BY <1>0, <1>1 DEF Request, RequestConnect, LoadPending, StorePending, SendConnect,
                  EvalSendChannel, Return, Goto, SentStays, Sent, TypeOK
    <2> QED BY <1>0, <2>1, <2>2, OnceFrame DEF net
  <1>2. ASSUME NEW c \in Calls, Enqueue(c) PROVE OnceInv'
    <2>1. /\ pc[c] = "enqueue" /\ pc' = [pc EXCEPT ![c] = "recv"]
          /\ queue' = [queue EXCEPT ![channelOf[c]] = Append(@, c)]
          /\ UNCHANGED <<net, resultChannel>>
      BY <1>2 DEF Enqueue, Goto
    <2>2. PICK x \in Conns : x = channelOf[c]
      BY <1>0, <1>2, BoundAssumption DEF Enqueue, TypeOK, Conns
    <2>3. PICK n \in Nat : n = Len(queue[x])
      BY <1>0 DEF TypeOK
    <2>4. /\ Len(queue'[x]) = n + 1 /\ queue'[x][n + 1] = c
          /\ \A i \in 1 .. n : queue'[x][i] = queue[x][i]
      BY <1>0, <2>1, <2>2, <2>3 DEF TypeOK
    <2>5. \A e \in Conns \ {x} : queue'[e] = queue[e]
      BY <1>0, <2>1, <2>2 DEF TypeOK
    <2>6. c \notin served /\ \A m \in Sending : m.call # c
      BY <1>0, <2>1 DEF SentInv, ServerInv, OnceInv, Sending, Sent
    <2>7. \A e \in Conns : \A i \in 1 .. Len(queue[e]) : queue[e][i] # c
      BY <1>0, <2>1 DEF SentInv, QueueInv, Sent
    <2>8. ASSUME NEW e \in Conns, NEW i \in 1 .. Len(queue'[e])
          PROVE  \/ e = x /\ i = n + 1 /\ queue'[e][i] = c
                 \/ i \in 1 .. Len(queue[e]) /\ queue'[e][i] = queue[e][i]
      <3>1. CASE e = x
        <4>1. i = n + 1 \/ i \in 1 .. n
          BY <2>4, <3>1
        <4> QED BY <2>3, <2>4, <3>1, <4>1
      <3>2. CASE e # x
        BY <2>5, <3>2
      <3> QED BY <3>1, <3>2
    <2>9. ASSUME NEW e \in Conns, NEW f \in Conns, NEW i \in 1 .. Len(queue'[e]),
                 NEW j \in 1 .. Len(queue'[f]), queue'[e][i] = queue'[f][j]
          PROVE  e = f /\ i = j
      BY <2>7, <2>8, <2>9 DEF OnceInv
    <2>10. ASSUME NEW e \in Conns, NEW i \in 1 .. Len(queue'[e])
           PROVE  queue'[e][i] \notin served /\ \A m \in Sending : m.call # queue'[e][i]
      BY <2>6, <2>8 DEF OnceInv
    <2>11. \A d \in served : pc'[d] \in Sent
      BY <1>0, <2>1, <2>6 DEF OnceInv, TypeOK
    <2> QED BY <2>1, <2>9, <2>10, <2>11 DEF OnceInv, Sending, net, Sent
  <1>3. ASSUME NEW l \in Conns, NEW e \in Conns, Take(l, e) PROVE OnceInv'
    <2>1. /\ queue[e] # <<>> /\ queue' = [queue EXCEPT ![e] = Tail(@)]
          /\ UNCHANGED <<pc, served, replies, resultChannel>>
      BY <1>3 DEF Take
    <2>2. PICK h : h = Head(queue[e])
      OBVIOUS
    <2>3. \A m \in Sending' :
            m \in Sending \/ m = [call |-> h, by |-> l, on |-> connected]
      BY <1>3, <2>2 DEF Take, Sending
    <2>4. h = queue[e][1] /\ 1 \in 1 .. Len(queue[e])
      BY <1>0, <2>1, <2>2 DEF TypeOK
    <2>5. h \notin served /\ \A m \in Sending : m.call # h
      BY <2>4 DEF OnceInv
    <2>6. ASSUME NEW f \in Conns, NEW i \in 1 .. Len(queue'[f])
          PROVE  \E k \in 1 .. Len(queue[f]) :
                   /\ queue'[f][i] = queue[f][k] /\ k = (IF f = e THEN i + 1 ELSE i)
                   /\ f = e => k # 1
      <3>1. CASE f = e
        <4>1. PICK q \in Seq(Calls) : q = queue[e] /\ q # <<>>
          BY <1>0, <2>1 DEF TypeOK
        <4>2. queue'[f] = Tail(q)
          BY <1>0, <2>1, <3>1, <4>1 DEF TypeOK
        <4>3. \A j \in 1 .. Len(Tail(q)) :
                j + 1 \in 1 .. Len(q) /\ Tail(q)[j] = q[j + 1] /\ j + 1 # 1
          BY <4>1
        <4> QED BY <3>1, <4>1, <4>2, <4>3
      <3>2. CASE f # e
        BY <1>0, <2>1, <3>2 DEF TypeOK
      <3> QED BY <3>1, <3>2
    <2>7. ASSUME NEW f \in Conns, NEW g \in Conns, NEW i \in 1 .. Len(queue'[f]),
                 NEW j \in 1 .. Len(queue'[g]), queue'[f][i] = queue'[g][j]
          PROVE  f = g /\ i = j
      <3>1. PICK k \in 1 .. Len(queue[f]) :
              queue'[f][i] = queue[f][k] /\ k = (IF f = e THEN i + 1 ELSE i)
        BY <2>6
      <3>2. PICK n \in 1 .. Len(queue[g]) :
              queue'[g][j] = queue[g][n] /\ n = (IF g = e THEN j + 1 ELSE j)
        BY <2>6
      <3>3. f = g /\ k = n
        <4>1. queue[f][k] = queue[g][n]
          BY <2>7, <3>1, <3>2
        <4> QED BY <4>1 DEF OnceInv
      <3>4. i \in Int /\ j \in Int
        OBVIOUS
      <3> QED BY <3>1, <3>2, <3>3, <3>4
    <2>8. ASSUME NEW f \in Conns, NEW i \in 1 .. Len(queue'[f])
          PROVE  queue'[f][i] \notin served /\ queue'[f][i] # h
                 /\ \A m \in Sending : m.call # queue'[f][i]
      <3>1. PICK k \in 1 .. Len(queue[f]) : queue'[f][i] = queue[f][k] /\ (f = e => k # 1)
        BY <2>6
      <3>2. queue[f][k] # h
        BY <2>4, <3>1 DEF OnceInv
      <3> QED BY <3>1, <3>2 DEF OnceInv
    <2>9. \A f \in Conns : \A i \in 1 .. Len(queue'[f]) : \A m \in Sending' : m.call # queue'[f][i]
      BY <2>3, <2>8
    <2>10. \A m \in Sending' : m.call \notin served /\ \A n \in Sending' : n.call = m.call => n = m
      BY <2>3, <2>5 DEF OnceInv
    <2>11. \A f, g \in Conns : \A i \in 1 .. Len(queue'[f]), j \in 1 .. Len(queue'[g]) :
             queue'[f][i] = queue'[g][j] => f = g /\ i = j
      BY ONLY <2>7
    <2>12. \A f \in Conns : \A i \in 1 .. Len(queue'[f]) :
             queue'[f][i] \notin served' /\ \A m \in Sending' : m.call # queue'[f][i]
      BY ONLY <2>1, <2>8, <2>9
    <2>13. \A m \in Sending' : m.call \notin served'
                               /\ \A n \in Sending' : n.call = m.call => n = m
      BY ONLY <2>1, <2>10
    <2>14. /\ \A d \in Calls : \A i \in 1 .. Len(resultChannel'[d]) :
                resultChannel'[d][i].kind = "reply" => resultChannel'[d][i].of \notin replies'
           /\ \A c \in served' : pc'[c] \in Sent
      BY ONLY OnceInv, <2>1 DEF OnceInv
    <2> QED BY ONLY <2>11, <2>12, <2>13, <2>14 DEF OnceInv, Sent
  <1>10. ASSUME NEW w \in writing, Write(w) PROVE OnceInv'
    <2>1. UNCHANGED <<pc, queue, served, replies, resultChannel>>
      BY <1>10 DEF Write
    <2>2. \A m \in Sending' :
            (m \in Sending /\ m # w) \/ m = [call |-> w.call, on |-> w.on]
      BY <1>0, <1>10, Apart DEF Write, Sending
    <2>3. \A m \in Sending' : m.call \notin served /\ \A n \in Sending' : n.call = m.call => n = m
      BY <2>2 DEF OnceInv, Sending
    <2>4. \A m \in Sending' : \E n \in Sending : n.call = m.call
      BY <2>2 DEF Sending
    <2> QED BY <2>1, <2>3, <2>4 DEF OnceInv, Sent
  <1>4. ASSUME NEW m \in atServer, ServerReply(m) PROVE OnceInv'
    <2>1. /\ m \in Sending /\ Sending' = Sending \ {m} /\ writing' = writing
          /\ atServer' = atServer \ {m} /\ served' = served \cup {m.call}
          /\ replies' \subseteq replies \cup {m.call}
          /\ UNCHANGED <<pc, queue, resultChannel>>
      BY <1>0, <1>4, Apart DEF ServerReply, Sending
    <2>2. \A e \in Conns : \A i \in 1 .. Len(queue[e]) : queue[e][i] # m.call
      BY <2>1 DEF OnceInv
    <2>3. \A n \in Sending' : n.call # m.call
      BY <2>1 DEF OnceInv
    <2>4. ASSUME NEW d \in Calls, NEW i \in 1 .. Len(resultChannel[d]),
                 resultChannel[d][i].kind = "reply"
          PROVE  resultChannel[d][i].of \notin replies'
      <3>1. resultChannel[d][i].of \in served
        BY <2>4 DEF Inv, AnswerMatchesWireId
      <3>2. m.call \notin served
        BY <2>1 DEF OnceInv
      <3> QED BY <2>1, <2>4, <3>1, <3>2 DEF OnceInv
    <2>5. \A c \in served' : pc'[c] \in Sent
      BY <1>0, <2>1 DEF OnceInv, SentInv, ServerInv, Sent
    <2> QED BY <2>1, <2>2, <2>3, <2>4, <2>5 DEF OnceInv, Sent
  <1>5. ASSUME NEW c \in Calls, HandleResult(c) PROVE OnceInv'
    <2>1. /\ replies' = replies \ {c} /\ UNCHANGED <<pc, queue, writing, atServer, served>>
      BY <1>5 DEF HandleResult
    <2>2. PICK k \in MessageId : k = DecodeId(sendId[c])
      BY <1>0, DecodeIdFacts DEF TypeOK
    <2>3. CASE UNCHANGED resultChannel
      <3>1. SentStays
        BY <2>1 DEF SentStays
      <3> QED BY <1>0, <2>1, <2>3, <3>1, OnceFrame
    <2>4. CASE pendingRequests[k] # NoCall /\ Deliver(pendingRequests[k], "reply", c)
      <3>1. pendingRequests[k] \in Calls /\ resultChannel[pendingRequests[k]] = <<>>
        BY <1>0, <2>4 DEF TypeOK, PendingInv
      <3> QED BY <2>1, <2>4, <3>1, OnceDeliver
    <2> QED BY <1>5, <2>2, <2>3, <2>4 DEF HandleResult, Pending
  <1>6. ASSUME NEW c \in Calls, Expire(c) PROVE OnceInv'
    <2>1. UNCHANGED <<pc, queue, writing, atServer, served, replies>>
      BY <1>6 DEF Expire, net
    <2>2. PICK k \in MessageId : k = sendId[c]
      BY <1>0 DEF TypeOK
    <2>3. CASE UNCHANGED resultChannel
      <3>1. SentStays
        BY <2>1 DEF SentStays
      <3> QED BY <1>0, <2>1, <2>3, <3>1, OnceFrame
    <2>4. CASE pendingRequests[k] # NoCall /\ Deliver(pendingRequests[k], "timeout", c)
      <3>1. pendingRequests[k] \in Calls /\ resultChannel[pendingRequests[k]] = <<>>
        BY <1>0, <2>4 DEF TypeOK, PendingInv
      <3> QED BY <2>1, <2>4, <3>1, OnceDeliver
    <2> QED BY <1>6, <2>2, <2>3, <2>4 DEF Expire, Pending
  <1>7. ASSUME UNCHANGED <<pc, queue, writing, atServer, served, resultChannel>>,
               replies' \subseteq replies
        PROVE  OnceInv'
    <2>1. SentStays
      BY <1>7 DEF SentStays
    <2> QED BY <1>0, <1>7, <2>1, OnceFrame
  <1>8. ASSUME NEW p \in Pushes, ServerPush(p) \/ HandlePush(p) PROVE OnceInv'
    BY <1>7, <1>8 DEF ServerPush, HandlePush
  <1>9. CASE TransportClose \/ ClearSendChannel \/ UNCHANGED vars
    BY <1>7, <1>9 DEF TransportClose, ClearSendChannel, vars, net
  <1> QED BY <1>1, <1>2, <1>3, <1>4, <1>5, <1>6, <1>8, <1>9, <1>10 DEF Next

LEMMA KeptInit == Init => KeptInv
  BY DEF Init, KeptInv

LEMMA KeptFrame ==
  ASSUME KeptInv, UNCHANGED <<sendId, pendingRequests, resultChannel>>,
         \A c \in Calls : pc'[c] \in {"connect", "eval", "enqueue", "recv", "returned"} =>
           pc[c] \in {"connect", "eval", "enqueue", "recv", "returned"}
  PROVE  KeptInv'
  BY DEF KeptInv

\* An entry is taken out for the call that has it.
LEMMA KeptDeliver ==
  ASSUME TypeOK, KeptInv, NEW k \in MessageId, pendingRequests[k] \in Calls,
         NEW c \in Calls, NEW kind \in {"reply", "timeout"},
         LoadAndDelete(k), Deliver(pendingRequests[k], kind, c), UNCHANGED <<pc, sendId>>
  PROVE  KeptInv'
  <1>1. PICK p \in Calls : p = pendingRequests[k]
    OBVIOUS
  <1>2. PICK r : r = [kind |-> kind, id |-> ReqId[p], of |-> c]
    OBVIOUS
  <1>3. /\ resultChannel'[p] = Append(resultChannel[p], r)
        /\ \A d \in Calls \ {p} : resultChannel'[d] = resultChannel[d]
    BY <1>1, <1>2 DEF Deliver, TypeOK
  <1>4. resultChannel'[p] # <<>>
    <2>1. resultChannel[p] \in Seq(Result)
      BY DEF TypeOK
    <2> QED BY <1>3, <2>1
  <1>5. \A i \in MessageId \ {k} : pendingRequests'[i] = pendingRequests[i]
    BY DEF LoadAndDelete, TypeOK
  <1>6. ASSUME NEW d \in Calls, d # p, pendingRequests[sendId[d]] = d
        PROVE  pendingRequests'[sendId[d]] = d
    <2>1. sendId[d] \in MessageId /\ sendId[d] # k
      BY <1>1, <1>6 DEF TypeOK
    <2> QED BY <1>5, <1>6, <2>1
  <1> QED BY <1>3, <1>4, <1>6 DEF KeptInv

LEMMA KeptStep == DistinctIds /\ Inv /\ KeptInv /\ [Next]_vars => KeptInv'
  <1> SUFFICES ASSUME DistinctIds, Inv, KeptInv, [Next]_vars PROVE KeptInv'
    OBVIOUS
  <1>0. TypeOK /\ PendingInv /\ SendIdInv /\ EarlyInv
    BY DEF Inv
  <1>1. ASSUME NEW c \in Calls, Request(c), ~LoadPending(c), ~StorePending(c) PROVE KeptInv'
    <2>1. UNCHANGED <<sendId, pendingRequests, resultChannel>>
      BY <1>1 DEF Request, RequestConnect, SendConnect, EvalSendChannel, Enqueue, Return
    <2>2. \/ pc[c] = "idle" /\ pc' \in {[pc EXCEPT ![c] = "load"], [pc EXCEPT ![c] = "failed"]}
          \/ pc[c] \in {"connect", "eval", "enqueue", "recv", "returned"}
      BY <1>1 DEF Request, RequestConnect, SendConnect, EvalSendChannel, Enqueue, Return, Goto
    <2>3. \E label : pc' = [pc EXCEPT ![c] = label]
      BY <1>1 DEF Request, RequestConnect, SendConnect, EvalSendChannel, Enqueue, Return, Goto
    <2>4. \A d \in Calls : pc'[d] \in {"connect", "eval", "enqueue", "recv", "returned"} =>
            pc[d] \in {"connect", "eval", "enqueue", "recv", "returned"}
      BY <1>0, <2>2, <2>3 DEF TypeOK
    <2> QED BY <2>1, <2>4, KeptFrame
  <1>2. ASSUME NEW c \in Calls, LoadPending(c) PROVE KeptInv'
    <2>1. /\ pc' = [pc EXCEPT ![c] = "store"] /\ UNCHANGED <<pendingRequests, resultChannel>>
          /\ \A d \in Calls \ {c} : sendId'[d] = sendId[d]
      BY <1>0, <1>2 DEF LoadPending, Goto, TypeOK
    <2>2. pc'[c] = "store" /\ \A d \in Calls \ {c} : pc'[d] = pc[d]
      BY <1>0, <2>1 DEF TypeOK
    <2> QED BY <2>1, <2>2 DEF KeptInv
  <1>3. ASSUME NEW c \in Calls, StorePending(c) PROVE KeptInv'
    <2>1. /\ pc' = [pc EXCEPT ![c] = "connect"] /\ UNCHANGED <<sendId, resultChannel>>
          /\ pendingRequests' = [pendingRequests EXCEPT ![sendId[c]] = c]
      BY <1>0, <1>3 DEF StorePending, Goto
    <2>2. pendingRequests'[sendId[c]] = c
      BY <1>0, <2>1 DEF TypeOK
    <2>3. ASSUME NEW d \in Calls, d # c
          PROVE  pc'[d] = pc[d] /\ pendingRequests'[sendId[d]] = pendingRequests[sendId[d]]
      <3>1. sendId[d] # sendId[c]
        BY <1>0, <2>3, TimerIdNamesCall
      <3> QED BY <1>0, <2>1, <2>3, <3>1 DEF TypeOK
    <2> QED BY <2>1, <2>2, <2>3 DEF KeptInv
  <1>4. ASSUME NEW c \in Calls, HandleResult(c) PROVE KeptInv'
    <2>1. PICK k \in MessageId : k = DecodeId(sendId[c])
      BY <1>0, DecodeIdFacts DEF TypeOK
    <2>2. UNCHANGED <<pc, sendId>>
      BY <1>4 DEF HandleResult
    <2>3. CASE UNCHANGED <<pendingRequests, resultChannel>>
      BY <2>2, <2>3, KeptFrame
    <2>4. CASE /\ pendingRequests[k] # NoCall /\ LoadAndDelete(k)
               /\ Deliver(pendingRequests[k], "reply", c)
      <3>1. pendingRequests[k] \in Calls
        BY <1>0, <2>4 DEF TypeOK
      <3> QED BY <1>0, <2>2, <2>4, <3>1, KeptDeliver
    <2> QED BY <1>4, <2>1, <2>3, <2>4 DEF HandleResult, Pending
  <1>5. ASSUME NEW c \in Calls, Expire(c) PROVE KeptInv'
    <2>1. PICK k \in MessageId : k = sendId[c]
      BY <1>0 DEF TypeOK
    <2>2. UNCHANGED <<pc, sendId>>
      BY <1>5 DEF Expire
    <2>3. CASE UNCHANGED <<pendingRequests, resultChannel>>
      BY <2>2, <2>3, KeptFrame
    <2>4. CASE /\ pendingRequests[k] # NoCall /\ LoadAndDelete(k)
               /\ Deliver(pendingRequests[k], "timeout", c)
      <3>1. pendingRequests[k] \in Calls
        BY <1>0, <2>4 DEF TypeOK
      <3> QED BY <1>0, <2>2, <2>4, <3>1, KeptDeliver
    <2> QED BY <1>5, <2>1, <2>3, <2>4 DEF Expire, Pending
  <1>6. ASSUME UNCHANGED <<pc, sendId, pendingRequests, resultChannel>> PROVE KeptInv'
    BY <1>6, KeptFrame
  <1>7. ASSUME \/ \E l, e \in Conns : Take(l, e)
               \/ \E w \in writing : Write(w)
               \/ \E m \in atServer : ServerReply(m)
               \/ \E p \in Pushes : ServerPush(p) \/ HandlePush(p)
               \/ TransportClose \/ ClearSendChannel \/ UNCHANGED vars
        PROVE  KeptInv'
    BY <1>6, <1>7 DEF Take, Write, ServerReply, ServerPush, HandlePush, TransportClose,
                      ClearSendChannel, vars
  <1> QED BY <1>1, <1>2, <1>3, <1>4, <1>5, <1>7 DEF Next

\* What a call was handed first stays that.
LEMMA LateFrame ==
  ASSUME Inv, LateRepliesOnly, NEW p \in Calls, NEW c \in Calls,
         NEW kind \in {"reply", "timeout"},
         UNCHANGED resultChannel \/ (resultChannel[p] = <<>> /\ Deliver(p, kind, c)),
         handled' \cap Calls \subseteq handled
  PROVE  LateRepliesOnly'
  <1> SUFFICES ASSUME NEW d \in Calls, d \in handled'
               PROVE  resultChannel'[d] # <<>> /\ resultChannel'[d][1].kind = "timeout"
    BY DEF LateRepliesOnly
  <1>1. resultChannel[d] # <<>> /\ resultChannel[d][1].kind = "timeout"
    BY DEF LateRepliesOnly
  <1>2. resultChannel'[d] = resultChannel[d]
    BY <1>1 DEF Deliver, Inv, TypeOK
  <1> QED BY <1>1, <1>2

LEMMA LateStep ==
  DistinctIds /\ CanonicalIds /\ Inv /\ OnceInv /\ KeptInv /\ LateRepliesOnly /\ [Next]_vars
    => LateRepliesOnly'
  <1> SUFFICES ASSUME DistinctIds, CanonicalIds, Inv, OnceInv, KeptInv, LateRepliesOnly,
                      [Next]_vars
               PROVE  LateRepliesOnly'
    OBVIOUS
  <1>0. TypeOK /\ PendingInv /\ SentInv /\ SendIdInv
    BY DEF Inv
  <1>1. ASSUME NEW c \in Calls, HandleResult(c) PROVE LateRepliesOnly'
    <2>1. PICK k \in MessageId : k = DecodeId(sendId[c])
      BY <1>0, DecodeIdFacts DEF TypeOK
    <2>2. CASE pendingRequests[k] # NoCall /\ UNCHANGED handled
               /\ Deliver(pendingRequests[k], "reply", c)
      <3>1. pendingRequests[k] \in Calls /\ resultChannel[pendingRequests[k]] = <<>>
        BY <1>0, <2>2 DEF TypeOK, PendingInv
      <3> QED BY <2>2, <3>1, LateFrame
    <2>3. CASE pendingRequests[k] = NoCall /\ ToHandler(c) /\ UNCHANGED resultChannel
      <3>1. k = sendId[c]
        <4>1. CASE sendId[c] = ReqId[c]
          BY <2>1, <4>1 DEF CanonicalIds
        <4>2. CASE sendId[c] = Uuid[c]
          BY <2>1, <4>2, IdAssumption, UuidAssumption, DecodeIdFacts
        <4> QED BY <1>0, <4>1, <4>2 DEF SendIdInv
      <3>2. c \in replies /\ pc[c] \in Sent
        BY <1>0, <1>1 DEF HandleResult, SentInv, ReplyInv
      <3>3. resultChannel[c] # <<>>
        BY <2>3, <3>1, <3>2, CallsAssumption DEF KeptInv, Sent
      <3>4. resultChannel[c][1].kind = "timeout"
        <4>1. resultChannel[c] \in Seq(Result)
          BY <1>0 DEF TypeOK
        <4>2. 1 \in 1 .. Len(resultChannel[c]) /\ resultChannel[c][1] \in Result
          BY <3>3, <4>1
        <4>3. resultChannel[c][1].of = c
          BY <4>2, InvOwnAnswer DEF OwnAnswer
        <4>4. resultChannel[c][1].kind # "reply"
          BY <3>2, <4>2, <4>3 DEF OnceInv
        <4> QED BY <4>2, <4>4 DEF Result
      <3>5. handled' \subseteq handled \cup {c}
        BY <2>3 DEF ToHandler
      <3> QED BY <2>3, <3>3, <3>4, <3>5 DEF LateRepliesOnly
    <2> QED BY <1>1, <2>1, <2>2, <2>3 DEF HandleResult, Pending
  <1>2. ASSUME NEW c \in Calls, Expire(c) PROVE LateRepliesOnly'
    <2>1. PICK k \in MessageId : k = sendId[c]
      BY <1>0 DEF TypeOK
    <2>2. UNCHANGED handled
      BY <1>2 DEF Expire
    <2>3. CASE UNCHANGED resultChannel
      BY <2>2, <2>3 DEF LateRepliesOnly
    <2>4. CASE pendingRequests[k] # NoCall /\ Deliver(pendingRequests[k], "timeout", c)
      <3>1. pendingRequests[k] \in Calls /\ resultChannel[pendingRequests[k]] = <<>>
        BY <1>0, <2>4 DEF TypeOK, PendingInv
      <3> QED BY <2>2, <2>4, <3>1, LateFrame
    <2> QED BY <1>2, <2>1, <2>3, <2>4 DEF Expire, Pending
  <1>3. ASSUME UNCHANGED resultChannel, handled' \cap Calls \subseteq handled
        PROVE  LateRepliesOnly'
    BY <1>3 DEF LateRepliesOnly
  <1>4. ASSUME NEW c \in Calls, Request(c) PROVE LateRepliesOnly'
    BY <1>3, <1>4 DEF Request, RequestConnect, LoadPending, StorePending, SendConnect,
                      EvalSendChannel, Enqueue, Return
  <1>5. ASSUME NEW p \in Pushes, HandlePush(p) PROVE LateRepliesOnly'
    BY <1>3, <1>5, CallsAssumption DEF HandlePush, ToHandler
  <1>6. ASSUME \/ \E l, e \in Conns : Take(l, e)
               \/ \E w \in writing : Write(w)
               \/ \E m \in atServer : ServerReply(m)
               \/ \E p \in Pushes : ServerPush(p)
               \/ TransportClose \/ ClearSendChannel \/ UNCHANGED vars
        PROVE  LateRepliesOnly'
    BY <1>3, <1>6 DEF Take, Write, ServerReply, ServerPush, TransportClose, ClearSendChannel,
                      vars
  <1> QED BY <1>1, <1>2, <1>4, <1>5, <1>6 DEF Next

\* handleResult: if the callers' ids differ and come back as they were sent, an
\* answer goes to the message handler only when its call has been timed out.
THEOREM OnlyLateReplies == DistinctIds /\ CanonicalIds /\ Spec => []LateRepliesOnly
  <1> SUFFICES ASSUME DistinctIds, CanonicalIds PROVE Spec => []LateRepliesOnly
    OBVIOUS
  <1>1. Init => OnceInv /\ KeptInv /\ LateRepliesOnly
    BY OnceInit, KeptInit DEF Init, LateRepliesOnly
  <1>2. Inv /\ OnceInv /\ KeptInv /\ LateRepliesOnly /\ [Next]_vars
          => OnceInv' /\ KeptInv' /\ LateRepliesOnly'
    BY OnceStep, KeptStep, LateStep
  <1> QED BY <1>1, <1>2, InvAlways, PTL DEF Spec
=============================================================================
