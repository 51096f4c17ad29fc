------------------------- MODULE StreamingConnProofs -------------------------
(***************************************************************************)
(* Proofs about StreamingConn, for any number of users, connections and    *)
(* losses.                                                                 *)
(***************************************************************************)
EXTENDS StreamingConn, SequenceTheorems, TLAPS

(* The inductive invariant.                                                *)

\* The part of Connect that runs under connectLock.
Connecting == {"locked", "dial", "setdecoder", "setcancel", "setsend", "setclose"}

LockInv == \A u \in Users : pc[u] \in Connecting => connectLock = {u}

\* Whoever is dialing found no connection, and nobody else can make one.
DialInv == \A u \in Users : pc[u] = "dial" => ws = 0

\* A sendLoop about to write has a message in hand, and a connection.
HandInv == \A p \in Procs :
  /\ pc[p] \in {"srecheck", "sload", "swrite"} => hand[p] # <<>>
  /\ pc[p] = "swrite" => reg[p] # 0

Inv == TypeOK /\ LockInv /\ DialInv /\ HandInv

LEMMA ConnsFacts ==
  /\ 1 \in Conns /\ \A e \in Conns : e \in 0 .. MaxConns /\ e # 0
  /\ \A e \in 0 .. MaxConns : e # 0 => e \in Conns
  /\ \A e \in Conns : SendLoop(e) \in Procs /\ RecvLoop(e) \in Procs
  /\ \A e \in Conns : SendLoop(e) \notin Users /\ RecvLoop(e) \notin Users
  /\ \A u \in Users : u \in Procs
  BY ConnAssumption DEF Conns, Procs, SendLoops, RecvLoops

\* A field that is loaded again is the value loaded before, or the field's.
LEMMA LoadsEither ==
  ASSUME DataTypeOK, NEW p \in Procs, NEW field, LoadsAgain(p, field)
  PROVE  reg' = reg \/ reg' = [reg EXCEPT ![p] = field]
  BY DEF DataTypeOK, LoadsAgain, MayUse, Loads

LEMMA InvInit == Init => Inv
  <1> SUFFICES ASSUME Init PROVE Inv
    OBVIOUS
  <1>1. PcTypeOK
    BY DEF Init, PcTypeOK, Label
  <1>2. DataTypeOK
    <2>1. 0 \in 0 .. MaxConns
      BY ConnAssumption
    <2>2. /\ sendQueue \in [Conns -> Seq(Users)]
          /\ closeQueue \in [Conns -> Seq({"nil", "error"})]
          /\ hand \in [Procs -> Seq(Users)]
          /\ written \in Seq([msg : Users, on : Conns])
      BY DEF Init
    <2> QED BY <2>1, <2>2 DEF Init, DataTypeOK
  <1>3. LockInv /\ DialInv /\ HandInv
    BY ConnsFacts DEF Init, LockInv, DialInv, HandInv, Connecting
  <1> QED BY <1>1, <1>2, <1>3 DEF Inv, TypeOK

-----------------------------------------------------------------------------
(* Types: the program counters, then everything else.                      *)

LEMMA UserPcType ==
  ASSUME PcTypeOK, NEW u \in Users, u \in Procs, User(u)
  PROVE  PcTypeOK'
  <1> USE DEF PcTypeOK, At, Goto, Label
  <1>1. CASE Lock(u)
    BY <1>1 DEF Lock
  <1>2. CASE CheckConnected(u)
    BY <1>2 DEF CheckConnected, AfterConnect
  <1>3. CASE Dial(u)
    BY <1>3 DEF Dial, ConnectWs, ConnectH2
  <1>4. CASE SetCancelFunc(u)
    BY <1>4 DEF SetCancelFunc
  <1>5. CASE SetSendChannel(u)
    BY <1>5 DEF SetSendChannel
  <1>6. CASE StartLoops(u)
    BY <1>6 DEF StartLoops, AfterConnect
  <1>7. CASE EvalSendChannel(u)
    BY <1>7 DEF EvalSendChannel
  <1>8. CASE Enqueue(u)
    BY <1>8 DEF Enqueue
  <1>9. CASE WaitCheck(u)
    BY <1>9 DEF WaitCheck
  <1>10. CASE WaitLoad(u)
    BY <1>10 DEF WaitLoad, LoadsAgain, MayUse
  <1>11. CASE WaitReceive(u)
    BY <1>11 DEF WaitReceive
  <1>12. CASE SetDecoder(u)
    BY <1>12 DEF SetDecoder
  <1> QED BY <1>1, <1>2, <1>3, <1>4, <1>5, <1>6, <1>7, <1>8, <1>9,
             <1>10, <1>11, <1>12
          DEF User

LEMMA ResetPcType ==
  ASSUME PcTypeOK, NEW p \in Procs, Reset(p)
  PROVE  PcTypeOK'
  <1> USE DEF PcTypeOK, At, Goto, Label
  <1>1. CASE Close(p)
    BY <1>1 DEF Close
  <1>2. CASE CallCancelFunc(p)
    BY <1>2 DEF CallCancelFunc
  <1>3. CASE ClearCancelFunc(p)
    BY <1>3 DEF ClearCancelFunc
  <1>4. CASE CheckCloseChannel(p)
    BY <1>4 DEF CheckCloseChannel
  <1>5. CASE LoadCloseChannel(p)
    BY <1>5 DEF LoadCloseChannel, LoadsAgain, MayUse
  <1>6. CASE SendClose(p)
    BY <1>6 DEF SendClose
  <1>7. CASE ClearCloseChannel(p)
    BY <1>7 DEF ClearCloseChannel
  <1>8. CASE CloseWs(p)
    BY <1>8 DEF CloseWs
  <1>9. CASE ClearWs(p)
    BY <1>9 DEF ClearWs
  <1>10. CASE ClearSendChannel(p)
    BY <1>10 DEF ClearSendChannel
  <1>11. CASE CallCloseHandler(p)
    BY <1>11 DEF CallCloseHandler
  <1>12. CASE ClearCloseHandler(p)
    BY <1>12 DEF ClearCloseHandler
  <1>13. CASE ClearWriter(p)
    BY <1>13 DEF ClearWriter
  <1>14. CASE CheckCancelFunc(p)
    BY <1>14 DEF CheckCancelFunc
  <1>15. CASE CheckWs(p)
    BY <1>15 DEF CheckWs
  <1> QED BY <1>1, <1>2, <1>3, <1>4, <1>5, <1>6, <1>7, <1>8, <1>9,
             <1>10, <1>11, <1>12, <1>13, <1>14, <1>15
          DEF Reset

LEMMA LoopPcType ==
  ASSUME PcTypeOK, NEW e \in Conns,
         SendLoopStep(e) \/ RecvLoopStep(e) \/ ReadMessage(RecvLoop(e))
  PROVE  PcTypeOK'
  <1> DEFINE s == SendLoop(e)
             v == RecvLoop(e)
  <1> USE DEF PcTypeOK, At, Goto, Label
  <1>1. CASE SendLoopCheck(s)
    BY <1>1 DEF SendLoopCheck
  <1>2. CASE Select(s)
    BY <1>2 DEF Select
  <1>3. CASE SelectDone(e)
    BY <1>3 DEF SelectDone
  <1>4. CASE SelectMessage(s)
    BY <1>4 DEF SelectMessage
  <1>5. CASE SendLoopRecheck(s)
    BY <1>5 DEF SendLoopRecheck
  <1>6. CASE SendLoopLoad(s)
    BY <1>6 DEF SendLoopLoad, Use
  <1>7. CASE WriteMessage(s)
    BY <1>7 DEF WriteMessage
  <1>8. CASE WriteFails(s)
    BY <1>8 DEF WriteFails, Fails, HandleError
  <1>9. CASE RecvLoopCheck(v)
    BY <1>9 DEF RecvLoopCheck
  <1>10. CASE RecvLoopLoad(v)
    BY <1>10 DEF RecvLoopLoad, Use
  <1>11. CASE ReadFails(v)
    BY <1>11 DEF ReadFails, Fails, HandleError
  <1>12. CASE ReadMessage(v)
    BY <1>12 DEF ReadMessage
  <1>13. CASE MarshalFails(s)
    BY <1>13 DEF MarshalFails, HandleError
  <1> QED BY <1>1, <1>2, <1>3, <1>4, <1>5, <1>6, <1>7, <1>8, <1>9,
             <1>10, <1>11, <1>12, <1>13
          DEF SendLoopStep, SendLoopRuns, RecvLoopStep

LEMMA UserDataType ==
  ASSUME DataTypeOK, NEW u \in Users, u \in Procs, User(u)
  PROVE  DataTypeOK'
  <1> USE ConnAssumption DEF DataTypeOK, Loads, fields, conns, queues, hist, h2
  <1>1. CASE Lock(u)
    BY <1>1 DEF Lock
  <1>2. CASE CheckConnected(u)
    BY <1>2 DEF CheckConnected, AfterConnect
  <1>3. CASE Dial(u)
    <2>1. dialed < MaxConns => dialed + 1 \in 0 .. MaxConns
      OBVIOUS
    <2>2. CASE dialed < MaxConns /\ dialed' = dialed + 1 /\ ws' = dialed + 1
               /\ writer' \in {dialed + 1, writer}
               /\ reg' = [reg EXCEPT ![u] = dialed + 1]
               /\ link' = [link EXCEPT ![dialed + 1] = "open"]
      <3>1. {ws', writer', dialed'} \subseteq 0 .. MaxConns
        BY <2>1, <2>2
      <3>2. reg' \in [Procs -> 0 .. MaxConns]
        BY <2>1, <2>2
      <3>3. link' \in [Conns -> {"none", "open", "closed"}]
        BY <2>2
      <3> QED BY <1>3, <3>1, <3>2, <3>3 DEF Dial, ConnectWs, ConnectH2
    <2>3. CASE UNCHANGED <<dialed, ws, writer, link, reg>> /\ connectLock' = {}
      BY <1>3, <2>3 DEF Dial, ConnectWs, ConnectH2
    <2> QED BY <1>3, <2>2, <2>3 DEF Dial, ConnectWs, ConnectH2
  <1>4. CASE SetCancelFunc(u)
    BY <1>4 DEF SetCancelFunc
  <1>5. CASE SetSendChannel(u)
    BY <1>5 DEF SetSendChannel
  <1>6. CASE StartLoops(u)
    BY <1>6 DEF StartLoops, AfterConnect
  <1>7. CASE EvalSendChannel(u)
    BY <1>7 DEF EvalSendChannel
  <1>8. CASE Enqueue(u)
    <2>1. reg[u] \in Conns
      BY <1>8 DEF Enqueue, Conns
    <2>2. Append(sendQueue[reg[u]], u) \in Seq(Users)
      BY <2>1
    <2>3. sendQueue' \in [Conns -> Seq(Users)]
      BY <1>8, <2>2 DEF Enqueue
    <2> QED BY <1>8, <2>3 DEF Enqueue
  <1>9. CASE WaitCheck(u)
    BY <1>9 DEF WaitCheck
  <1>10. CASE WaitLoad(u)
    BY <1>10 DEF WaitLoad, LoadsAgain, MayUse
  <1>11. CASE WaitReceive(u)
    <2>1. reg[u] \in Conns
      BY <1>11 DEF WaitReceive, Conns
    <2>2. closeQueue[reg[u]] \in Seq({"nil", "error"}) /\ closeQueue[reg[u]] # <<>>
      BY <1>11, <2>1 DEF WaitReceive
    <2>3. /\ Head(closeQueue[reg[u]]) \in {"nil", "error"}
          /\ Tail(closeQueue[reg[u]]) \in Seq({"nil", "error"})
      BY <2>2
    <2> QED BY <1>11, <2>3 DEF WaitReceive
  <1>12. CASE SetDecoder(u)
    BY <1>12 DEF SetDecoder
  <1> QED BY <1>1, <1>2, <1>3, <1>4, <1>5, <1>6, <1>7, <1>8, <1>9,
             <1>10, <1>11, <1>12
          DEF User

LEMMA ResetDataType ==
  ASSUME DataTypeOK, NEW p \in Procs, Reset(p)
  PROVE  DataTypeOK'
  <1> USE ConnAssumption DEF DataTypeOK, Loads, fields, conns, queues, hist, h2
  <1>1. CASE Close(p)
    BY <1>1 DEF Close
  <1>2. CASE CallCancelFunc(p)
    <2>1. MayUse(p, cancelFunc) \subseteq 0 .. MaxConns
      BY DEF MayUse
    <2>2. PICK e \in 0 .. MaxConns : \/ e # 0 /\ canceled' = canceled \cup {e} /\ UNCHANGED panicked
                                     \/ panicked' = TRUE /\ UNCHANGED canceled
      BY <1>2, <2>1 DEF CallCancelFunc
    <2>3. canceled' \subseteq Conns /\ panicked' \in BOOLEAN
      BY <2>2, ConnsFacts
    <2> QED BY <1>2, <2>3 DEF CallCancelFunc
  <1>3. CASE ClearCancelFunc(p)
    BY <1>3 DEF ClearCancelFunc
  <1>4. CASE CheckCloseChannel(p)
    BY <1>4 DEF CheckCloseChannel
  <1>5. CASE LoadCloseChannel(p)
    BY <1>5 DEF LoadCloseChannel, LoadsAgain, MayUse
  <1>6. CASE SendClose(p)
    <2>1. closeQueue' \in [Conns -> Seq({"nil", "error"})]
      BY <1>6 DEF SendClose, Conns
    <2> QED BY <1>6, <2>1 DEF SendClose
  <1>7. CASE ClearCloseChannel(p)
    BY <1>7 DEF ClearCloseChannel
  <1>8. CASE CloseWs(p)
    BY <1>8 DEF CloseWs, MayUse
  <1>9. CASE ClearWs(p)
    BY <1>9 DEF ClearWs
  <1>10. CASE ClearSendChannel(p)
    BY <1>10 DEF ClearSendChannel
  <1>11. CASE CallCloseHandler(p)
    BY <1>11 DEF CallCloseHandler
  <1>12. CASE ClearCloseHandler(p)
    BY <1>12 DEF ClearCloseHandler
  <1>13. CASE ClearWriter(p)
    BY <1>13 DEF ClearWriter
  <1>14. CASE CheckCancelFunc(p)
    BY <1>14 DEF CheckCancelFunc
  <1>15. CASE CheckWs(p)
    BY <1>15 DEF CheckWs
  <1> QED BY <1>1, <1>2, <1>3, <1>4, <1>5, <1>6, <1>7, <1>8, <1>9,
             <1>10, <1>11, <1>12, <1>13, <1>14, <1>15
          DEF Reset

LEMMA UseDataType ==
  ASSUME DataTypeOK, NEW p \in Procs, NEW field \in 0 .. MaxConns, NEW label,
         Use(p, field, label)
  PROVE  DataTypeOK'
  <1>1. reg' \in [Procs -> 0 .. MaxConns]
    BY DEF DataTypeOK, Use, Loads
  <1>2. panicked' \in BOOLEAN
    BY DEF DataTypeOK, Use
  <1>3. UNCHANGED <<transport, writer, decoder, ws, cancelFunc, sendChannel, closeChannel,
                    closeHandler, connectLock, dialed, link, lost, canceled, rootCanceled,
                    sendQueue, closeQueue, hand, err, written>>
    BY DEF Use, fields, conns, queues, h2
  <1> QED BY ONLY DataTypeOK, <1>1, <1>2, <1>3 DEF DataTypeOK

LEMMA LoopDataType ==
  ASSUME DataTypeOK, HandInv, NEW e \in Conns,
         SendLoopStep(e) \/ RecvLoopStep(e) \/ ReadMessage(RecvLoop(e))
  PROVE  DataTypeOK'
  <1> DEFINE s == SendLoop(e)
             v == RecvLoop(e)
  <1>0. s \in Procs /\ v \in Procs
    BY ConnsFacts
  <1> USE <1>0, ConnAssumption DEF DataTypeOK, Loads, fields, conns, queues, hist, h2
  <1>1. CASE SendLoopCheck(s)
    BY <1>1 DEF SendLoopCheck
  <1>2. CASE Select(s)
    BY <1>2 DEF Select
  <1>3. CASE SelectDone(e)
    BY <1>3 DEF SelectDone
  <1>4. CASE SelectMessage(s)
    <2>1. reg[s] \in Conns
      BY <1>4 DEF SelectMessage, Conns
    <2>2. sendQueue[reg[s]] \in Seq(Users) /\ sendQueue[reg[s]] # <<>>
      BY <1>4, <2>1 DEF SelectMessage
    <2>3. /\ Head(sendQueue[reg[s]]) \in Users
          /\ Tail(sendQueue[reg[s]]) \in Seq(Users)
      BY <2>2
    <2>4. <<Head(sendQueue[reg[s]])>> \in Seq(Users)
      BY <2>3
    <2> QED BY <1>4, <2>3, <2>4 DEF SelectMessage
  <1>5. CASE SendLoopRecheck(s)
    BY <1>5 DEF SendLoopRecheck
  <1>6. CASE SendLoopLoad(s)
    <2>1. WriteEnd \in 0 .. MaxConns
      BY DEF WriteEnd
    <2> QED BY <1>6, <2>1, UseDataType DEF SendLoopLoad
  <1>7. CASE WriteMessage(s)
    <2>0. pc[s] = "swrite"
      BY <1>7 DEF WriteMessage, At
    <2>1. reg[s] \in Conns /\ hand[s] # <<>>
      <3>1. reg[s] # 0 /\ hand[s] # <<>>
        BY <2>0 DEF HandInv
      <3>2. reg[s] \in 0 .. MaxConns
        OBVIOUS
      <3> QED BY <3>1, <3>2 DEF Conns
    <2>2. Head(hand[s]) \in Users /\ <<>> \in Seq(Users)
      BY <2>1
    <2>3. written' \in Seq([msg : Users, on : Conns])
      BY <1>7, <2>1, <2>2 DEF WriteMessage
    <2>4. hand' \in [Procs -> Seq(Users)]
      BY <1>7, <2>2 DEF WriteMessage
    <2> QED BY <1>7, <2>3, <2>4 DEF WriteMessage
  <1>8. CASE WriteFails(s)
    BY <1>8 DEF WriteFails, Fails, HandleError
  <1>9. CASE RecvLoopCheck(v)
    BY <1>9 DEF RecvLoopCheck
  <1>10. CASE RecvLoopLoad(v)
    <2>1. ReadEnd \in 0 .. MaxConns
      BY DEF ReadEnd
    <2> QED BY <1>10, <2>1, UseDataType DEF RecvLoopLoad
  <1>11. CASE ReadFails(v)
    BY <1>11 DEF ReadFails, Fails, HandleError
  <1>12. CASE ReadMessage(v)
    BY <1>12 DEF ReadMessage
  <1>13. CASE MarshalFails(s)
    BY <1>13 DEF MarshalFails, HandleError
  <1> QED BY <1>1, <1>2, <1>3, <1>4, <1>5, <1>6, <1>7, <1>8, <1>9,
             <1>10, <1>11, <1>12, <1>13
          DEF SendLoopStep, SendLoopRuns, RecvLoopStep

LEMMA TypeStep == Inv /\ [Next]_vars => TypeOK'
  <1> SUFFICES ASSUME Inv, [Next]_vars PROVE TypeOK'
    OBVIOUS
  <1>1. ASSUME NEW e \in Conns, Lose(e) \/ CancelRoot(e) PROVE TypeOK'
    BY <1>1 DEF Lose, CancelRoot, Inv, TypeOK, PcTypeOK, DataTypeOK, fields, h2, queues, hist
  <1>2. CASE UNCHANGED vars
    BY <1>2 DEF vars, Inv, TypeOK, PcTypeOK, DataTypeOK, fields, h2, conns, queues, hist
  <1>3. ASSUME NEW u \in Users, User(u) PROVE TypeOK'
    BY <1>3, ConnsFacts, UserPcType, UserDataType DEF Inv, TypeOK
  <1>4. ASSUME NEW p \in Procs, Reset(p) PROVE TypeOK'
    BY <1>4, ResetPcType, ResetDataType DEF Inv, TypeOK
  <1>5. ASSUME NEW e \in Conns,
               SendLoopStep(e) \/ RecvLoopStep(e) \/ ReadMessage(RecvLoop(e))
        PROVE  TypeOK'
    BY <1>5, LoopPcType, LoopDataType DEF Inv, TypeOK
  <1> QED BY <1>1, <1>2, <1>3, <1>4, <1>5 DEF Next

-----------------------------------------------------------------------------
(* The lock.                                                               *)

\* A step outside Connect: it neither takes the lock nor makes a connection.
LEMMA OutsideConnect ==
  ASSUME PcTypeOK, LockInv, DialInv, NEW p \in Procs, NEW label,
         label \notin Connecting,
         pc' = [pc EXCEPT ![p] = label] \/ pc' = pc,
         UNCHANGED connectLock, ws' \in {ws, 0}
  PROVE  LockInv' /\ DialInv'
  <1>1. \A u \in Users : pc'[u] \in Connecting => pc'[u] = pc[u]
    BY ConnsFacts DEF PcTypeOK
  <1>2. LockInv'
    BY <1>1 DEF LockInv
  <1>3. DialInv'
    BY <1>1 DEF DialInv, Connecting
  <1> QED BY <1>2, <1>3

LEMMA UserLock ==
  ASSUME PcTypeOK, LockInv, DialInv, NEW u \in Users, User(u)
  PROVE  LockInv' /\ DialInv'
  <1> USE DEF At, Goto
  <1>0. u \in Procs
    BY ConnsFacts
  <1>1. CASE Lock(u)
    <2>1. \A v \in Users \ {u} : pc'[v] = pc[v] /\ pc[v] \notin Connecting
      BY <1>0, <1>1, ConnsFacts DEF Lock, PcTypeOK, LockInv
    <2>2. connectLock' = {u} /\ pc'[u] = "locked"
      BY <1>0, <1>1 DEF Lock, PcTypeOK
    <2> QED BY <2>1, <2>2 DEF LockInv, DialInv, Connecting
  <1>2. ASSUME pc[u] \in Connecting PROVE \A v \in Users \ {u} : pc[v] \notin Connecting
    BY <1>2 DEF LockInv
  <1>3. CASE CheckConnected(u)
    <2>1. \A v \in Users \ {u} : pc'[v] = pc[v] /\ pc'[v] \notin Connecting
      BY <1>0, <1>2, <1>3, ConnsFacts DEF CheckConnected, PcTypeOK, Connecting
    <2>2. \/ ws' = 0 /\ connectLock' = {u}
          \/ pc'[u] = AfterConnect(u)
      BY <1>0, <1>3 DEF CheckConnected, PcTypeOK, LockInv, Connecting, fields
    <2> QED BY <2>1, <2>2 DEF LockInv, DialInv, Connecting, AfterConnect
  <1>4. CASE Dial(u)
    <2>1. \A v \in Users \ {u} : pc'[v] = pc[v] /\ pc'[v] \notin Connecting
      BY <1>0, <1>2, <1>4, ConnsFacts DEF Dial, ConnectWs, ConnectH2, PcTypeOK, Connecting
    <2>2. \/ pc'[u] \in {"setdecoder", "setcancel"} /\ connectLock' = {u}
          \/ pc'[u] = "done"
      BY <1>0, <1>4 DEF Dial, ConnectWs, ConnectH2, PcTypeOK, LockInv, Connecting
    <2> QED BY <2>1, <2>2 DEF LockInv, DialInv, Connecting
  <1>5. CASE SetDecoder(u) \/ SetCancelFunc(u) \/ SetSendChannel(u)
    <2>1. \A v \in Users \ {u} : pc'[v] = pc[v] /\ pc'[v] \notin Connecting
      BY <1>0, <1>2, <1>5, ConnsFacts DEF SetDecoder, SetCancelFunc, SetSendChannel, PcTypeOK, Connecting
    <2>2. pc'[u] \in {"setcancel", "setsend", "setclose"} /\ connectLock' = {u}
      BY <1>0, <1>5 DEF SetDecoder, SetCancelFunc, SetSendChannel, PcTypeOK, LockInv, Connecting
    <2> QED BY <2>1, <2>2 DEF LockInv, DialInv, Connecting
  <1>6. CASE StartLoops(u)
    <2>1. \A v \in Users \ {u} : pc[v] \notin Connecting
      BY <1>2, <1>6 DEF StartLoops, Connecting
    <2>2. \A v \in Users : pc'[v] \in {pc[v], AfterConnect(u), "scheck", "vcheck"}
      BY <1>6, ConnsFacts DEF StartLoops, PcTypeOK
    <2>3. pc'[u] \in {AfterConnect(u), "scheck", "vcheck"}
      BY <1>0, <1>6 DEF StartLoops, PcTypeOK
    <2> QED BY <2>1, <2>2, <2>3 DEF LockInv, DialInv, Connecting, AfterConnect
  <1>7. CASE EvalSendChannel(u) \/ Enqueue(u) \/ WaitCheck(u) \/ WaitLoad(u) \/ WaitReceive(u)
    BY <1>0, <1>7, OutsideConnect
    DEF EvalSendChannel, Enqueue, WaitCheck, WaitLoad, WaitReceive, Connecting, fields
  <1> QED BY <1>1, <1>3, <1>4, <1>5, <1>6, <1>7 DEF User

LEMMA ResetLock ==
  ASSUME PcTypeOK, LockInv, DialInv, NEW p \in Procs, Reset(p)
  PROVE  LockInv' /\ DialInv'
  <1>1. CASE Close(p) \/ CheckCancelFunc(p) \/ CallCancelFunc(p) \/ ClearCancelFunc(p) \/ CheckCloseChannel(p)
    BY <1>1, OutsideConnect
    DEF Close, CheckCancelFunc, CallCancelFunc, ClearCancelFunc, CheckCloseChannel, Goto, Connecting, fields
  <1>2. CASE LoadCloseChannel(p) \/ SendClose(p) \/ ClearCloseChannel(p)
    BY <1>2, OutsideConnect
    DEF LoadCloseChannel, SendClose, ClearCloseChannel, Goto, Connecting, fields
  <1>4. CASE CheckWs(p)
    <2>1. \E label \in {"unsend", "shutws"} : pc' = [pc EXCEPT ![p] = label]
      BY <1>4 DEF CheckWs, Goto
    <2> QED BY <1>4, <2>1, OutsideConnect DEF CheckWs, Connecting, fields
  <1>5. CASE CloseWs(p)
    <2>1. pc' = [pc EXCEPT ![p] = "unws"] \/ pc' = pc
      BY <1>5 DEF CloseWs, Goto
    <2> QED BY <1>5, <2>1, OutsideConnect DEF CloseWs, Connecting, fields
  <1>3. CASE ClearWs(p) \/ ClearWriter(p) \/ ClearSendChannel(p) \/ CallCloseHandler(p) \/ ClearCloseHandler(p)
    BY <1>3, OutsideConnect
    DEF ClearWs, ClearWriter, ClearSendChannel, CallCloseHandler, ClearCloseHandler,
        Goto, Connecting, fields
  <1> QED BY <1>1, <1>2, <1>3, <1>4, <1>5 DEF Reset

LEMMA LoopLock ==
  ASSUME PcTypeOK, LockInv, DialInv, NEW e \in Conns,
         SendLoopStep(e) \/ RecvLoopStep(e) \/ ReadMessage(RecvLoop(e))
  PROVE  LockInv' /\ DialInv'
  <1>0. SendLoop(e) \in Procs /\ RecvLoop(e) \in Procs
    BY ConnsFacts
  <1>1. CASE SendLoopStep(e)
    <2> DEFINE s == SendLoop(e)
    <2>1. CASE SendLoopCheck(s) \/ Select(s) \/ SelectDone(e) \/ SelectMessage(s)
      BY <1>0, <2>1, OutsideConnect
      DEF SendLoopCheck, Select, SelectDone, SelectMessage, Goto, Connecting, fields
    <2>2. CASE SendLoopRecheck(s) \/ SendLoopLoad(s)
      BY <1>0, <2>2, OutsideConnect
      DEF SendLoopRecheck, SendLoopLoad, Use, Goto, Connecting, fields
    <2>3. CASE WriteMessage(s) \/ WriteFails(s) \/ MarshalFails(s)
      BY <1>0, <2>3, OutsideConnect
      DEF WriteMessage, WriteFails, MarshalFails, Fails, HandleError, Goto, Connecting, fields
    <2> QED BY <1>1, <2>1, <2>2, <2>3 DEF SendLoopStep, SendLoopRuns
  <1>2. CASE RecvLoopStep(e) \/ ReadMessage(RecvLoop(e))
    BY <1>0, <1>2, OutsideConnect
    DEF RecvLoopStep, RecvLoopCheck, RecvLoopLoad, Use, ReadFails, ReadMessage, Fails,
        HandleError, Goto, Connecting, fields
  <1> QED BY <1>1, <1>2

LEMMA LockStep == Inv /\ [Next]_vars => LockInv' /\ DialInv'
  <1> SUFFICES ASSUME Inv, [Next]_vars PROVE LockInv' /\ DialInv'
    OBVIOUS
  <1> USE DEF Inv, TypeOK
  <1>1. ASSUME UNCHANGED <<pc, connectLock, ws>> PROVE LockInv' /\ DialInv'
    BY <1>1 DEF LockInv, DialInv
  <1>2. ASSUME NEW e \in Conns, Lose(e) \/ CancelRoot(e) PROVE LockInv' /\ DialInv'
    BY <1>1, <1>2 DEF Lose, CancelRoot, fields
  <1>3. CASE UNCHANGED vars
    BY <1>1, <1>3 DEF vars, fields
  <1> QED BY <1>2, <1>3, UserLock, ResetLock, LoopLock DEF Next

-----------------------------------------------------------------------------
(* What a sendLoop holds.                                                  *)

Holding == {"srecheck", "sload", "swrite"}

\* A step of one goroutine to a place where it needs no message, or that takes
\* along what it had.
LEMMA HandStays ==
  ASSUME HandInv, NEW p \in Procs,
         pc'[p] \in Holding => pc'[p] = pc[p] /\ reg'[p] = reg[p] /\ hand'[p] = hand[p],
         \A q \in Procs \ {p} : pc'[q] = pc[q] /\ reg'[q] = reg[q] /\ hand'[q] = hand[q]
  PROVE  HandInv'
  BY DEF HandInv, Holding

\* The same for a step that moves p elsewhere and leaves what loops hold alone.
LEMMA HandUntouched ==
  ASSUME PcTypeOK, DataTypeOK, HandInv, NEW p \in Procs,
         NEW label, label \notin Holding, pc' = [pc EXCEPT ![p] = label],
         reg' = reg \/ \E e \in 0 .. MaxConns : reg' = [reg EXCEPT ![p] = e],
         UNCHANGED hand
  PROVE  HandInv'
  <1>1. pc'[p] \notin Holding
    BY DEF PcTypeOK
  <1>2. \A q \in Procs \ {p} : pc'[q] = pc[q]
    BY DEF PcTypeOK
  <1>3. \A q \in Procs \ {p} : reg'[q] = reg[q]
    BY DEF DataTypeOK
  <1> QED BY <1>1, <1>2, <1>3, HandStays

\* What the fields of the client hold.
LEMMA FieldsInRange ==
  DataTypeOK => {ws, cancelFunc, sendChannel, closeChannel} \subseteq 0 .. MaxConns
  BY DEF DataTypeOK

LEMMA UserHand ==
  ASSUME PcTypeOK, DataTypeOK, HandInv, NEW u \in Users, User(u)
  PROVE  HandInv'
  <1>0. u \in Procs
    BY ConnsFacts
  <1> USE <1>0 DEF Goto, Loads, Holding
  <1>1. CASE Lock(u)
    BY <1>1, HandUntouched DEF Lock
  <1>2. CASE CheckConnected(u)
    <2>1. /\ \E label \in {"dial", "waitcheck", "evalsend"} : pc' = [pc EXCEPT ![u] = label]
          /\ UNCHANGED <<reg, hand>>
      BY <1>2 DEF CheckConnected, AfterConnect
    <2> QED BY <2>1, HandUntouched
  <1>3. CASE Dial(u)
    <2>1. UNCHANGED hand
      BY <1>3 DEF Dial, ConnectWs, ConnectH2
    <2>2. \E label \in {"setdecoder", "setcancel", "done"} : pc' = [pc EXCEPT ![u] = label]
      BY <1>3 DEF Dial, ConnectWs, ConnectH2
    <2>3. reg' = reg \/ (reg' = [reg EXCEPT ![u] = dialed + 1] /\ dialed < MaxConns)
      BY <1>3 DEF Dial, ConnectWs, ConnectH2
    <2>4. dialed \in 0 .. MaxConns
      BY DEF DataTypeOK
    <2>5. dialed < MaxConns => dialed + 1 \in 0 .. MaxConns
      BY <2>4, ConnAssumption
    <2> QED BY <2>1, <2>2, <2>3, <2>5, HandUntouched
  <1>4. CASE SetCancelFunc(u)
    BY <1>4, HandUntouched DEF SetCancelFunc
  <1>5. CASE SetSendChannel(u)
    BY <1>5, HandUntouched DEF SetSendChannel
  <1>6. CASE StartLoops(u)
    BY <1>6 DEF StartLoops, AfterConnect, HandInv, PcTypeOK
  <1>7. CASE EvalSendChannel(u)
    BY <1>7, FieldsInRange, HandUntouched DEF EvalSendChannel
  <1>8. CASE Enqueue(u)
    BY <1>8, HandUntouched DEF Enqueue
  <1>9. CASE WaitCheck(u)
    <2>1. /\ \E label \in {"done", "waitload"} : pc' = [pc EXCEPT ![u] = label]
          /\ reg' = [reg EXCEPT ![u] = closeChannel] /\ UNCHANGED hand
      BY <1>9 DEF WaitCheck
    <2> QED BY <2>1, FieldsInRange, HandUntouched
  <1>10. CASE WaitLoad(u)
    BY <1>10, FieldsInRange, HandUntouched, LoadsEither DEF WaitLoad
  <1>11. CASE WaitReceive(u)
    BY <1>11, HandUntouched DEF WaitReceive
  <1>12. CASE SetDecoder(u)
    BY <1>12, HandUntouched DEF SetDecoder
  <1> QED BY <1>1, <1>2, <1>3, <1>4, <1>5, <1>6, <1>7, <1>8, <1>9, <1>10, <1>11, <1>12
          DEF User

LEMMA ResetHand ==
  ASSUME PcTypeOK, DataTypeOK, HandInv, NEW p \in Procs, Reset(p)
  PROVE  HandInv'
  <1> DEFINE Leaves(labels) == \E label \in labels : pc' = [pc EXCEPT ![p] = label]
  <1>0. ASSUME Leaves({"done", "cancel", "checkclose", "callcancel", "uncancel", "closews", "shutws", "loadclose",
                       "sendclose", "unclose", "unsend", "unws", "unwriter", "handler", "unhandler"}),
               UNCHANGED hand,
               reg' = reg \/ \E v \in {ws, cancelFunc, closeChannel} : reg' = [reg EXCEPT ![p] = v]
        PROVE  HandInv'
    BY <1>0, FieldsInRange, HandUntouched DEF Holding
  <1>0a. ASSUME UNCHANGED <<pc, reg, hand>> PROVE HandInv'
    BY <1>0a DEF HandInv
  <1> USE DEF Goto, Loads
  <1>1. CASE Close(p)
    BY <1>0, <1>1 DEF Close
  <1>2. CASE CallCancelFunc(p)
    BY <1>0, <1>0a, <1>2 DEF CallCancelFunc
  <1>3. CASE ClearCancelFunc(p)
    BY <1>0, <1>3 DEF ClearCancelFunc
  <1>4. CASE CheckCloseChannel(p)
    BY <1>0, <1>4 DEF CheckCloseChannel
  <1>5. CASE LoadCloseChannel(p)
    BY <1>0, <1>5, LoadsEither DEF LoadCloseChannel
  <1>6. CASE SendClose(p)
    BY <1>0, <1>6 DEF SendClose
  <1>7. CASE ClearCloseChannel(p)
    BY <1>0, <1>7 DEF ClearCloseChannel
  <1>8. CASE CloseWs(p)
    BY <1>0, <1>0a, <1>8 DEF CloseWs
  <1>9. CASE ClearWs(p)
    BY <1>0, <1>9 DEF ClearWs
  <1>10. CASE ClearSendChannel(p)
    BY <1>0, <1>10 DEF ClearSendChannel
  <1>11. CASE CallCloseHandler(p)
    BY <1>0, <1>11 DEF CallCloseHandler
  <1>12. CASE ClearCloseHandler(p)
    BY <1>0, <1>12 DEF ClearCloseHandler
  <1>13. CASE ClearWriter(p)
    BY <1>0, <1>13 DEF ClearWriter
  <1>14. CASE CheckCancelFunc(p)
    BY <1>0, <1>14 DEF CheckCancelFunc
  <1>15. CASE CheckWs(p)
    BY <1>0, <1>15 DEF CheckWs
  <1> QED BY <1>1, <1>2, <1>3, <1>4, <1>5, <1>6, <1>7, <1>8, <1>9, <1>10, <1>11, <1>12, <1>13, <1>14, <1>15
          DEF Reset

LEMMA LoopHand ==
  ASSUME PcTypeOK, DataTypeOK, HandInv, NEW e \in Conns,
         SendLoopStep(e) \/ RecvLoopStep(e) \/ ReadMessage(RecvLoop(e))
  PROVE  HandInv'
  <1> DEFINE s == SendLoop(e)
             v == RecvLoop(e)
  <1>0. s \in Procs /\ v \in Procs
    BY ConnsFacts
  <1> HIDE DEF s, v
  <1> USE <1>0 DEF Goto, Loads, At, PcTypeOK, DataTypeOK
  <1>1. CASE SendLoopCheck(s) \/ Select(s)
    <2>1. pc'[s] \notin Holding
      BY <1>1 DEF SendLoopCheck, Select, Holding
    <2>2. \A q \in Procs \ {s} : pc'[q] = pc[q] /\ reg'[q] = reg[q] /\ hand'[q] = hand[q]
      BY <1>1 DEF SendLoopCheck, Select
    <2> QED BY ONLY HandInv, <1>0, <2>1, <2>2, HandStays
  <1>2. CASE SelectDone(e)
    BY <1>2, HandStays DEF SelectDone, Holding, s
  <1>3. CASE SelectMessage(s)
    BY <1>3 DEF SelectMessage, HandInv, PcTypeOK
  <1>4. CASE SendLoopRecheck(s)
    BY <1>4 DEF SendLoopRecheck, HandInv, PcTypeOK
  <1>5. CASE SendLoopLoad(s)
    <2>1. CASE WriteEnd = 0
      BY <1>5, <2>1, HandStays DEF SendLoopLoad, Use
    <2>2. CASE WriteEnd # 0
      BY <1>5, <2>2 DEF SendLoopLoad, Use, HandInv, PcTypeOK
    <2> QED BY <2>1, <2>2
  <1>6. CASE WriteMessage(s) \/ WriteFails(s) \/ MarshalFails(s)
    BY <1>6, HandStays DEF WriteMessage, WriteFails, MarshalFails, Fails, HandleError, Holding
  <1>7. CASE RecvLoopCheck(v) \/ RecvLoopLoad(v)
    <2>1. pc'[v] \notin Holding
      BY <1>7 DEF RecvLoopCheck, RecvLoopLoad, Use, Holding
    <2>2. \A q \in Procs \ {v} : pc'[q] = pc[q] /\ reg'[q] = reg[q] /\ hand'[q] = hand[q]
      BY <1>7 DEF RecvLoopCheck, RecvLoopLoad, Use
    <2> QED BY ONLY HandInv, <1>0, <2>1, <2>2, HandStays
  <1>8. CASE ReadFails(v) \/ ReadMessage(v)
    BY <1>8, HandStays DEF ReadFails, ReadMessage, Fails, HandleError, Holding
  <1> QED BY <1>1, <1>2, <1>3, <1>4, <1>5, <1>6, <1>7, <1>8
          DEF SendLoopStep, SendLoopRuns, RecvLoopStep, s, v

LEMMA InvStep == Inv /\ [Next]_vars => Inv'
  <1> SUFFICES ASSUME Inv, [Next]_vars PROVE Inv'
    OBVIOUS
  <1>1. HandInv'
    <2> USE DEF Inv, TypeOK
    <2>1. ASSUME NEW e \in Conns, Lose(e) \/ CancelRoot(e) PROVE HandInv'
      BY <2>1 DEF Lose, CancelRoot, HandInv
    <2>2. CASE UNCHANGED vars
      BY <2>2 DEF vars, HandInv
    <2> QED BY <2>1, <2>2, UserHand, ResetHand, LoopHand DEF Next
  <1> QED BY <1>1, TypeStep, LockStep DEF Inv

LEMMA InvAlways == Spec => []Inv
  BY InvInit, InvStep, PTL DEF Spec

-----------------------------------------------------------------------------
\* The client's fields, channels and loops keep their types; no sendLoop writes
\* without a message or on a connection that was never dialed.
THEOREM TypeCorrect == Spec => []TypeOK
  <1>1. Inv => TypeOK
    BY DEF Inv
  <1> QED BY <1>1, InvAlways, PTL

\* Only Dial sets ws, and whoever dials holds the lock and has seen it nil.
LEMMA OnlyDialSetsWs ==
  ASSUME Inv, [Next]_vars, ws' # ws, ws' # 0
  PROVE  ws = 0
  <1>1. ASSUME NEW u \in Users, User(u) PROVE ws = 0
    <2>1. Dial(u) \/ ws' = ws
      BY <1>1 DEF User, Lock, CheckConnected, SetDecoder, SetCancelFunc, SetSendChannel, StartLoops,
         EvalSendChannel, Enqueue, WaitCheck, WaitLoad, WaitReceive, fields
    <2> QED BY <2>1 DEF Inv, DialInv, Dial, At
  <1>2. ASSUME NEW p \in Procs, Reset(p) PROVE FALSE
    BY <1>2 DEF Reset, Close, CheckCancelFunc, CallCancelFunc, ClearCancelFunc, CheckCloseChannel,
       LoadCloseChannel, SendClose, ClearCloseChannel, CheckWs, CloseWs, ClearWs,
       ClearWriter, ClearSendChannel, CallCloseHandler, ClearCloseHandler, fields
  <1>3. ASSUME NEW e \in Conns,
               SendLoopStep(e) \/ RecvLoopStep(e) \/ ReadMessage(RecvLoop(e))
        PROVE  FALSE
    BY <1>3 DEF SendLoopStep, SendLoopRuns, SendLoopCheck, Select, SelectDone, SelectMessage,
       SendLoopRecheck, SendLoopLoad, Use, WriteMessage, WriteFails, MarshalFails, Fails, HandleError,
       RecvLoopStep, RecvLoopCheck, RecvLoopLoad, ReadFails, ReadMessage, fields
  <1>4. ASSUME NEW e \in Conns, Lose(e) \/ CancelRoot(e) PROVE FALSE
    BY <1>4 DEF Lose, CancelRoot, fields
  <1>5. CASE UNCHANGED vars
    BY <1>5 DEF vars, fields
  <1> QED BY <1>1, <1>2, <1>3, <1>4, <1>5 DEF Next

\* connectLock suffices for Connect although no Reset takes it: a connection
\* that is up is never replaced by another.
THEOREM NeverReplacesConnection == Spec => DialOnlyWhenDown
  <1>1. Inv /\ [Next]_vars => [NeverReplaced]_vars
    BY OnlyDialSetsWs DEF NeverReplaced
  <1> QED BY <1>1, InvAlways, PTL DEF Spec, DialOnlyWhenDown

-----------------------------------------------------------------------------
(* The HTTP/2 transport's decoder.                                         *)

\* Once the first Connect is past SetDecoder there is a decoder, for good.
Decoding == {"setcancel", "setsend", "setclose"}
DecoderInv ==
  /\ \A u \in Users : pc[u] = "setdecoder" => reg[u] # 0
  /\ transport = "h2" =>
       /\ \A u \in Users : pc[u] \in Decoding => decoder # 0
       /\ \A p \in RecvLoops : pc[p] # "off" => decoder # 0

LEMMA DecoderInit == Init => DecoderInv
  <1>1. \A p \in RecvLoops : p \in Procs /\ p \notin Users
    BY ConnAssumption DEF Procs
  <1> QED BY <1>1, ConnsFacts DEF Init, DecoderInv, Decoding

\* A step of one goroutine outside the part of Connect that DecoderInv is about.
LEMMA DecoderStays ==
  ASSUME DecoderInv, PcTypeOK, DataTypeOK, NEW p \in Procs, pc[p] # "off",
         NEW label, label \notin Decoding \cup {"setdecoder"},
         pc' = [pc EXCEPT ![p] = label],
         UNCHANGED <<decoder, transport>>,
         reg' = reg \/ \E e \in 0 .. MaxConns : reg' = [reg EXCEPT ![p] = e]
  PROVE  DecoderInv'
  <1>1. \A u \in Users : pc'[u] \in Decoding \cup {"setdecoder"} => pc'[u] = pc[u]
    BY ConnsFacts DEF PcTypeOK
  <1>2. \A u \in Users : pc'[u] = "setdecoder" => reg'[u] = reg[u]
    BY ConnsFacts DEF PcTypeOK, DataTypeOK
  <1>3. \A q \in RecvLoops : q \in Procs
    BY DEF Procs
  <1>4. \A q \in RecvLoops : pc'[q] # "off" => pc[q] # "off"
    BY <1>3 DEF PcTypeOK
  <1> QED BY <1>1, <1>2, <1>4 DEF DecoderInv

LEMMA UserDecoder ==
  ASSUME DecoderInv, PcTypeOK, DataTypeOK, NEW u \in Users, User(u)
  PROVE  DecoderInv'
  <1>0. u \in Procs
    BY ConnsFacts
  <1>0a. \A q \in RecvLoops : q \in Procs /\ q # u
    BY ConnAssumption DEF Procs
  <1> USE <1>0 DEF At, Goto, Loads, fields, h2
  <1>1. CASE Lock(u)
    BY <1>1, DecoderStays DEF Lock, Decoding
  <1>2. CASE CheckConnected(u)
    <2>1. /\ \E label \in {"dial", "waitcheck", "evalsend"} : pc' = [pc EXCEPT ![u] = label]
          /\ UNCHANGED <<reg, decoder, transport>> /\ pc[u] # "off"
      BY <1>2 DEF CheckConnected, AfterConnect
    <2> QED BY <2>1, DecoderStays DEF Decoding
  <1>3. CASE Dial(u)
    <2>1. \A v \in Users \ {u} : pc'[v] = pc[v] /\ reg'[v] = reg[v]
      BY <1>3, ConnsFacts DEF Dial, ConnectWs, ConnectH2, PcTypeOK, DataTypeOK
    <2>2. \A q \in RecvLoops : pc'[q] = pc[q]
      BY <1>0a, <1>3 DEF Dial, ConnectWs, ConnectH2, PcTypeOK
    <2>3. UNCHANGED <<decoder, transport>>
      BY <1>3 DEF Dial, ConnectWs, ConnectH2
    <2>4. dialed + 1 # 0
      BY ConnAssumption DEF DataTypeOK
    <2>5. /\ pc'[u] = "setdecoder" => reg'[u] # 0
          /\ transport = "h2" => pc'[u] \notin Decoding
      BY <1>3, <2>4 DEF Dial, ConnectWs, ConnectH2, PcTypeOK, DataTypeOK, Decoding
    <2> QED BY <2>1, <2>2, <2>3, <2>5 DEF DecoderInv
  <1>4. CASE SetDecoder(u)
    <2>1. decoder' # 0 /\ UNCHANGED <<transport, reg>>
      BY <1>4 DEF SetDecoder, DecoderInv
    <2>2. \A v \in Users : pc'[v] = "setdecoder" => pc[v] = "setdecoder"
      BY <1>4, ConnsFacts DEF SetDecoder, PcTypeOK
    <2> QED BY <2>1, <2>2 DEF DecoderInv
  <1>5. CASE SetCancelFunc(u) \/ SetSendChannel(u)
    <2>1. \A v \in Users : pc'[v] \in Decoding => pc[v] \in Decoding
      BY <1>5, ConnsFacts DEF SetCancelFunc, SetSendChannel, PcTypeOK, Decoding
    <2>2. \A v \in Users : pc'[v] = "setdecoder" => pc[v] = "setdecoder"
      BY <1>5, ConnsFacts DEF SetCancelFunc, SetSendChannel, PcTypeOK
    <2>3. \A q \in RecvLoops : pc'[q] = pc[q]
      BY <1>0a, <1>5 DEF SetCancelFunc, SetSendChannel, PcTypeOK
    <2>4. UNCHANGED <<transport, decoder, reg>>
      BY <1>5 DEF SetCancelFunc, SetSendChannel
    <2> QED BY <2>1, <2>2, <2>3, <2>4 DEF DecoderInv
  <1>6. CASE StartLoops(u)
    <2>1. UNCHANGED <<transport, decoder, reg>> /\ pc[u] \in Decoding
      BY <1>6 DEF StartLoops, Decoding
    <2>2. \A v \in Users : pc'[v] \in {pc[v], AfterConnect(u), "scheck", "vcheck"}
      BY <1>6, ConnsFacts DEF StartLoops, PcTypeOK
    <2>3. \A v \in Users : pc'[v] \in Decoding \cup {"setdecoder"} => pc'[v] = pc[v]
      BY <2>2 DEF Decoding, AfterConnect
    <2>4. transport = "h2" => decoder # 0
      BY <2>1 DEF DecoderInv
    <2> QED BY <2>1, <2>3, <2>4 DEF DecoderInv
  <1>7. CASE EvalSendChannel(u)
    BY <1>7, FieldsInRange, DecoderStays DEF EvalSendChannel, Decoding
  <1>8. CASE Enqueue(u) \/ WaitReceive(u)
    BY <1>8, DecoderStays DEF Enqueue, WaitReceive, Decoding
  <1>9. CASE WaitCheck(u)
    <2>1. /\ \E label \in {"done", "waitload"} : pc' = [pc EXCEPT ![u] = label]
          /\ reg' = [reg EXCEPT ![u] = closeChannel] /\ UNCHANGED <<transport, decoder>>
          /\ pc[u] # "off"
      BY <1>9 DEF WaitCheck
    <2> QED BY <2>1, FieldsInRange, DecoderStays DEF Decoding
  <1>10. CASE WaitLoad(u)
    BY <1>10, FieldsInRange, DecoderStays, LoadsEither DEF WaitLoad, Decoding
  <1> QED BY <1>1, <1>2, <1>3, <1>4, <1>5, <1>6, <1>7, <1>8, <1>9, <1>10 DEF User

LEMMA ResetDecoder ==
  ASSUME DecoderInv, PcTypeOK, DataTypeOK, NEW p \in Procs, Reset(p)
  PROVE  DecoderInv'
  <1> DEFINE Leaves(labels) == \E label \in labels : pc' = [pc EXCEPT ![p] = label]
  <1>0. ASSUME Leaves({"done", "cancel", "checkclose", "callcancel", "uncancel", "closews", "shutws", "loadclose",
                       "sendclose", "unclose", "unsend", "unws", "unwriter", "handler",
                       "unhandler"}),
               pc[p] # "off", UNCHANGED <<decoder, transport>>,
               reg' = reg \/ \E v \in {ws, cancelFunc, closeChannel} : reg' = [reg EXCEPT ![p] = v]
        PROVE  DecoderInv'
    BY <1>0, FieldsInRange, DecoderStays DEF Decoding
  <1>0a. ASSUME UNCHANGED <<pc, reg, h2>> PROVE DecoderInv'
    BY <1>0a DEF DecoderInv, h2
  <1> USE DEF At, Goto, Loads, fields, h2
  <1>1. CASE Close(p)
    BY <1>0, <1>1 DEF Close
  <1>2. CASE CallCancelFunc(p)
    BY <1>0, <1>0a, <1>2 DEF CallCancelFunc
  <1>3. CASE ClearCancelFunc(p)
    BY <1>0, <1>3 DEF ClearCancelFunc
  <1>4. CASE CheckCloseChannel(p)
    BY <1>0, <1>4 DEF CheckCloseChannel
  <1>5. CASE LoadCloseChannel(p)
    BY <1>0, <1>5, LoadsEither DEF LoadCloseChannel
  <1>6. CASE SendClose(p)
    BY <1>0, <1>6 DEF SendClose
  <1>7. CASE ClearCloseChannel(p)
    BY <1>0, <1>7 DEF ClearCloseChannel
  <1>8. CASE CloseWs(p)
    BY <1>0, <1>0a, <1>8 DEF CloseWs
  <1>9. CASE ClearWs(p)
    BY <1>0, <1>9 DEF ClearWs
  <1>10. CASE ClearWriter(p)
    BY <1>0, <1>10 DEF ClearWriter
  <1>11. CASE ClearSendChannel(p)
    BY <1>0, <1>11 DEF ClearSendChannel
  <1>12. CASE CallCloseHandler(p)
    BY <1>0, <1>12 DEF CallCloseHandler
  <1>13. CASE ClearCloseHandler(p)
    BY <1>0, <1>13 DEF ClearCloseHandler
  <1>14. CASE CheckCancelFunc(p)
    BY <1>0, <1>14 DEF CheckCancelFunc
  <1>15. CASE CheckWs(p)
    BY <1>0, <1>15 DEF CheckWs
  <1> QED BY <1>1, <1>2, <1>3, <1>4, <1>5, <1>6, <1>7, <1>8, <1>9, <1>10, <1>11, <1>12,
             <1>13, <1>14, <1>15
          DEF Reset

LEMMA LoopDecoder ==
  ASSUME DecoderInv, PcTypeOK, DataTypeOK, NEW e \in Conns,
         SendLoopStep(e) \/ RecvLoopStep(e) \/ ReadMessage(RecvLoop(e))
  PROVE  DecoderInv'
  <1> DEFINE s == SendLoop(e)
             v == RecvLoop(e)
  <1>0. s \in Procs /\ v \in Procs
    BY ConnsFacts
  <1> HIDE DEF s, v
  <1>a. ASSUME NEW p \in {s, v}, NEW label, label \notin Decoding \cup {"setdecoder"},
               pc[p] # "off", pc' = [pc EXCEPT ![p] = label],
               UNCHANGED <<decoder, transport>>,
               reg' = reg \/ \E c \in 0 .. MaxConns : reg' = [reg EXCEPT ![p] = c]
        PROVE  DecoderInv'
    BY <1>0, <1>a, DecoderStays
  <1>b. ASSUME UNCHANGED <<pc, reg, decoder, transport>> PROVE DecoderInv'
    BY <1>b DEF DecoderInv
  <1>c. WriteEnd \in 0 .. MaxConns /\ ReadEnd \in 0 .. MaxConns
    BY DEF WriteEnd, ReadEnd, DataTypeOK
  <1> USE DEF At, Goto, Loads, Decoding, fields, h2
  <1>1. CASE SendLoopCheck(s) \/ SelectMessage(s) \/ SendLoopRecheck(s)
    BY <1>a, <1>1 DEF SendLoopCheck, SelectMessage, SendLoopRecheck
  <1>2. CASE Select(s)
    BY <1>a, <1>2, FieldsInRange DEF Select
  <1>3. CASE SelectDone(e)
    BY <1>a, <1>3 DEF SelectDone, s
  <1>4. CASE SendLoopLoad(s)
    BY <1>a, <1>b, <1>c, <1>4 DEF SendLoopLoad, Use
  <1>5. CASE WriteMessage(s) \/ WriteFails(s) \/ MarshalFails(s)
    BY <1>a, <1>5 DEF WriteMessage, WriteFails, MarshalFails, Fails, HandleError
  <1>6. CASE RecvLoopCheck(v) \/ ReadFails(v) \/ ReadMessage(v)
    BY <1>a, <1>6 DEF RecvLoopCheck, ReadFails, ReadMessage, Fails, HandleError
  <1>7. CASE RecvLoopLoad(v)
    BY <1>a, <1>b, <1>c, <1>7 DEF RecvLoopLoad, Use
  <1> QED BY <1>1, <1>2, <1>3, <1>4, <1>5, <1>6, <1>7 DEF SendLoopStep, SendLoopRuns, RecvLoopStep, s, v

LEMMA DecoderStep == Inv /\ DecoderInv /\ [Next]_vars => DecoderInv'
  <1> SUFFICES ASSUME Inv, DecoderInv, [Next]_vars PROVE DecoderInv'
    OBVIOUS
  <1> USE DEF Inv, TypeOK
  <1>1. ASSUME UNCHANGED <<pc, reg, h2>> PROVE DecoderInv'
    BY <1>1 DEF DecoderInv, h2
  <1>2. ASSUME NEW e \in Conns, Lose(e) \/ CancelRoot(e) PROVE DecoderInv'
    BY <1>1, <1>2 DEF Lose, CancelRoot, fields
  <1>3. CASE UNCHANGED vars
    BY <1>1, <1>3 DEF vars, fields
  <1> QED BY <1>2, <1>3, UserDecoder, ResetDecoder, LoopDecoder DEF Next

\* Whatever Resets run between a recvLoop's look at resp and its read, an HTTP/2
\* client's recvLoop has a decoder: Close leaves the field alone.
THEOREM DecoderAlwaysKept == Spec => []DecoderKept
  <1>1. Inv /\ DecoderInv => DecoderKept
    BY DEF DecoderInv, DecoderKept
  <1>2. Inv /\ DecoderInv /\ [Next]_vars => DecoderInv'
    BY DecoderStep
  <1> QED BY <1>1, <1>2, DecoderInit, InvAlways, PTL DEF Spec

-----------------------------------------------------------------------------
(* Messages, and what closes a connection: the inductive invariants.       *)

\* Connect between the dialing and the start of the loops.
Setting == {"setdecoder", "setcancel", "setsend", "setclose"}

\* Nothing is numbered higher than the last connection dialed, and the loops of
\* a connection that is being set up have not started.  Who reads has a connection.
NumberInv ==
  /\ {ws, writer, decoder, cancelFunc, sendChannel, closeChannel} \subseteq 0 .. dialed
  /\ \A p \in Procs : reg[p] \in 0 .. dialed
  /\ \A e \in Conns : pc[SendLoop(e)] # "off" => e <= dialed
  /\ \A u \in Users : pc[u] \in Setting => reg[u] # 0 /\ pc[SendLoop(reg[u])] = "off"
  /\ \A p \in Procs : pc[p] = "vread" => reg[p] # 0

Members(q) == {q[k] : k \in 1 .. Len(q)}
Distinct(q) == \A i, j \in 1 .. Len(q) : i # j => q[i] # q[j]

Queued(e) == Members(sendQueue[e])
Held(p) == Members(hand[p])
Written == {written[i].msg : i \in 1 .. Len(written)}

\* A message is in one place at most, once, and only if its Send is over.
PlaceInv ==
  /\ \A e \in Conns : Distinct(sendQueue[e])
  /\ \A i, j \in 1 .. Len(written) : i # j => written[i].msg # written[j].msg
  /\ \A p \in SendLoops : Len(hand[p]) <= 1
  /\ \A e, f \in Conns : e # f => Queued(e) \cap Queued(f) = {}
  /\ \A p, q \in SendLoops : p # q => Held(p) \cap Held(q) = {}
  /\ \A e \in Conns : Queued(e) \cap Written = {}
  /\ \A p \in SendLoops : Held(p) \cap Written = {}
  /\ \A e \in Conns, p \in SendLoops : Queued(e) \cap Held(p) = {}
  /\ \A e \in Conns : \A u \in Queued(e) : pc[u] = "done"
  /\ \A p \in SendLoops : \A u \in Held(p) : pc[u] = "done"
  /\ \A u \in Written : pc[u] = "done"

\* No connection has been given up for a reason DeliberateClose names.
Calm == /\ dialed <= 1 /\ 1 \notin lost \cup rootCanceled
        /\ \A u \in Users : UserOp[u] = "any" => pc[u] = "start"

\* Where Close, Reset and handleError are.
Resetting == {"closecheck", "cancel", "callcancel", "uncancel", "checkclose", "loadclose", "sendclose",
              "unclose", "closews", "shutws", "unws", "unwriter", "unsend", "handler", "unhandler"}

CalmInv ==
  /\ \A e \in Conns : link[e] # "none" => e <= dialed
  /\ Calm => /\ \A p \in Procs : pc[p] \notin Resetting
             /\ canceled = {} /\ \A e \in Conns : link[e] # "closed"

-----------------------------------------------------------------------------
(* What steps have in common.                                              *)

Messages == <<sendQueue, hand, written>>

\* A step of one goroutine that neither dials nor starts loops.
Steps(p) ==
  /\ UNCHANGED dialed /\ pc[p] \notin {"off", "done"}
  /\ {ws', writer', decoder', cancelFunc', sendChannel', closeChannel'}
       \subseteq {0, ws, writer, decoder, cancelFunc, sendChannel, closeChannel, reg[p]}
  /\ \/ UNCHANGED reg
     \/ \E v \in {ws, writer, decoder, cancelFunc, sendChannel, closeChannel} :
          reg' = [reg EXCEPT ![p] = v]
  /\ \/ UNCHANGED <<pc, reg>>
     \/ \E label \in Label \ {"off", "start"} :
          /\ pc' = [pc EXCEPT ![p] = label]
          /\ label = "scheck" => WriteMessage(p)
          /\ label \in {"sselect", "srecv"} => pc[p] \in {"scheck", "sselect"}
          /\ label \in Setting => pc[p] \in Setting /\ UNCHANGED reg
          /\ label = "vread" => \E v : v # 0 /\ reg' = [reg EXCEPT ![p] = v]

LEMMA GoesTo ==
  ASSUME NEW p \in Procs, UNCHANGED dialed, pc[p] \notin {"off", "done"},
         UNCHANGED reg \/ \E v \in {ws, writer, decoder, cancelFunc, sendChannel, closeChannel} :
                            reg' = [reg EXCEPT ![p] = v],
         {ws', writer', decoder', cancelFunc', sendChannel', closeChannel'}
           \subseteq {0, ws, writer, decoder, cancelFunc, sendChannel, closeChannel, reg[p]},
         NEW label \in Label \ {"off", "start"},
         label = "scheck" => WriteMessage(p),
         label \in {"sselect", "srecv"} => pc[p] \in {"scheck", "sselect"},
         label \in Setting => pc[p] \in Setting /\ UNCHANGED reg,
         label # "vread",
         pc' = [pc EXCEPT ![p] = label]
  PROVE  Steps(p)
  BY DEF Steps

\* The same for a goroutine that goes to one of some labels, none of which
\* Connect or the beginning of a sendLoop needs.
LEMMA GoesOn ==
  ASSUME NEW p \in Procs, UNCHANGED dialed, pc[p] \notin {"off", "done"},
         UNCHANGED reg \/ \E v \in {ws, writer, decoder, cancelFunc, sendChannel, closeChannel} :
                            reg' = [reg EXCEPT ![p] = v],
         {ws', writer', decoder', cancelFunc', sendChannel', closeChannel'}
           \subseteq {0, ws, writer, decoder, cancelFunc, sendChannel, closeChannel, reg[p]},
         NEW label \in Label \ ({"off", "start", "scheck", "sselect", "srecv", "vread"} \cup Setting),
         pc' = [pc EXCEPT ![p] = label]
  PROVE  Steps(p)
  <1>1. label \in Label \ {"off", "start"} /\ label # "scheck"
        /\ label \notin {"sselect", "srecv"} /\ label \notin Setting /\ label # "vread"
    OBVIOUS
  <1> QED BY <1>1 DEF Steps

LEMMA UserSteps ==
  ASSUME DataTypeOK, NEW u \in Users, User(u), ~Dial(u), ~StartLoops(u)
  PROVE  Steps(u) /\ (UNCHANGED Messages \/ Enqueue(u))
  <1>0. u \in Procs
    BY ConnsFacts
  <1> USE <1>0 DEF At, Goto, Loads, Messages, fields, h2, conns, queues, hist, Label, Setting
  <1>1. CASE Lock(u)
    BY <1>1, GoesOn DEF Lock
  <1>2. CASE CheckConnected(u)
    <2>1. /\ \E label \in {"dial", "waitcheck", "evalsend"} : pc' = [pc EXCEPT ![u] = label]
          /\ UNCHANGED <<reg, dialed, fields, Messages>> /\ pc[u] = "locked"
      BY <1>2 DEF CheckConnected, AfterConnect
    <2> QED BY <2>1, GoesOn
  <1>3. CASE SetDecoder(u)
    BY <1>3, GoesTo DEF SetDecoder
  <1>4. CASE SetCancelFunc(u)
    BY <1>4, GoesTo DEF SetCancelFunc
  <1>5. CASE SetSendChannel(u)
    BY <1>5, GoesTo DEF SetSendChannel
  <1>6. CASE EvalSendChannel(u)
    BY <1>6, GoesOn DEF EvalSendChannel
  <1>7. CASE Enqueue(u)
    BY <1>7, GoesOn DEF Enqueue
  <1>8. CASE WaitCheck(u)
    <2>1. /\ \E label \in {"done", "waitload"} : pc' = [pc EXCEPT ![u] = label]
          /\ reg' = [reg EXCEPT ![u] = closeChannel]
          /\ UNCHANGED <<dialed, fields, Messages>> /\ pc[u] = "waitcheck"
      BY <1>8 DEF WaitCheck
    <2> QED BY <2>1, GoesOn
  <1>9. CASE WaitLoad(u)
    BY <1>9, GoesOn, LoadsEither DEF WaitLoad
  <1>10. CASE WaitReceive(u)
    BY <1>10, GoesOn DEF WaitReceive
  <1> QED BY <1>1, <1>2, <1>3, <1>4, <1>5, <1>6, <1>7, <1>8, <1>9, <1>10 DEF User

LEMMA ResetSteps ==
  ASSUME DataTypeOK, NEW p \in Procs, Reset(p)
  PROVE  Steps(p) /\ UNCHANGED Messages
  <1> DEFINE Leaves(labels) == \E label \in labels : pc' = [pc EXCEPT ![p] = label]
  <1>0. ASSUME Leaves(Resetting \cup {"done"}), pc[p] \in Resetting \cup {"start"},
               UNCHANGED dialed,
               UNCHANGED reg \/ \E v \in {ws, cancelFunc, closeChannel} : reg' = [reg EXCEPT ![p] = v],
               {ws', writer', decoder', cancelFunc', sendChannel', closeChannel'}
                 \subseteq {0, ws, writer, decoder, cancelFunc, sendChannel, closeChannel}
        PROVE  Steps(p)
    <2>1. PICK label \in Resetting \cup {"done"} : pc' = [pc EXCEPT ![p] = label]
      BY <1>0
    <2>2. /\ label \in Label \ ({"off", "start", "scheck", "sselect", "srecv", "vread"} \cup Setting)
          /\ pc[p] \notin {"off", "done"}
      BY <1>0, <2>1 DEF Resetting, Label, Setting
    <2>3. UNCHANGED reg \/ \E v \in {ws, writer, decoder, cancelFunc, sendChannel, closeChannel} :
                              reg' = [reg EXCEPT ![p] = v]
      BY <1>0
    <2>4. {ws', writer', decoder', cancelFunc', sendChannel', closeChannel'}
            \subseteq {0, ws, writer, decoder, cancelFunc, sendChannel, closeChannel, reg[p]}
      BY <1>0
    <2>5. UNCHANGED dialed
      BY <1>0
    <2> QED BY <2>1, <2>2, <2>3, <2>4, <2>5, GoesOn
  <1>0a. ASSUME UNCHANGED <<pc, reg, dialed, fields>>, pc[p] \in Resetting
         PROVE  Steps(p)
    BY <1>0a DEF Steps, Resetting, fields, h2
  <1> USE DEF At, Goto, Loads, Messages, fields, h2, conns, queues, hist, Resetting
  <1>1. CASE Close(p)
    BY <1>0, <1>1 DEF Close
  <1>2. CASE CallCancelFunc(p)
    BY <1>0, <1>0a, <1>2 DEF CallCancelFunc
  <1>3. CASE ClearCancelFunc(p)
    BY <1>0, <1>3 DEF ClearCancelFunc
  <1>4. CASE CheckCloseChannel(p)
    BY <1>0, <1>4 DEF CheckCloseChannel
  <1>5. CASE LoadCloseChannel(p)
    BY <1>0, <1>5, LoadsEither DEF LoadCloseChannel
  <1>6. CASE SendClose(p)
    BY <1>0, <1>6 DEF SendClose
  <1>7. CASE ClearCloseChannel(p)
    BY <1>0, <1>7 DEF ClearCloseChannel
  <1>8. CASE CloseWs(p)
    BY <1>0, <1>0a, <1>8 DEF CloseWs
  <1>9. CASE ClearWs(p)
    BY <1>0, <1>9 DEF ClearWs
  <1>10. CASE ClearWriter(p)
    BY <1>0, <1>10 DEF ClearWriter
  <1>11. CASE ClearSendChannel(p)
    BY <1>0, <1>11 DEF ClearSendChannel
  <1>12. CASE CallCloseHandler(p)
    BY <1>0, <1>12 DEF CallCloseHandler
  <1>13. CASE ClearCloseHandler(p)
    BY <1>0, <1>13 DEF ClearCloseHandler
  <1>14. CASE CheckCancelFunc(p)
    BY <1>0, <1>14 DEF CheckCancelFunc
  <1>15. CASE CheckWs(p)
    BY <1>0, <1>15 DEF CheckWs
  <1> QED BY <1>1, <1>2, <1>3, <1>4, <1>5, <1>6, <1>7, <1>8, <1>9, <1>10, <1>11, <1>12,
             <1>13, <1>14, <1>15
          DEF Reset

LEMMA LoopSteps ==
  ASSUME NEW e \in Conns, SendLoopStep(e) \/ RecvLoopStep(e) \/ ReadMessage(RecvLoop(e))
  PROVE  \/ /\ Steps(SendLoop(e))
            /\ \/ UNCHANGED Messages
               \/ SelectMessage(SendLoop(e)) \/ WriteMessage(SendLoop(e))
         \/ Steps(RecvLoop(e)) /\ UNCHANGED Messages
  <1> DEFINE s == SendLoop(e)
             v == RecvLoop(e)
  <1>0. s \in Procs /\ v \in Procs
    BY ConnsFacts
  <1> HIDE DEF s, v
  <1> USE <1>0 DEF At, Goto, Loads, Messages, fields, h2, conns, queues, hist, Label, Setting
  <1>1. CASE SendLoopCheck(s)
    <2>1. /\ \E label \in {"done", "sselect"} : pc' = [pc EXCEPT ![s] = label]
          /\ UNCHANGED <<reg, dialed, fields, Messages>> /\ pc[s] = "scheck"
      BY <1>1 DEF SendLoopCheck
    <2> QED BY <2>1 DEF Steps, s
  <1>2. CASE Select(s)
    <2>1. /\ pc' = [pc EXCEPT ![s] = "srecv"] /\ pc[s] = "sselect"
          /\ reg' = [reg EXCEPT ![s] = sendChannel]
          /\ UNCHANGED <<dialed, fields, Messages>>
      BY <1>2 DEF Select
    <2>2. Steps(s)
      BY <2>1, GoesTo
    <2> QED BY <2>1, <2>2 DEF s
  <1>3. CASE SelectDone(e)
    <2>1. /\ pc' = [pc EXCEPT ![s] = "closecheck"] /\ pc[s] = "srecv"
          /\ UNCHANGED <<reg, dialed, fields, Messages>>
      BY <1>3 DEF SelectDone, s
    <2> QED BY <2>1, GoesOn DEF s
  <1>4. CASE SelectMessage(s)
    BY <1>4, GoesOn DEF SelectMessage, s
  <1>5. CASE SendLoopRecheck(s)
    <2>1. /\ \E label \in {"done", "sload"} : pc' = [pc EXCEPT ![s] = label]
          /\ UNCHANGED <<reg, dialed, fields, Messages>> /\ pc[s] = "srecheck"
      BY <1>5 DEF SendLoopRecheck
    <2> QED BY <2>1, GoesOn DEF s
  <1>6. CASE SendLoopLoad(s)
    <2>1. /\ pc[s] = "sload" /\ UNCHANGED <<dialed, fields, Messages>>
          /\ \/ UNCHANGED <<pc, reg>>
             \/ /\ pc' = [pc EXCEPT ![s] = "swrite"]
                /\ \E f \in {ws, writer, decoder, cancelFunc, sendChannel, closeChannel} :
                     reg' = [reg EXCEPT ![s] = f]
      BY <1>6 DEF SendLoopLoad, Use, WriteEnd
    <2>2. CASE UNCHANGED <<pc, reg>>
      BY <2>1, <2>2 DEF Steps, s
    <2>3. CASE pc' = [pc EXCEPT ![s] = "swrite"]
      BY <2>1, <2>3, GoesOn DEF s
    <2> QED BY <2>1, <2>2, <2>3
  <1>7. CASE WriteMessage(s)
    <2>1. /\ pc' = [pc EXCEPT ![s] = "scheck"] /\ pc[s] = "swrite"
          /\ UNCHANGED <<reg, dialed, fields>>
      BY <1>7 DEF WriteMessage
    <2>2. Steps(s)
      BY <1>7, <2>1, GoesTo
    <2> QED BY <1>7, <2>2 DEF s
  <1>8. CASE WriteFails(s) \/ MarshalFails(s)
    BY <1>8, GoesOn DEF WriteFails, MarshalFails, Fails, HandleError, s
  <1>9. CASE RecvLoopCheck(v)
    <2>1. /\ \E label \in {"done", "vload"} : pc' = [pc EXCEPT ![v] = label]
          /\ UNCHANGED <<reg, dialed, fields, Messages>> /\ pc[v] = "vcheck"
      BY <1>9 DEF RecvLoopCheck
    <2> QED BY <2>1, GoesOn DEF v
  <1>10. CASE RecvLoopLoad(v)
    <2>1. /\ pc[v] = "vload" /\ UNCHANGED <<dialed, fields, Messages>>
          /\ \/ UNCHANGED <<pc, reg>>
             \/ /\ pc' = [pc EXCEPT ![v] = "vread"]
                /\ \E f \in {ws, writer, decoder, cancelFunc, sendChannel, closeChannel} :
                     f # 0 /\ reg' = [reg EXCEPT ![v] = f]
      BY <1>10 DEF RecvLoopLoad, Use, ReadEnd
    <2>2. CASE UNCHANGED <<pc, reg>>
      BY <2>1, <2>2 DEF Steps, v
    <2>3. ASSUME pc' = [pc EXCEPT ![v] = "vread"],
                 NEW f \in {ws, writer, decoder, cancelFunc, sendChannel, closeChannel},
                 f # 0, reg' = [reg EXCEPT ![v] = f]
          PROVE  Steps(v)
      BY <2>1, <2>3 DEF Steps
    <2> QED BY <2>1, <2>2, <2>3 DEF v
  <1>11. CASE ReadFails(v) \/ ReadMessage(v)
    BY <1>11, GoesOn DEF ReadFails, ReadMessage, Fails, HandleError, v
  <1> QED BY <1>1, <1>2, <1>3, <1>4, <1>5, <1>6, <1>7, <1>8, <1>9, <1>10, <1>11
          DEF SendLoopStep, SendLoopRuns, RecvLoopStep, s, v

\* A step of the network or the caller's context, or none at all.
Rests == UNCHANGED <<fields, dialed, pc, reg, Messages>>

LEMMA NextSteps ==
  ASSUME DataTypeOK, [Next]_vars
  PROVE  \/ Rests
         \/ \E u \in Users : Dial(u) \/ StartLoops(u)
         \/ \E p \in Procs :
              /\ Steps(p)
              /\ \/ UNCHANGED Messages
                 \/ p \in Users /\ Enqueue(p)
                 \/ \E e \in Conns : /\ p = SendLoop(e)
                                     /\ SelectMessage(p) \/ WriteMessage(p)
  <1>1. ASSUME NEW e \in Conns, Lose(e) \/ CancelRoot(e) PROVE Rests
    BY <1>1 DEF Lose, CancelRoot, Rests, Messages, queues, hist
  <1>2. CASE UNCHANGED vars
    BY <1>2 DEF vars, Rests, Messages, queues, hist, conns
  <1> QED BY <1>1, <1>2, ConnsFacts, UserSteps, ResetSteps, LoopSteps DEF Next

-----------------------------------------------------------------------------
(* Connections are numbered as they are dialed.                            *)

LEMMA NumberInit == Init => NumberInv
  <1> SUFFICES ASSUME Init PROVE NumberInv
    OBVIOUS
  <1>1. \A e \in Conns : pc[SendLoop(e)] = "off"
    BY ConnsFacts DEF Init
  <1>2. \A u \in Users : pc[u] \notin Setting
    BY ConnsFacts DEF Init, Setting
  <1>3. \A p \in Procs : reg[p] \in 0 .. dialed
    BY DEF Init
  <1>4. {ws, writer, decoder, cancelFunc, sendChannel, closeChannel} \subseteq 0 .. dialed
    BY DEF Init
  <1>5. \A p \in Procs : pc[p] # "vread"
    BY DEF Init
  <1> QED BY <1>1, <1>2, <1>3, <1>4, <1>5 DEF NumberInv

LEMMA NumberStep == Inv /\ NumberInv /\ [Next]_vars => NumberInv'
  <1> SUFFICES ASSUME Inv, NumberInv, [Next]_vars PROVE NumberInv'
    OBVIOUS
  <1>0. /\ PcTypeOK /\ DataTypeOK /\ LockInv /\ dialed \in 0 .. MaxConns
        /\ \A r \in Procs : reg[r] \in 0 .. dialed
        /\ {ws, writer, decoder, cancelFunc, sendChannel, closeChannel} \subseteq 0 .. dialed
    BY DEF Inv, TypeOK, DataTypeOK, NumberInv
  <1>1. ASSUME NEW p \in Procs, Steps(p) PROVE NumberInv'
    <2>1. {ws', writer', decoder', cancelFunc', sendChannel', closeChannel'} \subseteq 0 .. dialed'
      BY <1>0, <1>1 DEF Steps
    <2>2. \A r \in Procs : reg'[r] \in 0 .. dialed'
      <3>1. dialed' = dialed
        BY <1>1 DEF Steps
      <3>2. CASE UNCHANGED reg
        BY ONLY <1>0, <3>1, <3>2
      <3>3. CASE \E v \in {ws, writer, decoder, cancelFunc, sendChannel, closeChannel} :
                   reg' = [reg EXCEPT ![p] = v]
        <4>1. PICK v \in 0 .. dialed : reg' = [reg EXCEPT ![p] = v]
          BY ONLY <1>0, <3>3
        <4>2. \A r \in Procs : reg'[r] = reg[r] \/ reg'[r] = v
          BY ONLY <1>0, <4>1 DEF DataTypeOK
        <4> QED BY ONLY <1>0, <3>1, <4>2
      <3> QED BY <1>1, <3>2, <3>3 DEF Steps
    <2>3. \A r \in Procs : pc'[r] # "off" <=> pc[r] # "off"
      BY <1>0, <1>1 DEF Steps, PcTypeOK
    <2>4. \A e \in Conns : SendLoop(e) \in Procs
      BY ConnsFacts
    <2>5. \A e \in Conns : pc'[SendLoop(e)] # "off" => e <= dialed'
      BY <1>1, <2>3, <2>4 DEF Steps, NumberInv
    <2>6. ASSUME NEW u \in Users, pc'[u] \in Setting
          PROVE  reg'[u] # 0 /\ pc'[SendLoop(reg'[u])] = "off"
      <3>1. u \in Procs
        BY ConnsFacts
      <3>2. pc[u] \in Setting /\ reg'[u] = reg[u]
        BY <1>0, <1>1, <2>6, <3>1 DEF Steps, PcTypeOK, DataTypeOK
      <3>3. reg[u] # 0 /\ pc[SendLoop(reg[u])] = "off"
        BY <3>2 DEF NumberInv
      <3>4. reg[u] \in Conns
        BY <1>0, <3>1, <3>3, ConnsFacts DEF DataTypeOK
      <3> QED BY <2>3, <2>4, <3>2, <3>3, <3>4
    <2>7. ASSUME NEW r \in Procs, pc'[r] = "vread" PROVE reg'[r] # 0
      <3>1. CASE UNCHANGED <<pc, reg>>
        BY <2>7, <3>1 DEF NumberInv
      <3>2. CASE pc' # pc \/ reg' # reg
        <4>1. PICK label \in Label \ {"off", "start"} :
                /\ pc' = [pc EXCEPT ![p] = label]
                /\ label = "vread" => \E v : v # 0 /\ reg' = [reg EXCEPT ![p] = v]
          BY <1>1, <3>2 DEF Steps
        <4>2. CASE r = p
          BY <1>0, <2>7, <4>1, <4>2 DEF PcTypeOK, DataTypeOK
        <4>3. CASE r # p
          <5>1. pc'[r] = pc[r] /\ reg'[r] = reg[r]
            BY <1>0, <1>1, <4>1, <4>3 DEF PcTypeOK, DataTypeOK, Steps
          <5> QED BY <2>7, <5>1 DEF NumberInv
        <4> QED BY <4>2, <4>3
      <3> QED BY <3>1, <3>2
    <2> QED BY <2>1, <2>2, <2>5, <2>6, <2>7 DEF NumberInv
  <1>2. ASSUME NEW u \in Users, Dial(u) PROVE NumberInv'
    <2>0. u \in Procs /\ pc[u] \in Connecting /\ pc[u] = "dial"
      BY <1>2, ConnsFacts DEF Dial, At, Connecting
    <2>1. \A v \in Users \ {u} : pc[v] \notin Setting
      BY <1>0, <2>0 DEF LockInv, Connecting, Setting
    <2>2. CASE /\ dialed < MaxConns /\ dialed' = dialed + 1 /\ ws' = dialed + 1
               /\ writer' \in {dialed + 1, writer}
               /\ reg' = [reg EXCEPT ![u] = dialed + 1]
               /\ UNCHANGED <<decoder, cancelFunc, sendChannel, closeChannel>>
               /\ pc' = [pc EXCEPT ![u] = "setdecoder"] \/ pc' = [pc EXCEPT ![u] = "setcancel"]
      <3>1. PICK n \in Nat : n = dialed
        BY <1>0
      <3>2. {ws', writer', decoder', cancelFunc', sendChannel', closeChannel'} \subseteq 0 .. dialed'
        BY <1>0, <2>2, <3>1
      <3>3. \A r \in Procs : reg'[r] \in 0 .. dialed'
        BY <1>0, <2>2, <3>1 DEF DataTypeOK
      <3>4. \A e \in Conns : pc'[SendLoop(e)] = pc[SendLoop(e)]
        BY <1>0, <2>0, <2>2, ConnsFacts DEF PcTypeOK
      <3>5. \A e \in Conns : pc'[SendLoop(e)] # "off" => e <= dialed'
        BY <2>2, <3>1, <3>4 DEF NumberInv, Conns
      <3>6. \A v \in Users \ {u} : pc'[v] \notin Setting
        BY <1>0, <2>0, <2>1, <2>2, ConnsFacts DEF PcTypeOK
      <3>7. reg'[u] = dialed + 1 /\ dialed + 1 # 0 /\ pc'[SendLoop(dialed + 1)] = "off"
        <4>1. n + 1 \in Conns /\ ~(n + 1 <= n) /\ n + 1 # 0
          BY <1>0, <2>2, <3>1, ConnAssumption DEF Conns
        <4>2. pc[SendLoop(n + 1)] = "off"
          BY <3>1, <4>1 DEF NumberInv
        <4> QED BY <1>0, <2>0, <2>2, <3>1, <3>4, <4>1, <4>2 DEF DataTypeOK
      <3>8. \A r \in Procs : pc'[r] = "vread" => reg'[r] # 0
        BY <1>0, <2>0, <2>2 DEF NumberInv, PcTypeOK, DataTypeOK
      <3> QED BY <3>2, <3>3, <3>5, <3>6, <3>7, <3>8 DEF NumberInv
    <2>3. CASE pc' = [pc EXCEPT ![u] = "done"]
               /\ UNCHANGED <<dialed, ws, writer, decoder, cancelFunc, sendChannel, closeChannel, reg>>
      <3>1. pc'[u] = "done" /\ \A r \in Procs \ {u} : pc'[r] = pc[r]
        BY <1>0, <2>0, <2>3 DEF PcTypeOK
      <3>2. \A e \in Conns : pc'[SendLoop(e)] = pc[SendLoop(e)]
        BY <3>1, ConnsFacts
      <3>3. \A v \in Users : pc'[v] \notin Setting
        BY <2>1, <3>1, ConnsFacts DEF Setting
      <3>4. \A r \in Procs : pc'[r] = "vread" => reg'[r] # 0
        BY <2>3, <3>1 DEF NumberInv
      <3> QED BY <2>3, <3>2, <3>3, <3>4 DEF NumberInv
    <2> QED BY <1>2, <2>2, <2>3 DEF Dial, ConnectWs, ConnectH2, Goto, Loads
  <1>3. ASSUME NEW u \in Users, StartLoops(u) PROVE NumberInv'
    <2>0. u \in Procs /\ pc[u] \in Connecting /\ pc[u] \in Setting
      BY <1>3, ConnsFacts DEF StartLoops, At, Connecting, Setting
    <2>1. /\ closeChannel' = reg[u]
          /\ UNCHANGED <<dialed, ws, writer, decoder, cancelFunc, sendChannel, reg>>
          /\ pc' = [pc EXCEPT ![u] = AfterConnect(u), ![SendLoop(reg[u])] = "scheck",
                              ![RecvLoop(reg[u])] = "vcheck"]
      BY <1>3 DEF StartLoops, h2, conns
    <2>2. \A v \in Users \ {u} : pc[v] \notin Setting
      BY <1>0, <2>0 DEF LockInv, Connecting, Setting
    <2>3. \A v \in Users : pc'[v] \notin Setting
      <3>1. ASSUME NEW v \in Users PROVE pc'[v] = IF v = u THEN AfterConnect(u) ELSE pc[v]
        <4>1. reg[u] \in Conns
          BY <1>0, <2>0, ConnsFacts DEF NumberInv, DataTypeOK
        <4>2. v \in Procs /\ v # SendLoop(reg[u]) /\ v # RecvLoop(reg[u])
          BY <4>1, ConnsFacts
        <4> QED BY <1>0, <2>1, <4>2 DEF PcTypeOK
      <3> QED BY <2>2, <3>1 DEF AfterConnect, Setting
    <2>4. \A e \in Conns : pc'[SendLoop(e)] # "off" => e <= dialed'
      <3>1. ASSUME NEW e \in Conns, e # reg[u] PROVE pc'[SendLoop(e)] = pc[SendLoop(e)]
        <4>1. SendLoop(e) \in Procs /\ SendLoop(e) # u /\ SendLoop(e) # SendLoop(reg[u])
              /\ SendLoop(e) # RecvLoop(reg[u])
          BY <3>1, ConnsFacts DEF SendLoop, RecvLoop
        <4> QED BY <1>0, <2>1, <4>1 DEF PcTypeOK
      <3>2. reg[u] <= dialed
        BY <1>0, <2>0
      <3> QED BY <2>1, <3>1, <3>2 DEF NumberInv
    <2>5. \A r \in Procs : pc'[r] = "vread" => pc[r] = "vread"
      BY <1>0, <2>1 DEF PcTypeOK, AfterConnect
    <2> QED BY <1>0, <2>0, <2>1, <2>3, <2>4, <2>5 DEF NumberInv
  <1>4. CASE Rests
    BY <1>4 DEF Rests, fields, h2, NumberInv
  <1> QED BY <1>0, <1>1, <1>2, <1>3, <1>4, NextSteps

LEMMA NumberAlways == Spec => []NumberInv
  BY NumberInit, NumberStep, InvAlways, PTL DEF Spec

-----------------------------------------------------------------------------
(* Each message is in one place.                                           *)

LEMMA AppendMembers ==
  ASSUME NEW S, NEW q \in Seq(S), NEW x \in S
  PROVE  /\ Append(q, x) \in Seq(S) /\ Len(Append(q, x)) = Len(q) + 1
         /\ Members(Append(q, x)) = Members(q) \cup {x}
         /\ Distinct(q) /\ x \notin Members(q) => Distinct(Append(q, x))
  <1> DEFINE a == Append(q, x)
  <1>1. PICK n \in Nat : n = Len(q)
    BY LenProperties
  <1>2. /\ a \in Seq(S) /\ Len(a) = n + 1 /\ a[n + 1] = x
        /\ \A k \in 1 .. n : a[k] = q[k]
    BY <1>1, AppendProperties
  <1> HIDE DEF a
  <1>3. \A k \in 1 .. n + 1 : k = n + 1 \/ k \in 1 .. n
    OBVIOUS
  <1>4. Members(a) = Members(q) \cup {x}
    BY <1>1, <1>2, <1>3 DEF Members
  <1>5. Distinct(q) /\ x \notin Members(q) => Distinct(a)
    <2> SUFFICES ASSUME Distinct(q), x \notin Members(q),
                        NEW i \in 1 .. n + 1, NEW j \in 1 .. n + 1, i # j
                 PROVE  a[i] # a[j]
      BY <1>2 DEF Distinct
    <2>1. \A k \in 1 .. n : q[k] # x
      BY <1>1 DEF Members
    <2> QED BY <1>1, <1>2, <1>3, <2>1 DEF Distinct
  <1> QED BY <1>1, <1>2, <1>4, <1>5 DEF a

LEMMA TailMembers ==
  ASSUME NEW S, NEW q \in Seq(S), q # <<>>, Distinct(q)
  PROVE  /\ Tail(q) \in Seq(S) /\ Len(Tail(q)) = Len(q) - 1 /\ Head(q) \in Members(q)
         /\ Members(Tail(q)) = Members(q) \ {Head(q)} /\ Distinct(Tail(q))
         /\ Head(q) \in S
  <1> DEFINE t == Tail(q)
             h == Head(q)
  <1>1. PICK n \in Nat : n = Len(q)
    BY LenProperties
  <1>2. n # 0
    BY <1>1, EmptySeq
  <1>3. /\ t \in Seq(S) /\ Len(t) = n - 1 /\ h = q[1] /\ h \in S
        /\ \A k \in 1 .. n - 1 : t[k] = q[k + 1]
    BY <1>1, HeadTailProperties
  <1> HIDE DEF t, h
  <1>4. \A k \in 1 .. n - 1 : k + 1 \in 1 .. n /\ k + 1 # 1
    OBVIOUS
  <1>5. \A k \in 1 .. n : k = 1 \/ (k - 1 \in 1 .. n - 1 /\ (k - 1) + 1 = k)
    OBVIOUS
  <1>6. h \in Members(q)
    BY <1>1, <1>2, <1>3 DEF Members
  <1>7. \A k \in 1 .. n - 1 : t[k] \in Members(q) /\ t[k] # h
    <2> SUFFICES ASSUME NEW k \in 1 .. n - 1 PROVE t[k] \in Members(q) /\ t[k] # h
      OBVIOUS
    <2>1. k + 1 \in 1 .. n /\ 1 \in 1 .. n /\ k + 1 # 1
      BY <1>4
    <2> QED BY <1>1, <1>3, <2>1 DEF Members, Distinct
  <1>8. \A k \in 1 .. n : q[k] # h => \E i \in 1 .. n - 1 : t[i] = q[k]
    <2> SUFFICES ASSUME NEW k \in 1 .. n, q[k] # h PROVE \E i \in 1 .. n - 1 : t[i] = q[k]
      OBVIOUS
    <2>1. k - 1 \in 1 .. n - 1 /\ (k - 1) + 1 = k
      BY <1>3, <1>5
    <2> QED BY <1>3, <2>1
  <1>9. Members(t) = Members(q) \ {h}
    <2>1. \A x \in Members(t) : x \in Members(q) /\ x # h
      BY <1>3, <1>7 DEF Members
    <2>2. ASSUME NEW x \in Members(q), x # h PROVE x \in Members(t)
      <3>1. PICK k \in 1 .. n : x = q[k]
        BY <1>1 DEF Members
      <3>2. PICK i \in 1 .. n - 1 : t[i] = q[k]
        BY <1>8, <2>2, <3>1
      <3> QED BY <1>3, <3>1, <3>2 DEF Members
    <2> QED BY <2>1, <2>2
  <1>10. Distinct(t)
    <2> SUFFICES ASSUME NEW i \in 1 .. n - 1, NEW j \in 1 .. n - 1, i # j PROVE t[i] # t[j]
      BY <1>3 DEF Distinct
    <2>1. i + 1 \in 1 .. n /\ j + 1 \in 1 .. n /\ i + 1 # j + 1
      OBVIOUS
    <2> QED BY <1>1, <1>3, <2>1 DEF Distinct
  <1> QED BY <1>1, <1>3, <1>6, <1>9, <1>10 DEF t, h

LEMMA PlaceInit == Init => PlaceInv
  <1> SUFFICES ASSUME Init PROVE PlaceInv
    OBVIOUS
  <1>1. /\ \A e \in Conns : sendQueue[e] = <<>>
        /\ \A p \in SendLoops : hand[p] = <<>>
        /\ written = <<>>
    BY DEF Init, Procs
  <1>2. Written = {}
    BY <1>1 DEF Written
  <1>3. \A e \in Conns : Queued(e) = {} /\ Distinct(sendQueue[e])
    BY <1>1 DEF Queued, Members, Distinct
  <1>4. \A p \in SendLoops : Held(p) = {} /\ Len(hand[p]) = 0
    BY <1>1 DEF Held, Members
  <1>5. Len(written) = 0
    BY <1>1
  <1> QED BY <1>2, <1>3, <1>4, <1>5 DEF PlaceInv

LEMMA PlacesOfUsers ==
  ASSUME DataTypeOK
  PROVE  /\ \A e \in Conns : Queued(e) \subseteq Users
         /\ \A p \in SendLoops : Held(p) \subseteq Users
         /\ Written \subseteq Users
  <1>1. ASSUME NEW e \in Conns PROVE Queued(e) \subseteq Users
    <2>1. sendQueue[e] \in Seq(Users)
      BY DEF DataTypeOK
    <2> QED BY <2>1, ElementOfSeq DEF Queued, Members
  <1>2. ASSUME NEW p \in SendLoops PROVE Held(p) \subseteq Users
    <2>1. hand[p] \in Seq(Users)
      BY DEF DataTypeOK, Procs
    <2> QED BY <2>1, ElementOfSeq DEF Held, Members
  <1>3. Written \subseteq Users
    <2>1. written \in Seq([msg : Users, on : Conns])
      BY DEF DataTypeOK
    <2>2. \A i \in 1 .. Len(written) : written[i] \in [msg : Users, on : Conns]
      BY <2>1, ElementOfSeq
    <2> QED BY <2>2 DEF Written
  <1> QED BY <1>1, <1>2, <1>3

\* Everything is where it was.
LEMMA PlaceKept ==
  ASSUME PlaceInv, DataTypeOK, UNCHANGED <<sendQueue, hand, written>>,
         \A u \in Users : pc[u] = "done" => pc'[u] = "done"
  PROVE  PlaceInv'
  <1>1. /\ \A e \in Conns : Queued(e)' = Queued(e)
        /\ \A p \in SendLoops : Held(p)' = Held(p)
        /\ Written' = Written
    BY DEF Queued, Held, Written
  <1> QED BY <1>1, PlacesOfUsers DEF PlaceInv

\* A user puts its message on a channel, once.
LEMMA PlaceEnqueue ==
  ASSUME PlaceInv, PcTypeOK, DataTypeOK, NEW u \in Users, Enqueue(u)
  PROVE  PlaceInv'
  <1>0. PICK c \in Conns : c = reg[u] /\ u \in Procs
    BY ConnsFacts DEF Enqueue, DataTypeOK
  <1>1. /\ sendQueue' = [sendQueue EXCEPT ![c] = Append(@, u)]
        /\ pc' = [pc EXCEPT ![u] = "done"] /\ pc[u] = "enqueue"
        /\ UNCHANGED <<hand, written>>
    BY <1>0 DEF Enqueue, Goto, At, hist
  <1>2. \A v \in Users : pc[v] = "done" => pc'[v] = "done"
    BY <1>1, ConnsFacts DEF PcTypeOK
  <1>3. sendQueue[c] \in Seq(Users)
    BY <1>0 DEF DataTypeOK
  <1>4. /\ \A e \in Conns : u \notin Queued(e)
        /\ \A p \in SendLoops : u \notin Held(p)
        /\ u \notin Written
    BY <1>1 DEF PlaceInv
  <1>5. sendQueue'[c] = Append(sendQueue[c], u)
    BY <1>0, <1>1 DEF DataTypeOK
  <1>6. Queued(c)' = Queued(c) \cup {u} /\ Distinct(sendQueue'[c])
    <2> DEFINE a == Append(sendQueue[c], u)
    <2>1. u \notin Members(sendQueue[c]) /\ Distinct(sendQueue[c])
      BY <1>0, <1>4 DEF Queued, PlaceInv
    <2>2. Members(a) = Members(sendQueue[c]) \cup {u} /\ Distinct(a)
      BY <1>3, <2>1, AppendMembers
    <2> HIDE DEF a
    <2>3. sendQueue'[c] = a
      BY <1>5 DEF a
    <2> QED BY <2>2, <2>3 DEF Queued
  <1>7. \A e \in Conns \ {c} : Queued(e)' = Queued(e) /\ sendQueue'[e] = sendQueue[e]
    BY <1>0, <1>1 DEF DataTypeOK, Queued
  <1>8. Written' = Written /\ \A p \in SendLoops : Held(p)' = Held(p)
    BY <1>1 DEF Written, Held
  <1>9. pc'[u] = "done"
    BY <1>0, <1>1 DEF PcTypeOK
  <1>10. /\ \A e \in Conns : Queued(e) \subseteq Users
         /\ \A p \in SendLoops : Held(p) \subseteq Users
         /\ Written \subseteq Users
    BY PlacesOfUsers
  <1>11. \A e \in Conns : Distinct(sendQueue'[e])
    BY <1>6, <1>7 DEF PlaceInv
  <1>12. /\ \A e, f \in Conns : e # f => Queued(e)' \cap Queued(f)' = {}
         /\ \A e \in Conns : Queued(e)' \subseteq Queued(e) \cup {u}
    BY <1>0, <1>4, <1>6, <1>7 DEF PlaceInv
  <1>13. /\ \A e \in Conns : Queued(e)' \cap Written' = {}
         /\ \A e \in Conns, p \in SendLoops : Queued(e)' \cap Held(p)' = {}
    BY <1>4, <1>8, <1>12 DEF PlaceInv
  <1>14. /\ \A e \in Conns : \A v \in Queued(e)' : pc'[v] = "done"
         /\ \A p \in SendLoops : \A v \in Held(p)' : pc'[v] = "done"
         /\ \A v \in Written' : pc'[v] = "done"
    BY <1>2, <1>8, <1>9, <1>10, <1>12 DEF PlaceInv
  <1>15. /\ \A p \in SendLoops : Len(hand'[p]) <= 1 /\ Held(p)' \cap Written' = {}
         /\ \A p, q \in SendLoops : p # q => Held(p)' \cap Held(q)' = {}
         /\ \A i, j \in 1 .. Len(written') : i # j => written'[i].msg # written'[j].msg
    BY <1>1, <1>8 DEF PlaceInv
  <1> QED BY <1>11, <1>12, <1>13, <1>14, <1>15 DEF PlaceInv

\* A sendLoop takes the next message into its hand.
LEMMA PlaceSelect ==
  ASSUME PlaceInv, PcTypeOK, DataTypeOK, NEW s \in SendLoops, SelectMessage(s)
  PROVE  PlaceInv'
  <1>0. PICK c \in Conns : c = reg[s] /\ s \in Procs
    BY ConnsFacts DEF SelectMessage, DataTypeOK, Procs
  <1>0a. PICK m : m = Head(sendQueue[c])
    OBVIOUS
  <1>1. /\ sendQueue' = [sendQueue EXCEPT ![c] = Tail(@)] /\ sendQueue[c] # <<>>
        /\ hand' = [hand EXCEPT ![s] = <<m>>]
        /\ pc' = [pc EXCEPT ![s] = "srecheck"] /\ UNCHANGED written
    BY <1>0, <1>0a DEF SelectMessage, Goto, hist
  <1>2. \A v \in Users : pc[v] = "done" => pc'[v] = "done"
    BY <1>1, ConnsFacts, ConnAssumption DEF PcTypeOK
  <1>3. sendQueue[c] \in Seq(Users) /\ Distinct(sendQueue[c])
    BY <1>0 DEF DataTypeOK, PlaceInv
  <1>4. sendQueue'[c] = Tail(sendQueue[c]) /\ hand'[s] = <<m>>
    BY <1>0, <1>1 DEF DataTypeOK
  <1>5. /\ m \in Queued(c) /\ m \in Users
        /\ Queued(c)' = Queued(c) \ {m} /\ Distinct(sendQueue'[c])
    <2> DEFINE q == sendQueue[c]
               t == Tail(q)
    <2>1. /\ m \in Members(q) /\ m \in Users
          /\ Members(t) = Members(q) \ {m} /\ Distinct(t)
      BY <1>0a, <1>1, <1>3, TailMembers
    <2> HIDE DEF t
    <2>2. sendQueue'[c] = t
      BY <1>4 DEF t
    <2> QED BY <2>1, <2>2 DEF Queued
  <1>6. Held(s)' = {m} /\ Len(hand'[s]) = 1
    <2>1. Len(<<m>>) = 1 /\ <<m>>[1] = m
      OBVIOUS
    <2> QED BY <1>4, <2>1 DEF Held, Members
  <1>7. \A e \in Conns \ {c} : Queued(e)' = Queued(e) /\ sendQueue'[e] = sendQueue[e]
    BY <1>0, <1>1 DEF DataTypeOK, Queued
  <1>8. \A p \in SendLoops \ {s} : Held(p)' = Held(p) /\ hand'[p] = hand[p]
    BY <1>0, <1>1 DEF DataTypeOK, Held, Procs
  <1>9. Written' = Written
    BY <1>1 DEF Written
  <1>10. /\ \A e \in Conns : Queued(e) \subseteq Users
         /\ \A p \in SendLoops : Held(p) \subseteq Users
         /\ Written \subseteq Users
    BY PlacesOfUsers
  <1>11. \A e \in Conns : Distinct(sendQueue'[e])
    BY <1>5, <1>7 DEF PlaceInv
  <1>12. \A p \in SendLoops : Len(hand'[p]) <= 1
    <2>1. \A p \in SendLoops \ {s} : Len(hand'[p]) <= 1
      BY <1>8 DEF PlaceInv
    <2>2. Len(hand'[s]) <= 1
      BY <1>6
    <2> QED BY <2>1, <2>2
  <1>13. /\ \A e, f \in Conns : e # f => Queued(e)' \cap Queued(f)' = {}
         /\ \A e \in Conns : Queued(e)' \subseteq Queued(e) /\ m \notin Queued(e)'
    <2>1. \A e \in Conns : Queued(e)' \subseteq Queued(e)
      BY <1>5, <1>7
    <2>2. \A e \in Conns \ {c} : m \notin Queued(e)
      BY <1>0, <1>5 DEF PlaceInv
    <2>3. m \notin Queued(c)'
      BY <1>5
    <2> QED BY <2>1, <2>2, <2>3 DEF PlaceInv
  <1>14. \A p, q \in SendLoops : p # q => Held(p)' \cap Held(q)' = {}
    BY <1>0, <1>5, <1>6, <1>8 DEF PlaceInv
  <1>15. \A e \in Conns, p \in SendLoops : Queued(e)' \cap Held(p)' = {}
    BY <1>6, <1>8, <1>13 DEF PlaceInv
  <1>16. /\ \A e \in Conns : Queued(e)' \cap Written' = {}
         /\ \A p \in SendLoops : Held(p)' \cap Written' = {}
    BY <1>0, <1>5, <1>6, <1>8, <1>9, <1>13 DEF PlaceInv
  <1>17. /\ \A e \in Conns : \A u \in Queued(e)' : pc'[u] = "done"
         /\ \A p \in SendLoops : \A u \in Held(p)' : pc'[u] = "done"
         /\ \A u \in Written' : pc'[u] = "done"
    BY <1>0, <1>2, <1>5, <1>6, <1>8, <1>9, <1>10, <1>13 DEF PlaceInv
  <1> QED BY <1>1, <1>11, <1>12, <1>13, <1>14, <1>15, <1>16, <1>17 DEF PlaceInv

\* It writes the message it has in its hand.
LEMMA PlaceWrite ==
  ASSUME PlaceInv, PcTypeOK, DataTypeOK, HandInv, NEW s \in SendLoops, WriteMessage(s)
  PROVE  PlaceInv'
  <1> DEFINE m == Head(hand[s])
             r == [msg |-> m, on |-> reg[s]]
  <1>0. s \in Procs /\ hand[s] # <<>> /\ hand[s] \in Seq(Users) /\ reg[s] \in Conns
    BY ConnsFacts DEF WriteMessage, At, HandInv, DataTypeOK, Procs
  <1>1. /\ written' = Append(written, r) /\ hand' = [hand EXCEPT ![s] = <<>>]
        /\ pc' = [pc EXCEPT ![s] = "scheck"] /\ UNCHANGED sendQueue
    BY DEF WriteMessage, Goto, queues
  <1>2. \A v \in Users : pc[v] = "done" => pc'[v] = "done"
    BY <1>1, ConnsFacts, ConnAssumption DEF PcTypeOK
  <1>3. m \in Held(s) /\ m \in Users
    <2>1. Len(hand[s]) \in Nat \ {0} /\ m = hand[s][1] /\ m \in Users
      BY <1>0, HeadTailProperties, LenProperties, EmptySeq
    <2> QED BY <2>1 DEF Held, Members
  <1>4. Held(s)' = {} /\ Len(hand'[s]) = 0
    BY <1>0, <1>1 DEF Held, Members, DataTypeOK
  <1> HIDE DEF m
  <1>5. r \in [msg : Users, on : Conns] /\ r.msg = m
    BY <1>0, <1>3
  <1>6. PICK n \in Nat : n = Len(written)
    BY LenProperties DEF DataTypeOK
  <1>7. /\ Len(written') = n + 1 /\ written'[n + 1] = r
        /\ \A i \in 1 .. n : written'[i] = written[i]
    BY <1>1, <1>5, <1>6, AppendProperties DEF DataTypeOK
  <1> HIDE DEF r
  <1>8. Written' = Written \cup {m}
    <2>1. \A i \in 1 .. n + 1 : i = n + 1 \/ i \in 1 .. n
      OBVIOUS
    <2>2. \A x \in Written' : x \in Written \/ x = m
      BY <1>5, <1>6, <1>7, <2>1 DEF Written
    <2>3. \A i \in 1 .. n : i \in 1 .. n + 1
      OBVIOUS
    <2>4. \A x \in Written : x \in Written'
      BY <1>6, <1>7, <2>3 DEF Written
    <2>5. m \in Written'
      BY <1>5, <1>7 DEF Written
    <2> QED BY <2>2, <2>4, <2>5
  <1>9. m \notin Written /\ \A e \in Conns : m \notin Queued(e)
    BY <1>3 DEF PlaceInv
  <1>10. \A i, j \in 1 .. Len(written') : i # j => written'[i].msg # written'[j].msg
    <2> SUFFICES ASSUME NEW i \in 1 .. n + 1, NEW j \in 1 .. n + 1, i # j
                 PROVE  written'[i].msg # written'[j].msg
      BY <1>7
    <2>1. \A k \in 1 .. n : written[k].msg # m
      BY <1>6, <1>9 DEF Written
    <2>2. (i = n + 1 \/ i \in 1 .. n) /\ (j = n + 1 \/ j \in 1 .. n)
      OBVIOUS
    <2>3. CASE i \in 1 .. n /\ j \in 1 .. n
      BY <1>6, <1>7, <2>3 DEF PlaceInv
    <2> QED BY <1>5, <1>7, <2>1, <2>2, <2>3
  <1>11. \A p \in SendLoops \ {s} : Held(p)' = Held(p) /\ hand'[p] = hand[p]
    BY <1>0, <1>1 DEF DataTypeOK, Held, Procs
  <1>12. \A e \in Conns : Queued(e)' = Queued(e)
    BY <1>1 DEF Queued
  <1>13. /\ \A e \in Conns : Queued(e) \subseteq Users
         /\ \A p \in SendLoops : Held(p) \subseteq Users
         /\ Written \subseteq Users
    BY PlacesOfUsers
  <1>14. \A p \in SendLoops : Len(hand'[p]) <= 1
    BY <1>4, <1>11 DEF PlaceInv
  <1>15. /\ \A p, q \in SendLoops : p # q => Held(p)' \cap Held(q)' = {}
         /\ \A e \in Conns, p \in SendLoops : Queued(e)' \cap Held(p)' = {}
    BY <1>4, <1>11, <1>12 DEF PlaceInv
  <1>16. /\ \A e \in Conns : Queued(e)' \cap Written' = {}
         /\ \A p \in SendLoops : Held(p)' \cap Written' = {}
    BY <1>3, <1>4, <1>8, <1>9, <1>11, <1>12 DEF PlaceInv
  <1>17. /\ \A e \in Conns : \A u \in Queued(e)' : pc'[u] = "done"
         /\ \A p \in SendLoops : \A u \in Held(p)' : pc'[u] = "done"
         /\ \A u \in Written' : pc'[u] = "done"
    BY <1>2, <1>3, <1>4, <1>8, <1>11, <1>12, <1>13 DEF PlaceInv
  <1>18. \A e, f \in Conns : e # f => Queued(e)' \cap Queued(f)' = {}
    BY <1>12 DEF PlaceInv
  <1> QED BY <1>1, <1>10, <1>14, <1>15, <1>16, <1>17, <1>18 DEF PlaceInv

LEMMA PlaceStep == Inv /\ NumberInv /\ PlaceInv /\ [Next]_vars => PlaceInv'
  <1> SUFFICES ASSUME Inv, NumberInv, PlaceInv, [Next]_vars PROVE PlaceInv'
    OBVIOUS
  <1>0. PcTypeOK /\ DataTypeOK /\ HandInv
    BY DEF Inv, TypeOK
  <1>1. ASSUME NEW p \in Procs, Steps(p), UNCHANGED Messages PROVE PlaceInv'
    <2>1. \A u \in Users : pc[u] = "done" => pc'[u] = "done"
      BY <1>0, <1>1, ConnsFacts DEF Steps, PcTypeOK
    <2> QED BY <1>0, <1>1, <2>1, PlaceKept DEF Messages
  <1>2. ASSUME NEW u \in Users, Dial(u) PROVE PlaceInv'
    <2>1. pc[u] = "dial" /\ \E label \in {"setdecoder", "setcancel", "done"} :
                              pc' = [pc EXCEPT ![u] = label]
      BY <1>2 DEF Dial, ConnectWs, ConnectH2, Goto, At
    <2>2. UNCHANGED <<sendQueue, hand, written>>
      BY <1>2 DEF Dial, queues, hist
    <2>3. \A v \in Users : pc[v] = "done" => pc'[v] = "done"
      BY <1>0, <2>1, ConnsFacts DEF PcTypeOK
    <2> QED BY <1>0, <2>2, <2>3, PlaceKept
  <1>3. ASSUME NEW u \in Users, StartLoops(u) PROVE PlaceInv'
    <2>1. /\ pc[u] = "setclose" /\ UNCHANGED <<sendQueue, hand, written>>
          /\ pc' = [pc EXCEPT ![u] = AfterConnect(u), ![SendLoop(reg[u])] = "scheck",
                              ![RecvLoop(reg[u])] = "vcheck"]
      BY <1>3 DEF StartLoops, At, queues, hist
    <2>2. reg[u] \in Conns
      BY <1>0, <1>3, <2>1, ConnsFacts DEF NumberInv, Setting, DataTypeOK
    <2>3. \A v \in Users : v \in Procs /\ v # SendLoop(reg[u]) /\ v # RecvLoop(reg[u])
      BY <2>2, ConnsFacts
    <2>4. \A v \in Users : pc[v] = "done" => pc'[v] = "done"
      BY <1>0, <2>1, <2>3 DEF PcTypeOK
    <2> QED BY <1>0, <2>1, <2>4, PlaceKept
  <1>4. CASE Rests
    BY <1>0, <1>4, PlaceKept DEF Rests, Messages
  <1>5. \A e \in Conns : SendLoop(e) \in SendLoops
    BY DEF SendLoops
  <1> QED BY <1>0, <1>1, <1>2, <1>3, <1>4, <1>5, NextSteps,
             PlaceEnqueue, PlaceSelect, PlaceWrite

LEMMA PlaceAlways == Spec => []PlaceInv
  BY PlaceInit, PlaceStep, InvAlways, NumberAlways, PTL DEF Spec

\* sendLoop: with any number of connections and their loops, whatever is lost
\* and whoever closes, no message is written twice, nor one that is still
\* queued or in a loop's hand.
THEOREM MessagesWrittenOnce == Spec => []WrittenOnce
  <1>1. Inv /\ PlaceInv => WrittenOnce
    <2> SUFFICES ASSUME Inv, PlaceInv PROVE WrittenOnce
      OBVIOUS
    <2>1. \A i \in 1 .. Len(written) : written[i].msg \in Written
      BY DEF Written
    <2>2. ASSUME NEW i \in 1 .. Len(written), NEW e \in Conns, NEW k \in 1 .. Len(sendQueue[e])
          PROVE  sendQueue[e][k] # written[i].msg
      <3>1. sendQueue[e][k] \in Queued(e)
        BY DEF Queued, Members
      <3> QED BY <2>1, <3>1 DEF PlaceInv
    <2>3. ASSUME NEW i \in 1 .. Len(written), NEW p \in SendLoops
          PROVE  hand[p] # <<written[i].msg>>
      <3>1. PICK m : m = written[i].msg
        OBVIOUS
      <3>2. hand[p] = <<m>> => m \in Held(p)
        <4>1. Len(<<m>>) = 1 /\ <<m>>[1] = m
          OBVIOUS
        <4> QED BY <4>1 DEF Held, Members
      <3> QED BY <2>1, <3>1, <3>2 DEF PlaceInv
    <2> QED BY <2>2, <2>3 DEF WrittenOnce, PlaceInv
  <1> QED BY <1>1, InvAlways, PlaceAlways, PTL

-----------------------------------------------------------------------------
(* What closes a connection.                                               *)

\* Nothing that was lost, canceled or closed on purpose is taken back.
Grows ==
  /\ dialed <= dialed' /\ lost \subseteq lost' /\ rootCanceled \subseteq rootCanceled'
  /\ \A u \in Users : pc'[u] = "start" => pc[u] = "start"

\* A step of p that has nothing to do with the end of a connection.
Quiet(p) ==
  /\ UNCHANGED <<dialed, link, lost, canceled, rootCanceled>>
  /\ UNCHANGED pc \/ \E label \in Label \ (Resetting \cup {"start"}) :
                       pc' = [pc EXCEPT ![p] = label]

LEMMA CalmInit == Init => CalmInv
  BY DEF Init, CalmInv, Calm, Resetting

\* A calm state with calm before it stays calm.
LEMMA CalmKept ==
  ASSUME dialed \in Nat, dialed' \in Nat, CalmInv, Grows,
         \A e \in Conns : link'[e] # "none" => e <= dialed',
         Calm /\ Calm' => /\ \A p \in Procs : pc'[p] \notin Resetting
                          /\ canceled' = {} /\ \A e \in Conns : link'[e] # "closed"
  PROVE  CalmInv'
  <1>1. ASSUME Calm' PROVE Calm
    BY <1>1 DEF Calm, Grows
  <1> QED BY <1>1 DEF CalmInv

LEMMA CalmQuiet ==
  ASSUME PcTypeOK, DataTypeOK, CalmInv, NEW p \in Procs, Quiet(p)
  PROVE  CalmInv'
  <1>1. dialed \in Nat /\ dialed' \in Nat
    BY ConnAssumption DEF DataTypeOK, Quiet
  <1>2. Grows
    BY <1>1, ConnsFacts DEF Grows, Quiet, PcTypeOK
  <1>3. \A e \in Conns : link'[e] # "none" => e <= dialed'
    BY DEF Quiet, CalmInv
  <1>4. ASSUME Calm PROVE /\ \A r \in Procs : pc'[r] \notin Resetting
                          /\ canceled' = {} /\ \A e \in Conns : link'[e] # "closed"
    BY <1>4 DEF CalmInv, Quiet, PcTypeOK
  <1> QED BY <1>1, <1>2, <1>3, <1>4, CalmKept

LEMMA UserQuiet ==
  ASSUME NEW u \in Users, User(u), ~Dial(u), ~StartLoops(u)
  PROVE  Quiet(u)
  <1> USE DEF At, Goto, Quiet, conns, Label, Resetting
  <1>1. CASE Lock(u)
    BY <1>1 DEF Lock
  <1>2. CASE CheckConnected(u)
    <2>1. /\ \E label \in {"dial", "waitcheck", "evalsend"} : pc' = [pc EXCEPT ![u] = label]
          /\ UNCHANGED conns
      BY <1>2 DEF CheckConnected, AfterConnect
    <2> QED BY <2>1
  <1>3. CASE SetDecoder(u)
    BY <1>3 DEF SetDecoder
  <1>4. CASE SetCancelFunc(u)
    BY <1>4 DEF SetCancelFunc
  <1>5. CASE SetSendChannel(u)
    BY <1>5 DEF SetSendChannel
  <1>6. CASE EvalSendChannel(u)
    BY <1>6 DEF EvalSendChannel
  <1>7. CASE Enqueue(u)
    BY <1>7 DEF Enqueue
  <1>8. CASE WaitCheck(u)
    BY <1>8 DEF WaitCheck
  <1>9. CASE WaitLoad(u)
    BY <1>9 DEF WaitLoad
  <1>10. CASE WaitReceive(u)
    BY <1>10 DEF WaitReceive
  <1> QED BY <1>1, <1>2, <1>3, <1>4, <1>5, <1>6, <1>7, <1>8, <1>9, <1>10 DEF User

\* How the loops come to close the connection.
GivesUp(e) == \/ SelectDone(e) \/ WriteFails(SendLoop(e)) \/ MarshalFails(SendLoop(e))
              \/ ReadFails(RecvLoop(e))

LEMMA LoopQuiet ==
  ASSUME NEW e \in Conns, SendLoopStep(e) \/ RecvLoopStep(e) \/ ReadMessage(RecvLoop(e))
  PROVE  Quiet(SendLoop(e)) \/ Quiet(RecvLoop(e)) \/ GivesUp(e)
  <1> DEFINE s == SendLoop(e)
             v == RecvLoop(e)
  <1> HIDE DEF s, v
  <1> USE DEF At, Goto, Quiet, conns, Label, Resetting
  <1>1. CASE SendLoopCheck(s)
    BY <1>1 DEF SendLoopCheck, s
  <1>2. CASE Select(s)
    BY <1>2 DEF Select, s
  <1>3. CASE SelectMessage(s)
    BY <1>3 DEF SelectMessage, s
  <1>4. CASE SendLoopRecheck(s)
    BY <1>4 DEF SendLoopRecheck, s
  <1>5. CASE SendLoopLoad(s)
    BY <1>5 DEF SendLoopLoad, Use, s
  <1>6. CASE WriteMessage(s)
    BY <1>6 DEF WriteMessage, s
  <1>7. CASE RecvLoopCheck(v)
    BY <1>7 DEF RecvLoopCheck, v
  <1>8. CASE RecvLoopLoad(v)
    BY <1>8 DEF RecvLoopLoad, Use, v
  <1>9. CASE ReadMessage(v)
    BY <1>9 DEF ReadMessage, v
  <1> QED BY <1>1, <1>2, <1>3, <1>4, <1>5, <1>6, <1>7, <1>8, <1>9
          DEF SendLoopStep, SendLoopRuns, RecvLoopStep, GivesUp, s, v

\* Reset ends no connection but the one the field ws holds.
LEMMA ResetLinks ==
  ASSUME NEW p \in Procs, Reset(p)
  PROVE  /\ UNCHANGED <<dialed, lost, rootCanceled>>
         /\ \/ UNCHANGED link
            \/ \E e \in {ws, reg[p]} : e # 0 /\ link' = [link EXCEPT ![e] = "closed"]
         /\ \/ pc[p] \in Resetting /\ UNCHANGED pc
            \/ \E label \in Label \ {"start"} : pc' = [pc EXCEPT ![p] = label]
         /\ \/ pc[p] \in Resetting
            \/ p \in Users /\ UserOp[p] = "any" /\ pc[p] = "start"
  <1> USE DEF At, Goto, conns, Label, Resetting
  <1>1. CASE Close(p)
    <2>1. /\ \E label \in {"done", "cancel"} : pc' = [pc EXCEPT ![p] = label]
          /\ UNCHANGED conns
      BY <1>1 DEF Close
    <2>2. pc[p] = "closecheck" \/ (p \in Users /\ UserOp[p] = "any" /\ pc[p] = "start")
      BY <1>1 DEF Close
    <2> QED BY <2>1, <2>2
  <1>2. CASE CallCancelFunc(p)
    BY <1>2 DEF CallCancelFunc
  <1>3. CASE ClearCancelFunc(p)
    BY <1>3 DEF ClearCancelFunc
  <1>4. CASE CheckCloseChannel(p)
    BY <1>4 DEF CheckCloseChannel
  <1>5. CASE LoadCloseChannel(p)
    BY <1>5 DEF LoadCloseChannel
  <1>6. CASE SendClose(p)
    BY <1>6 DEF SendClose
  <1>7. CASE ClearCloseChannel(p)
    BY <1>7 DEF ClearCloseChannel
  <1>8. CASE CloseWs(p)
    BY <1>8 DEF CloseWs, MayUse
  <1>9. CASE ClearWs(p)
    BY <1>9 DEF ClearWs
  <1>10. CASE ClearWriter(p)
    BY <1>10 DEF ClearWriter
  <1>11. CASE ClearSendChannel(p)
    BY <1>11 DEF ClearSendChannel
  <1>12. CASE CallCloseHandler(p)
    BY <1>12 DEF CallCloseHandler
  <1>13. CASE ClearCloseHandler(p)
    BY <1>13 DEF ClearCloseHandler
  <1>14. CASE CheckCancelFunc(p)
    BY <1>14 DEF CheckCancelFunc
  <1>15. CASE CheckWs(p)
    BY <1>15 DEF CheckWs
  <1> QED BY <1>1, <1>2, <1>3, <1>4, <1>5, <1>6, <1>7, <1>8, <1>9, <1>10, <1>11, <1>12,
             <1>13, <1>14, <1>15
          DEF Reset

\* In a calm state nobody is closing, and only a Close can begin to.
LEMMA CalmReset ==
  ASSUME PcTypeOK, DataTypeOK, NumberInv, CalmInv, NEW p \in Procs, Reset(p)
  PROVE  CalmInv'
  <1>1. dialed \in Nat /\ dialed' \in Nat /\ dialed' = dialed
    BY ConnAssumption, ResetLinks DEF DataTypeOK
  <1>2. Grows
    BY <1>1, ConnsFacts, ResetLinks DEF Grows, PcTypeOK
  <1>3. ASSUME NEW e \in Conns, link'[e] # "none" PROVE e <= dialed'
    <2>1. CASE link'[e] = link[e]
      BY <1>1, <1>3, <2>1 DEF CalmInv
    <2>2. CASE e \in {ws, reg[p]}
      BY <1>1, <2>2 DEF NumberInv
    <2> QED BY <2>1, <2>2, ResetLinks DEF DataTypeOK
  <1>4. ASSUME Calm, Calm' PROVE FALSE
    <2>1. pc[p] \notin Resetting
      BY <1>4 DEF CalmInv
    <2>2. p \in Users /\ UserOp[p] = "any"
      BY <2>1, ResetLinks
    <2>3. pc'[p] # "start"
      BY <2>1, ResetLinks DEF PcTypeOK
    <2> QED BY <1>4, <2>2, <2>3 DEF Calm
  <1> QED BY <1>1, <1>2, <1>3, <1>4, CalmKept

\* The only connection of a calm state is whole.
LEMMA CalmWhole ==
  ASSUME DataTypeOK, NumberInv, CalmInv, Calm, NEW p \in Procs, reg[p] # 0
  PROVE  ~Broken(reg[p])
  <1>1. dialed \in 0 .. MaxConns /\ dialed <= 1 /\ reg[p] \in 0 .. dialed
    BY DEF DataTypeOK, NumberInv, Calm
  <1>2. reg[p] = 1
    BY <1>1, ConnAssumption
  <1> QED BY <1>2, ConnsFacts DEF Broken, Calm, CalmInv

\* In a calm state no loop has a reason to give up.
LEMMA CalmGivesUp ==
  ASSUME PcTypeOK, DataTypeOK, HandInv, NumberInv, PlaceInv, CalmInv,
         NEW e \in Conns, GivesUp(e)
  PROVE  CalmInv'
  <1>0. SendLoop(e) \in Procs /\ RecvLoop(e) \in Procs /\ SendLoop(e) \in SendLoops
    BY ConnsFacts DEF SendLoops
  <1>1. /\ UNCHANGED <<dialed, link, lost, rootCanceled>>
        /\ \E p \in Procs, label \in {"closecheck", "cancel"} : pc' = [pc EXCEPT ![p] = label]
    BY <1>0 DEF GivesUp, SelectDone, WriteFails, MarshalFails, ReadFails, Fails, HandleError,
                conns, Goto
  <1>2. dialed \in Nat /\ dialed' \in Nat
    BY <1>1, ConnAssumption DEF DataTypeOK
  <1>3. Grows
    BY <1>1, <1>2, ConnsFacts DEF Grows, PcTypeOK
  <1>4. \A c \in Conns : link'[c] # "none" => c <= dialed'
    BY <1>1 DEF CalmInv
  <1>5. ASSUME Calm PROVE FALSE
    <2>1. CASE SelectDone(e)
      BY <1>5, <2>1 DEF SelectDone, CalmInv
    <2>2. CASE WriteFails(SendLoop(e))
      <3>1. reg[SendLoop(e)] # 0 /\ Broken(reg[SendLoop(e)])
        BY <1>0, <2>2 DEF WriteFails, Fails, At, HandInv
      <3> QED BY <1>0, <1>5, <3>1, CalmWhole
    <2>3. CASE ReadFails(RecvLoop(e))
      <3>1. reg[RecvLoop(e)] # 0 /\ Broken(reg[RecvLoop(e)])
        BY <1>0, <2>3 DEF ReadFails, Fails, At, NumberInv
      <3> QED BY <1>0, <1>5, <3>1, CalmWhole
    <2>4. CASE MarshalFails(SendLoop(e))
      <3>1. PICK h \in Seq(Users) : h = hand[SendLoop(e)]
        BY <1>0 DEF DataTypeOK
      <3>2. h # <<>> /\ UserOp[Head(h)] = "any"
        BY <2>4, <3>1 DEF MarshalFails, MayBeOpaque
      <3>3. Head(h) \in Users /\ Head(h) = h[1] /\ Len(h) \in Nat \ {0}
        BY <3>2, HeadTailProperties, LenProperties, EmptySeq
      <3>4. Head(h) \in Held(SendLoop(e))
        BY <3>1, <3>3 DEF Held, Members
      <3>5. pc[Head(h)] = "done"
        BY <1>0, <3>4 DEF PlaceInv
      <3> QED BY <1>5, <3>2, <3>3, <3>5 DEF Calm
    <2> QED BY <2>1, <2>2, <2>3, <2>4 DEF GivesUp
  <1> QED BY <1>2, <1>3, <1>4, <1>5, CalmKept

LEMMA CalmDial ==
  ASSUME PcTypeOK, DataTypeOK, CalmInv, NEW u \in Users, Dial(u)
  PROVE  CalmInv'
  <1>0. u \in Procs /\ dialed \in Nat
    BY ConnsFacts, ConnAssumption DEF DataTypeOK
  <1>1. /\ \E label \in {"setdecoder", "setcancel", "done"} : pc' = [pc EXCEPT ![u] = label]
        /\ UNCHANGED <<lost, rootCanceled, canceled>>
        /\ \/ dialed' = dialed + 1 /\ link' = [link EXCEPT ![dialed + 1] = "open"]
           \/ UNCHANGED <<dialed, link>>
    BY DEF Dial, ConnectWs, ConnectH2, Goto
  <1>2. dialed' \in Nat /\ dialed <= dialed'
    BY <1>0, <1>1
  <1>3. Grows
    BY <1>0, <1>1, <1>2, ConnsFacts DEF Grows, PcTypeOK
  <1>4. ASSUME NEW e \in Conns PROVE link'[e] # "none" => e <= dialed'
    <2>1. e = dialed + 1 \/ link'[e] = link[e]
      BY <1>1 DEF DataTypeOK
    <2>2. e \in Nat
      BY DEF Conns
    <2> QED BY <1>0, <1>1, <1>2, <2>1, <2>2 DEF CalmInv
  <1>5. ASSUME Calm PROVE /\ \A r \in Procs : pc'[r] \notin Resetting
                          /\ canceled' = {} /\ \A e \in Conns : link'[e] # "closed"
    <2>1. \A r \in Procs : pc'[r] \notin Resetting
      BY <1>1, <1>5 DEF CalmInv, PcTypeOK, Resetting
    <2>2. \A e \in Conns : link'[e] # "closed"
      BY <1>1, <1>5 DEF CalmInv, DataTypeOK
    <2> QED BY <1>1, <1>5, <2>1, <2>2 DEF CalmInv
  <1> QED BY <1>0, <1>2, <1>3, <1>4, <1>5, CalmKept

LEMMA CalmStarts ==
  ASSUME PcTypeOK, DataTypeOK, NumberInv, CalmInv, NEW u \in Users, StartLoops(u)
  PROVE  CalmInv'
  <1>0. u \in Procs /\ dialed \in Nat
    BY ConnsFacts, ConnAssumption DEF DataTypeOK
  <1>1. UNCHANGED <<lost, rootCanceled, canceled, dialed, link>>
    BY DEF StartLoops, conns
  <1>2. \A r \in Procs : pc'[r] \in {pc[r], "waitcheck", "evalsend", "scheck", "vcheck"}
    BY DEF StartLoops, PcTypeOK, AfterConnect
  <1>3. Grows
    <2>1. \A v \in Users : pc'[v] = "start" => pc[v] = "start"
      BY <1>2, ConnsFacts
    <2> QED BY <1>0, <1>1, <2>1 DEF Grows
  <1>4. \A e \in Conns : link'[e] # "none" => e <= dialed'
    BY <1>1 DEF CalmInv
  <1>5. ASSUME Calm PROVE /\ \A r \in Procs : pc'[r] \notin Resetting
                          /\ canceled' = {} /\ \A e \in Conns : link'[e] # "closed"
    BY <1>1, <1>2, <1>5 DEF CalmInv, Resetting
  <1> QED BY <1>0, <1>1, <1>3, <1>4, <1>5, CalmKept

\* What the network or the caller's context does ends the calm.
LEMMA CalmEnds ==
  ASSUME DataTypeOK, CalmInv, NEW e \in Conns, Lose(e) \/ CancelRoot(e)
  PROVE  CalmInv'
  <1>0. dialed \in Nat /\ e \in Nat /\ e # 0
    BY ConnAssumption DEF DataTypeOK, Conns
  <1>1. /\ link[e] = "open" /\ dialed' = dialed /\ link' = link /\ pc' = pc
        /\ lost \subseteq lost' /\ rootCanceled \subseteq rootCanceled'
        /\ e \in lost' \cup rootCanceled'
    BY DEF Lose, CancelRoot
  <1>2. Grows
    <2>1. dialed <= dialed'
      BY <1>0, <1>1
    <2> QED BY <1>1, <2>1 DEF Grows
  <1>3. \A c \in Conns : link'[c] # "none" => c <= dialed'
    BY <1>1 DEF CalmInv
  <1>4. ASSUME Calm, Calm' PROVE FALSE
    <2>1. e <= dialed /\ dialed <= 1
      BY <1>1, <1>4 DEF CalmInv, Calm
    <2>2. e = 1
      BY <1>0, <2>1
    <2> QED BY <1>1, <1>4, <2>2 DEF Calm
  <1> QED BY <1>0, <1>1, <1>2, <1>3, <1>4, CalmKept

LEMMA CalmStep == Inv /\ NumberInv /\ PlaceInv /\ CalmInv /\ [Next]_vars => CalmInv'
  <1> SUFFICES ASSUME Inv, NumberInv, PlaceInv, CalmInv, [Next]_vars PROVE CalmInv'
    OBVIOUS
  <1>0. PcTypeOK /\ DataTypeOK /\ HandInv
    BY DEF Inv, TypeOK
  <1>1. ASSUME NEW u \in Users, User(u) PROVE CalmInv'
    <2>1. u \in Procs
      BY ConnsFacts
    <2> QED BY <1>0, <1>1, <2>1, UserQuiet, CalmQuiet, CalmDial, CalmStarts
  <1>2. ASSUME NEW p \in Procs, Reset(p) PROVE CalmInv'
    BY <1>0, <1>2, CalmReset
  <1>3. ASSUME NEW e \in Conns, SendLoopStep(e) \/ RecvLoopStep(e) \/ ReadMessage(RecvLoop(e))
        PROVE  CalmInv'
    <2>1. SendLoop(e) \in Procs /\ RecvLoop(e) \in Procs
      BY ConnsFacts
    <2> QED BY <1>0, <1>3, <2>1, LoopQuiet, CalmQuiet, CalmGivesUp
  <1>4. ASSUME NEW e \in Conns, Lose(e) \/ CancelRoot(e) PROVE CalmInv'
    BY <1>0, <1>4, CalmEnds
  <1>5. CASE UNCHANGED vars
    BY <1>5 DEF vars, conns, CalmInv, Calm
  <1> QED BY <1>1, <1>2, <1>3, <1>4, <1>5 DEF Next

LEMMA CalmAlways == Spec => []CalmInv
  BY CalmInit, CalmStep, InvAlways, NumberAlways, PlaceAlways, PTL DEF Spec

\* Reset, handleError and the loops: a client's connection is closed only if it
\* broke, its context was canceled, a user closed it or sent what cannot be
\* marshaled, or a second connection was dialed.
THEOREM ClosedDeliberately == Spec => []DeliberateClose
  <1>1. Inv /\ CalmInv => DeliberateClose
    <2> SUFFICES ASSUME Inv, CalmInv, NEW e \in Conns, link[e] = "closed",
                        e \notin lost \cup rootCanceled,
                        \A u \in Users : ~(UserOp[u] = "any" /\ pc[u] # "start"),
                        ~(dialed > 1)
                 PROVE  FALSE
      BY DEF DeliberateClose
    <2>1. dialed \in 0 .. MaxConns /\ e <= dialed /\ e \in Nat \ {0}
      BY DEF Inv, TypeOK, DataTypeOK, CalmInv, Conns
    <2>2. dialed <= 1 /\ e = 1
      BY <2>1, ConnAssumption
    <2>3. Calm
      BY <2>2 DEF Calm
    <2> QED BY <2>3 DEF CalmInv
  <1> QED BY <1>1, InvAlways, CalmAlways, PTL

-----------------------------------------------------------------------------
(* A sendLoop that writes on the next connection.                          *)

\* What Reset does once it has canceled.
Past == Resetting \ {"closecheck", "cancel", "callcancel"}

\* No user called Close or sent what json may refuse, and no third connection was dialed.
Plain == /\ dialed <= 2
         /\ \A u \in Users : UserOp[u] = "any" => pc[u] = "start"

Together == \A e \in Conns : pc[SendLoop(e)] = "off" <=> pc[RecvLoop(e)] = "off"

\* Until the first connection's context is canceled its fields are in place, for
\* whoever resets comes to cancel it first ...
FirstUp == dialed = 1 /\ 1 \notin canceled =>
  /\ ws # 0
  /\ pc[SendLoop(1)] # "off" => cancelFunc # 0
  /\ \A u \in Users : pc[u] \in {"setsend", "setclose"} => cancelFunc # 0
  /\ \A p \in Procs : pc[p] \notin Past /\ (pc[p] = "callcancel" => reg[p] # 0)

\* ... and so it is canceled when there is a second, to which alone the second
\* sendLoop writes.
SecondUp == dialed = 2 =>
  /\ 1 \in canceled /\ WriteEnd # 1
  /\ pc[SendLoop(2)] = "swrite" => reg[SendLoop(2)] # 1

StrayInv ==
  /\ Together
  /\ Plain => (\A u \in Users : pc[u] \notin Resetting) /\ FirstUp /\ SecondUp

LEMMA StrayInit == Init => StrayInv
  <1> SUFFICES ASSUME Init PROVE StrayInv
    OBVIOUS
  <1>1. Together
    BY ConnsFacts DEF Init, Together
  <1>2. \A u \in Users : pc[u] \notin Resetting
    BY ConnsFacts DEF Init, Resetting
  <1>3. dialed = 0
    BY DEF Init
  <1> QED BY <1>1, <1>2, <1>3 DEF StrayInv, FirstUp, SecondUp

\* A step of p that neither dials nor starts loops nor resets.
Proceeds(p) ==
  /\ UNCHANGED <<dialed, transport, ws, writer>> /\ canceled \subseteq canceled'
  /\ \A q \in Procs \ {p} : pc'[q] = pc[q] /\ reg'[q] = reg[q]
  /\ \/ pc'[p] = pc[p] /\ reg'[p] = reg[p] /\ UNCHANGED cancelFunc
     \/ /\ pc[p] # "off" /\ pc'[p] \notin Past \cup {"off", "start", "callcancel"}
        /\ p \in Users => pc'[p] \notin Resetting
        /\ \/ UNCHANGED cancelFunc
           \/ p \in Users /\ pc[p] = "setcancel" /\ cancelFunc' = reg[p]
        /\ pc'[p] \in {"setsend", "setclose"} =>
             pc[p] = "setsend" \/ (pc[p] = "setcancel" /\ cancelFunc' = reg[p])
        /\ pc'[p] = "swrite" => reg'[p] = WriteEnd

LEMMA UserProceeds ==
  ASSUME PcTypeOK, DataTypeOK, NEW u \in Users, User(u), ~Dial(u), ~StartLoops(u)
  PROVE  Proceeds(u)
  <1>0. u \in Procs
    BY ConnsFacts
  <1> USE <1>0 DEF At, Goto, Loads, Proceeds, PcTypeOK, DataTypeOK, Resetting, Past, conns, fields, h2
  <1>1. CASE Lock(u)
    BY <1>1 DEF Lock
  <1>2. CASE CheckConnected(u)
    <2>1. /\ \E label \in {"dial", "waitcheck", "evalsend"} : pc' = [pc EXCEPT ![u] = label]
          /\ UNCHANGED <<conns, fields, reg>> /\ pc[u] = "locked"
      BY <1>2 DEF CheckConnected, AfterConnect
    <2> QED BY <2>1
  <1>3. CASE SetDecoder(u)
    BY <1>3 DEF SetDecoder
  <1>4. CASE SetCancelFunc(u)
    BY <1>4 DEF SetCancelFunc
  <1>5. CASE SetSendChannel(u)
    BY <1>5 DEF SetSendChannel
  <1>6. CASE EvalSendChannel(u)
    BY <1>6 DEF EvalSendChannel
  <1>7. CASE Enqueue(u)
    BY <1>7 DEF Enqueue
  <1>8. CASE WaitCheck(u)
    <2>1. /\ \E label \in {"done", "waitload"} : pc' = [pc EXCEPT ![u] = label]
          /\ UNCHANGED <<conns, fields>> /\ pc[u] = "waitcheck"
          /\ reg' = [reg EXCEPT ![u] = closeChannel]
      BY <1>8 DEF WaitCheck
    <2> QED BY <2>1
  <1>9. CASE WaitLoad(u)
    <2>1. reg' = reg \/ reg' = [reg EXCEPT ![u] = closeChannel]
      BY <1>0, <1>9, LoadsEither DEF WaitLoad
    <2> QED BY <1>9, <2>1 DEF WaitLoad
  <1>10. CASE WaitReceive(u)
    BY <1>10 DEF WaitReceive
  <1> QED BY <1>1, <1>2, <1>3, <1>4, <1>5, <1>6, <1>7, <1>8, <1>9, <1>10 DEF User

LEMMA LoopProceeds ==
  ASSUME PcTypeOK, DataTypeOK, NEW e \in Conns,
         SendLoopStep(e) \/ RecvLoopStep(e) \/ ReadMessage(RecvLoop(e))
  PROVE  Proceeds(SendLoop(e)) \/ Proceeds(RecvLoop(e))
  <1> DEFINE s == SendLoop(e)
             v == RecvLoop(e)
  <1>0. s \in Procs \ Users /\ v \in Procs \ Users
    BY ConnsFacts
  <1> HIDE DEF s, v
  <1> USE <1>0 DEF At, Goto, Loads, Proceeds, PcTypeOK, DataTypeOK, Resetting, Past, conns, fields, h2
  <1>1. CASE SendLoopCheck(s)
    BY <1>1 DEF SendLoopCheck, s
  <1>2. CASE Select(s)
    BY <1>2 DEF Select, s
  <1>3. CASE SelectDone(e)
    BY <1>3 DEF SelectDone, s
  <1>4. CASE SelectMessage(s)
    BY <1>4 DEF SelectMessage, s
  <1>5. CASE SendLoopRecheck(s)
    BY <1>5 DEF SendLoopRecheck, s
  <1>6. CASE SendLoopLoad(s)
    BY <1>6 DEF SendLoopLoad, Use, s
  <1>7. CASE WriteMessage(s)
    BY <1>7 DEF WriteMessage, s
  <1>8. CASE WriteFails(s) \/ MarshalFails(s)
    BY <1>8 DEF WriteFails, MarshalFails, Fails, HandleError, s
  <1>9. CASE RecvLoopCheck(v)
    BY <1>9 DEF RecvLoopCheck, v
  <1>10. CASE RecvLoopLoad(v)
    BY <1>10 DEF RecvLoopLoad, Use, v
  <1>11. CASE ReadFails(v) \/ ReadMessage(v)
    BY <1>11 DEF ReadFails, ReadMessage, Fails, HandleError, v
  <1> QED BY <1>1, <1>2, <1>3, <1>4, <1>5, <1>6, <1>7, <1>8, <1>9, <1>10, <1>11
          DEF SendLoopStep, SendLoopRuns, RecvLoopStep, s, v

LEMMA StrayProceeds ==
  ASSUME PcTypeOK, DataTypeOK, NumberInv, StrayInv, NEW p \in Procs, Proceeds(p)
  PROVE  StrayInv'
  <1>0. /\ UNCHANGED <<dialed, ws>> /\ canceled \subseteq canceled' /\ WriteEnd' = WriteEnd
        /\ \A q \in Procs \ {p} : pc'[q] = pc[q] /\ reg'[q] = reg[q]
    BY DEF Proceeds, WriteEnd
  <1>1. CASE pc'[p] = pc[p] /\ reg'[p] = reg[p] /\ UNCHANGED cancelFunc
    <2>1. \A q \in Procs : pc'[q] = pc[q] /\ reg'[q] = reg[q]
      BY <1>0, <1>1
    <2>2. \A e \in Conns : pc'[SendLoop(e)] = pc[SendLoop(e)] /\ pc'[RecvLoop(e)] = pc[RecvLoop(e)]
      BY <2>1, ConnsFacts
    <2>3. \A u \in Users : pc'[u] = pc[u]
      BY <2>1, ConnsFacts
    <2>4. dialed = 2 => SendLoop(2) \in Procs /\ SendLoop(1) \in Procs
      BY ConnsFacts DEF DataTypeOK
    <2>5. Together'
      BY <2>2 DEF StrayInv, Together
    <2>6. Plain' => Plain
      BY <1>0, <2>3 DEF Plain
    <2>7. Plain => FirstUp'
      BY <1>0, <1>1, <2>1, <2>2, <2>3, ConnsFacts DEF StrayInv, FirstUp
    <2>8. Plain => SecondUp'
      BY <1>0, <2>1, <2>4 DEF StrayInv, SecondUp
    <2> QED BY <2>3, <2>5, <2>6, <2>7, <2>8 DEF StrayInv
  <1>2. ASSUME pc[p] # "off", pc'[p] \notin Past \cup {"off", "start", "callcancel"},
               p \in Users => pc'[p] \notin Resetting,
               \/ UNCHANGED cancelFunc
               \/ p \in Users /\ pc[p] = "setcancel" /\ cancelFunc' = reg[p],
               pc'[p] \in {"setsend", "setclose"} =>
                 pc[p] = "setsend" \/ (pc[p] = "setcancel" /\ cancelFunc' = reg[p]),
               pc'[p] = "swrite" => reg'[p] = WriteEnd
        PROVE  StrayInv'
    <2>2. Together'
      <3>1. \A q \in Procs : pc'[q] = "off" <=> pc[q] = "off"
        BY <1>0, <1>2
      <3> QED BY <3>1, ConnsFacts DEF StrayInv, Together
    <2>3. ASSUME Plain' PROVE Plain
      BY <1>0, <1>2, <2>3, ConnsFacts DEF Plain
    <2>4. ASSUME Plain PROVE \A u \in Users : pc'[u] \notin Resetting
      BY <1>0, <1>2, <2>4, ConnsFacts DEF StrayInv
    <2>5. ASSUME Plain PROVE FirstUp'
      <3> SUFFICES ASSUME dialed' = 1, 1 \notin canceled'
                   PROVE  /\ ws' # 0 /\ (pc'[SendLoop(1)] # "off" => cancelFunc' # 0)
                          /\ \A u \in Users : pc'[u] \in {"setsend", "setclose"} => cancelFunc' # 0
                          /\ \A q \in Procs : /\ pc'[q] \notin Past
                                              /\ pc'[q] = "callcancel" => reg'[q] # 0
        BY DEF FirstUp
      <3>1. /\ ws # 0 /\ (pc[SendLoop(1)] # "off" => cancelFunc # 0)
            /\ \A u \in Users : pc[u] \in {"setsend", "setclose"} => cancelFunc # 0
            /\ \A q \in Procs : pc[q] \notin Past /\ (pc[q] = "callcancel" => reg[q] # 0)
        BY <1>0, <2>5 DEF StrayInv, FirstUp
      <3>2. cancelFunc # 0 => cancelFunc' # 0
        BY <1>2 DEF NumberInv, Setting
      <3>3. pc'[SendLoop(1)] # "off" => cancelFunc' # 0
        BY <1>0, <1>2, <3>1, <3>2, ConnsFacts
      <3>4. ASSUME NEW u \in Users, pc'[u] \in {"setsend", "setclose"} PROVE cancelFunc' # 0
        <4>1. CASE u # p
          BY <1>0, <3>1, <3>2, <3>4, <4>1, ConnsFacts
        <4>2. CASE u = p
          <5>1. pc[p] = "setcancel" => reg[p] # 0
            BY <4>2 DEF NumberInv, Setting
          <5> QED BY <1>0, <1>2, <3>1, <3>2, <3>4, <4>2, <5>1
        <4> QED BY <4>1, <4>2
      <3>5. \A q \in Procs : pc'[q] \notin Past /\ (pc'[q] = "callcancel" => reg'[q] # 0)
        BY <1>0, <1>2, <3>1
      <3> QED BY <1>0, <3>1, <3>3, <3>4, <3>5
    <2>6. ASSUME Plain PROVE SecondUp'
      <3> SUFFICES ASSUME dialed' = 2
                   PROVE  /\ 1 \in canceled' /\ WriteEnd' # 1
                          /\ pc'[SendLoop(2)] = "swrite" => reg'[SendLoop(2)] # 1
        BY DEF SecondUp
      <3>1. /\ 1 \in canceled /\ WriteEnd # 1
            /\ pc[SendLoop(2)] = "swrite" => reg[SendLoop(2)] # 1
        BY <1>0, <2>6 DEF StrayInv, SecondUp
      <3>2. SendLoop(2) \in Procs
        BY <1>0, ConnsFacts DEF DataTypeOK
      <3>3. pc'[SendLoop(2)] = "swrite" => reg'[SendLoop(2)] # 1
        BY <1>0, <1>2, <3>1, <3>2 DEF DataTypeOK
      <3> QED BY <1>0, <3>1, <3>3
    <2> QED BY <2>2, <2>3, <2>4, <2>5, <2>6 DEF StrayInv
  <1> QED BY <1>1, <1>2 DEF Proceeds

\* What a step of Reset may do to what StrayInv is about; a user's is a Close.
LEMMA ResetClears ==
  ASSUME PcTypeOK, DataTypeOK, NEW p \in Procs, Reset(p)
  PROVE  /\ UNCHANGED <<dialed, transport>> /\ canceled \subseteq canceled'
         /\ ws' \in {ws, 0} /\ writer' \in {writer, 0} /\ cancelFunc' \in {cancelFunc, 0}
         /\ pc[p] \in Resetting \/ (p \in Users /\ UserOp[p] = "any" /\ pc[p] = "start")
         /\ \A q \in Procs \ {p} : pc'[q] = pc[q] /\ reg'[q] = reg[q]
         /\ pc'[p] \in Resetting \cup {"done"}
  <1> USE DEF At, Goto, Loads, PcTypeOK, DataTypeOK, Resetting, conns, fields, h2
  <1>1. CASE Close(p)
    BY <1>1 DEF Close
  <1>2. CASE CheckCancelFunc(p)
    BY <1>2 DEF CheckCancelFunc
  <1>3. CASE CallCancelFunc(p)
    BY <1>3 DEF CallCancelFunc
  <1>4. CASE ClearCancelFunc(p)
    BY <1>4 DEF ClearCancelFunc
  <1>5. CASE CheckCloseChannel(p)
    BY <1>5 DEF CheckCloseChannel
  <1>6. CASE LoadCloseChannel(p)
    BY <1>6, LoadsEither DEF LoadCloseChannel
  <1>7. CASE SendClose(p)
    BY <1>7 DEF SendClose
  <1>8. CASE ClearCloseChannel(p)
    BY <1>8 DEF ClearCloseChannel
  <1>9. CASE CheckWs(p)
    BY <1>9 DEF CheckWs
  <1>10. CASE CloseWs(p)
    BY <1>10 DEF CloseWs
  <1>11. CASE ClearWs(p)
    BY <1>11 DEF ClearWs
  <1>12. CASE ClearWriter(p)
    BY <1>12 DEF ClearWriter
  <1>13. CASE ClearSendChannel(p)
    BY <1>13 DEF ClearSendChannel
  <1>14. CASE CallCloseHandler(p)
    BY <1>14 DEF CallCloseHandler
  <1>15. CASE ClearCloseHandler(p)
    BY <1>15 DEF ClearCloseHandler
  <1> QED BY <1>1, <1>2, <1>3, <1>4, <1>5, <1>6, <1>7, <1>8, <1>9, <1>10, <1>11, <1>12,
             <1>13, <1>14, <1>15
          DEF Reset

\* Before the context of the only connection is canceled a Reset has not come far.
LEMMA ResetBegins ==
  ASSUME DataTypeOK, NEW p \in Procs, Reset(p), pc[p] \in Resetting, pc[p] \notin Past
  PROVE  \/ Close(p) /\ pc[p] = "closecheck"
         \/ CheckCancelFunc(p) \/ CallCancelFunc(p)
  <1>1. pc[p] \in {"closecheck", "cancel", "callcancel"}
    BY DEF Resetting, Past
  <1> QED BY <1>1
          DEF Reset, Close, ClearCancelFunc, CheckCloseChannel, LoadCloseChannel, SendClose,
              ClearCloseChannel, CheckWs, CloseWs, ClearWs, ClearWriter, ClearSendChannel,
              CallCloseHandler, ClearCloseHandler, At

LEMMA StrayReset ==
  ASSUME PcTypeOK, DataTypeOK, NumberInv, StrayInv, NEW p \in Procs, Reset(p)
  PROVE  StrayInv'
  <1>1. /\ UNCHANGED <<dialed, transport>> /\ canceled \subseteq canceled'
        /\ ws' \in {ws, 0} /\ writer' \in {writer, 0} /\ cancelFunc' \in {cancelFunc, 0}
        /\ pc[p] \in Resetting \/ (p \in Users /\ UserOp[p] = "any" /\ pc[p] = "start")
    BY ResetClears
  <1>2. /\ \A q \in Procs \ {p} : pc'[q] = pc[q] /\ reg'[q] = reg[q]
        /\ pc'[p] \in Resetting \cup {"done"}
    BY ResetClears
  <1>3. pc[p] # "off" /\ pc'[p] \notin {"off", "start"}
    BY <1>1, <1>2 DEF Resetting
  <1>4. Together'
    <2>1. \A q \in Procs : pc'[q] = "off" <=> pc[q] = "off"
      BY <1>2, <1>3
    <2> QED BY <2>1, ConnsFacts DEF StrayInv, Together
  <1> SUFFICES ASSUME Plain'
               PROVE  (\A u \in Users : pc'[u] \notin Resetting) /\ FirstUp' /\ SecondUp'
    BY <1>4 DEF StrayInv
  <1>5. Plain
    BY <1>1, <1>2, <1>3, ConnsFacts DEF Plain
  <1>6. p \notin Users /\ pc[p] \in Resetting
    BY <1>1, <1>3, <1>5 DEF Plain, StrayInv
  <1>7. \A u \in Users : pc'[u] = pc[u] /\ pc'[u] \notin Resetting
    BY <1>2, <1>5, <1>6, ConnsFacts DEF StrayInv
  <1>8. SecondUp'
    <2> SUFFICES ASSUME dialed' = 2
                 PROVE  /\ 1 \in canceled' /\ WriteEnd' # 1
                        /\ pc'[SendLoop(2)] = "swrite" => reg'[SendLoop(2)] # 1
      BY DEF SecondUp
    <2>1. /\ 1 \in canceled /\ WriteEnd # 1
          /\ pc[SendLoop(2)] = "swrite" => reg[SendLoop(2)] # 1
      BY <1>1, <1>5 DEF StrayInv, SecondUp
    <2>2. SendLoop(2) \in Procs
      BY <1>1, ConnsFacts DEF DataTypeOK
    <2>3. pc'[p] # "swrite"
      BY <1>2 DEF Resetting
    <2>4. WriteEnd' # 1
      BY <1>1, <2>1 DEF WriteEnd
    <2> QED BY <1>1, <1>2, <2>1, <2>2, <2>3, <2>4
  <1>9. FirstUp'
    <2> SUFFICES ASSUME dialed' = 1, 1 \notin canceled'
                 PROVE  /\ ws' # 0 /\ (pc'[SendLoop(1)] # "off" => cancelFunc' # 0)
                        /\ \A u \in Users : pc'[u] \in {"setsend", "setclose"} => cancelFunc' # 0
                        /\ \A q \in Procs : /\ pc'[q] \notin Past
                                            /\ pc'[q] = "callcancel" => reg'[q] # 0
      BY DEF FirstUp
    <2>1. /\ ws # 0 /\ (pc[SendLoop(1)] # "off" => cancelFunc # 0)
          /\ \A u \in Users : pc[u] \in {"setsend", "setclose"} => cancelFunc # 0
          /\ \A q \in Procs : pc[q] \notin Past /\ (pc[q] = "callcancel" => reg[q] # 0)
      BY <1>1, <1>5 DEF StrayInv, FirstUp
    <2>2. cancelFunc # 0
      <3>1. PICK e \in Conns : p = SendLoop(e) \/ p = RecvLoop(e)
        BY <1>6 DEF Procs, SendLoops, RecvLoops
      <3>2. pc[SendLoop(e)] # "off"
        BY <1>3, <3>1 DEF StrayInv, Together
      <3>3. e <= 1
        BY <1>1, <3>2 DEF NumberInv
      <3>4. e = 1
        BY <3>3 DEF Conns
      <3> QED BY <2>1, <3>2, <3>4
    <2>3. /\ UNCHANGED <<ws, cancelFunc>>
          /\ \/ UNCHANGED <<pc, reg>>
             \/ pc'[p] \in {"cancel", "done"}
             \/ pc'[p] = "callcancel" /\ reg'[p] = cancelFunc
      <3>1. CASE Close(p) /\ pc[p] = "closecheck"
        BY <3>1 DEF Close, Goto, fields, PcTypeOK
      <3>2. CASE CheckCancelFunc(p)
        BY <2>2, <3>2 DEF CheckCancelFunc, Goto, Loads, fields, PcTypeOK, DataTypeOK
      <3>3. CASE CallCancelFunc(p)
        <4>1. reg[p] # 0 /\ reg[p] \in 0 .. 1 /\ cancelFunc \in 0 .. 1
          BY <1>1, <2>1, <3>3 DEF CallCancelFunc, At, NumberInv
        <4>2. reg[p] = 1 /\ cancelFunc = 1
          BY <2>2, <4>1
        <4>3. 1 \in canceled'
          BY <3>3, <4>2 DEF CallCancelFunc, MayUse
        <4> QED BY <4>3
      <3> QED BY <1>6, <2>1, <3>1, <3>2, <3>3, ResetBegins
    <2>4. \A q \in Procs : pc'[q] \notin Past /\ (pc'[q] = "callcancel" => reg'[q] # 0)
      BY <1>2, <2>1, <2>2, <2>3 DEF Past, Resetting
    <2> QED BY <2>1, <2>2, <2>3, <2>4
  <1> QED BY <1>7, <1>8, <1>9

LEMMA StrayDial ==
  ASSUME Inv, NumberInv, StrayInv, NEW u \in Users, Dial(u)
  PROVE  StrayInv'
  <1>0. PcTypeOK /\ DataTypeOK /\ u \in Procs /\ pc[u] = "dial" /\ ws = 0
    BY ConnsFacts DEF Inv, TypeOK, DialInv, Dial, At
  <1>1. dialed \in Nat /\ \A e \in Conns : e \in Nat /\ e # 0
    BY <1>0, ConnAssumption DEF DataTypeOK, Conns
  <1>2. /\ \E label \in {"setdecoder", "setcancel", "done"} : pc' = [pc EXCEPT ![u] = label]
        /\ UNCHANGED <<transport, cancelFunc, canceled>>
        /\ \/ UNCHANGED <<dialed, ws, writer, reg>>
           \/ /\ dialed' = dialed + 1 /\ dialed + 1 \in Conns /\ WriteEnd' = dialed + 1
              /\ ws' = dialed + 1
              /\ \E v \in 0 .. MaxConns : reg' = [reg EXCEPT ![u] = v]
    <2>1. dialed < MaxConns => dialed + 1 \in Conns /\ dialed + 1 \in 0 .. MaxConns
      BY <1>1, ConnAssumption DEF Conns
    <2> QED BY <1>0, <2>1 DEF Dial, ConnectWs, ConnectH2, Goto, Loads, WriteEnd, DataTypeOK
  <1>3. /\ pc'[u] \in {"setdecoder", "setcancel", "done"}
        /\ \A q \in Procs \ {u} : pc'[q] = pc[q] /\ reg'[q] = reg[q]
    BY <1>0, <1>2 DEF PcTypeOK, DataTypeOK
  <1>4. /\ \A e \in Conns : pc'[SendLoop(e)] = pc[SendLoop(e)] /\ pc'[RecvLoop(e)] = pc[RecvLoop(e)]
        /\ \A q \in Procs : pc'[q] \in Resetting => pc[q] \in Resetting /\ q # u
    BY <1>3, ConnsFacts DEF Resetting
  <1>5. Together'
    BY <1>4 DEF StrayInv, Together
  <1> SUFFICES ASSUME Plain'
               PROVE  (\A v \in Users : pc'[v] \notin Resetting) /\ FirstUp' /\ SecondUp'
    BY <1>5 DEF StrayInv
  <1>6. Plain
    <2>1. dialed <= 2
      BY <1>1, <1>2 DEF Plain
    <2>2. ASSUME NEW v \in Users, UserOp[v] = "any" PROVE pc[v] = "start"
      BY <1>3, <2>2, ConnsFacts DEF Plain
    <2> QED BY <2>1, <2>2 DEF Plain
  <1>7. (\A v \in Users : pc[v] \notin Resetting) /\ FirstUp /\ SecondUp
    BY <1>6 DEF StrayInv
  <1>8. \A v \in Users : pc'[v] \notin Resetting
    BY <1>4, <1>7, ConnsFacts
  <1>9. CASE UNCHANGED <<dialed, ws, writer, reg>>
    <2>1. FirstUp'
      BY <1>0, <1>2, <1>7, <1>9, <1>3, <1>4 DEF FirstUp, Past, Resetting
    <2>2. SecondUp'
      <3> SUFFICES ASSUME dialed = 2 PROVE SecondUp'
        BY <1>9 DEF SecondUp
      <3>1. 2 \in Conns /\ WriteEnd' = WriteEnd
        BY <1>0, <1>2, <1>9 DEF DataTypeOK, Conns, WriteEnd
      <3> QED BY <1>2, <1>4, <1>7, <1>9, <3>1 DEF SecondUp
    <2> QED BY <1>8, <2>1, <2>2
  <1>10. CASE dialed' = dialed + 1 /\ dialed + 1 \in Conns /\ WriteEnd' = dialed + 1
              /\ ws' = dialed + 1
    <2>1. pc[SendLoop(dialed + 1)] = "off" /\ pc[RecvLoop(dialed + 1)] = "off"
      BY <1>1, <1>10 DEF NumberInv, StrayInv, Together
    <2>2. FirstUp'
      <3> SUFFICES ASSUME dialed = 0 PROVE FirstUp'
        BY <1>1, <1>10 DEF FirstUp
      <3>1. \A e \in Conns : pc[SendLoop(e)] = "off" /\ pc[RecvLoop(e)] = "off"
        BY <1>1 DEF NumberInv, StrayInv, Together
      <3>2. \A q \in Procs : pc'[q] \notin Resetting
        BY <1>4, <1>8, <3>1 DEF Procs, SendLoops, RecvLoops, Resetting
      <3>3. ASSUME NEW v \in Users PROVE pc'[v] \notin {"setsend", "setclose"}
        <4>1. v # u => pc[v] \notin Connecting
          BY <1>0 DEF Inv, LockInv, Connecting
        <4> QED BY <1>3, <4>1, ConnsFacts DEF Connecting
      <3>4. pc'[SendLoop(1)] = "off"
        BY <1>4, <3>1, ConnsFacts
      <3>5. \A q \in Procs : pc'[q] \notin Past /\ pc'[q] # "callcancel"
        BY <3>2 DEF Past, Resetting
      <3> QED BY <1>1, <1>10, <3>3, <3>4, <3>5 DEF FirstUp
    <2>3. SecondUp'
      <3> SUFFICES ASSUME dialed = 1 PROVE SecondUp'
        BY <1>1, <1>10 DEF SecondUp
      <3>1. 1 \in canceled
        BY <1>0, <1>7 DEF FirstUp
      <3>2. pc'[SendLoop(2)] = "off"
        BY <1>4, <1>10, <2>1
      <3> QED BY <1>2, <1>10, <3>1, <3>2 DEF SecondUp
    <2> QED BY <1>8, <2>2, <2>3
  <1> QED BY <1>2, <1>9, <1>10

LEMMA StrayStarts ==
  ASSUME PcTypeOK, DataTypeOK, NumberInv, StrayInv, NEW u \in Users, StartLoops(u)
  PROVE  StrayInv'
  <1>0. u \in Procs /\ pc[u] = "setclose" /\ reg[u] \in Conns
    BY ConnsFacts DEF StartLoops, At, NumberInv, Setting, DataTypeOK
  <1>1. UNCHANGED <<dialed, ws, cancelFunc, canceled, reg>> /\ WriteEnd' = WriteEnd
    BY DEF StartLoops, conns, h2, WriteEnd
  <1>2. /\ \A q \in Procs \ {u, SendLoop(reg[u]), RecvLoop(reg[u])} : pc'[q] = pc[q]
        /\ pc'[u] \in {"waitcheck", "evalsend"}
        /\ pc'[SendLoop(reg[u])] = "scheck" /\ pc'[RecvLoop(reg[u])] = "vcheck"
    <2>1. u \notin {SendLoop(reg[u]), RecvLoop(reg[u])} /\ SendLoop(reg[u]) # RecvLoop(reg[u])
      BY <1>0, ConnsFacts DEF SendLoop, RecvLoop
    <2> QED BY <1>0, <2>1, ConnsFacts DEF StartLoops, PcTypeOK, AfterConnect
  <1>3. \A q \in Procs : \/ pc'[q] = pc[q]
                         \/ pc'[q] \in {"waitcheck", "evalsend", "scheck", "vcheck"}
    BY <1>2
  <1>4. Together'
    <2> SUFFICES ASSUME NEW e \in Conns
                 PROVE  pc'[SendLoop(e)] = "off" <=> pc'[RecvLoop(e)] = "off"
      BY DEF Together
    <2>1. CASE e # reg[u]
      <3>1. /\ SendLoop(e) \notin {u, SendLoop(reg[u]), RecvLoop(reg[u])}
            /\ RecvLoop(e) \notin {u, SendLoop(reg[u]), RecvLoop(reg[u])}
        BY <2>1, ConnsFacts DEF SendLoop, RecvLoop
      <3> QED BY <1>2, <3>1, ConnsFacts DEF StrayInv, Together
    <2> QED BY <1>2, <2>1
  <1> SUFFICES ASSUME Plain'
               PROVE  (\A v \in Users : pc'[v] \notin Resetting) /\ FirstUp' /\ SecondUp'
    BY <1>4 DEF StrayInv
  <1>5. Plain
    BY <1>1, <1>3, ConnsFacts DEF Plain
  <1>6. (\A v \in Users : pc[v] \notin Resetting) /\ FirstUp /\ SecondUp
    BY <1>5 DEF StrayInv
  <1>7. \A v \in Users : pc'[v] \notin Resetting
    BY <1>3, <1>6, ConnsFacts DEF Resetting
  <1>8. FirstUp'
    <2> SUFFICES ASSUME dialed = 1, 1 \notin canceled PROVE FirstUp'
      BY <1>1 DEF FirstUp
    <2>1. /\ ws # 0 /\ cancelFunc # 0
          /\ \A q \in Procs : pc[q] \notin Past /\ (pc[q] = "callcancel" => reg[q] # 0)
      BY <1>0, <1>6 DEF FirstUp
    <2>2. \A q \in Procs : pc'[q] \notin Past /\ (pc'[q] = "callcancel" => reg'[q] # 0)
      BY <1>1, <1>3, <2>1 DEF Past, Resetting
    <2> QED BY <1>1, <2>1, <2>2 DEF FirstUp
  <1>9. SecondUp'
    <2> SUFFICES ASSUME dialed = 2 PROVE SecondUp'
      BY <1>1 DEF SecondUp
    <2>1. SendLoop(2) \in Procs
      BY ConnsFacts DEF DataTypeOK
    <2>2. pc'[SendLoop(2)] = "swrite" => pc[SendLoop(2)] = "swrite"
      BY <1>3, <2>1
    <2> QED BY <1>1, <1>6, <2>2 DEF SecondUp
  <1> QED BY <1>7, <1>8, <1>9

LEMMA StrayStep == Inv /\ NumberInv /\ StrayInv /\ [Next]_vars => StrayInv'
  <1> SUFFICES ASSUME Inv, NumberInv, StrayInv, [Next]_vars PROVE StrayInv'
    OBVIOUS
  <1>0. PcTypeOK /\ DataTypeOK
    BY DEF Inv, TypeOK
  <1>1. ASSUME NEW u \in Users, User(u) PROVE StrayInv'
    <2>1. u \in Procs
      BY ConnsFacts
    <2> QED BY <1>0, <1>1, <2>1, UserProceeds, StrayProceeds, StrayDial, StrayStarts
  <1>2. ASSUME NEW p \in Procs, Reset(p) PROVE StrayInv'
    BY <1>0, <1>2, StrayReset
  <1>3. ASSUME NEW e \in Conns, SendLoopStep(e) \/ RecvLoopStep(e) \/ ReadMessage(RecvLoop(e))
        PROVE  StrayInv'
    <2>1. SendLoop(e) \in Procs /\ RecvLoop(e) \in Procs
      BY ConnsFacts
    <2> QED BY <1>0, <1>3, <2>1, LoopProceeds, StrayProceeds
  <1>4. ASSUME UNCHANGED <<dialed, fields, pc, reg>>, canceled \subseteq canceled' PROVE StrayInv'
    <2>1. UNCHANGED <<ws, cancelFunc>> /\ WriteEnd' = WriteEnd
      BY <1>4 DEF fields, h2, WriteEnd
    <2> QED BY <1>4, <2>1 DEF StrayInv, Together, Plain, FirstUp, SecondUp
  <1>5. ASSUME NEW e \in Conns, Lose(e) \/ CancelRoot(e) PROVE StrayInv'
    BY <1>4, <1>5 DEF Lose, CancelRoot
  <1>6. CASE UNCHANGED vars
    BY <1>4, <1>6 DEF vars, conns
  <1> QED BY <1>1, <1>2, <1>3, <1>5, <1>6 DEF Next

LEMMA StrayAlways == Spec => []StrayInv
  BY StrayInit, StrayStep, InvAlways, NumberAlways, PTL DEF Spec

\* Reset cancels before it lets go of the connection, and Connect dials only when
\* there is none: by the time the second sendLoop can share a channel with the first,
\* the first has been told to stop.
THEOREM StrayLoopsAreCanceled == Spec => []StrayLoopCanceled
  <1>1. Inv /\ NumberInv /\ StrayInv => StrayLoopCanceled
    <2> SUFFICES ASSUME Inv, NumberInv, StrayInv, NEW e \in Conns,
                        pc[SendLoop(e)] = "swrite", reg[SendLoop(e)] # e,
                        \A u \in Users : ~(UserOp[u] = "any" /\ pc[u] # "start"),
                        ~(dialed > 2)
                 PROVE  e \in canceled
      BY DEF StrayLoopCanceled
    <2>1. SendLoop(e) \in Procs /\ dialed \in Nat /\ dialed <= 2 /\ e \in Nat /\ e # 0
      BY ConnsFacts, ConnAssumption DEF Inv, TypeOK, DataTypeOK, Conns
    <2>2. reg[SendLoop(e)] # 0 /\ reg[SendLoop(e)] \in 0 .. dialed /\ e <= dialed
      BY <2>1 DEF Inv, HandInv, NumberInv
    <2>3. dialed = 2
      BY <2>1, <2>2
    <2>4. /\ 1 \in canceled
          /\ pc[SendLoop(2)] = "swrite" => reg[SendLoop(2)] # 1
      BY <2>1, <2>3 DEF Plain, StrayInv, SecondUp
    <2>5. CASE e = 2
      BY <2>1, <2>2, <2>3, <2>4, <2>5
    <2> QED BY <2>1, <2>2, <2>3, <2>4, <2>5
  <1> QED BY <1>1, InvAlways, NumberAlways, StrayAlways, PTL
=============================================================================
