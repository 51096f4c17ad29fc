---------------------------- MODULE StreamingConn ----------------------------
(***************************************************************************)
(* The life of a StreamingClient's connections (http/streaming_client.go   *)
(* with the websocket transport of http/ws_client.go or the HTTP/2 one of  *)
(* http/h2_client.go), field by field.                                     *)
(*                                                                         *)
(* Connect runs under connectLock.  Reset, which undoes it, does not: it   *)
(* is run by a user's Close, by the sendLoop and by the recvLoop of any    *)
(* connection, and reads and clears the same fields one after another.     *)
(* One action is one access to the object's fields, so all interleavings   *)
(* of these goroutines are here.  A field is 0 for nil and else the number *)
(* of the connection its value was made for.                               *)
(***************************************************************************)
EXTENDS Integers, Sequences, FiniteSets

CONSTANTS
  Transports, \* the transports a client may be made with: "ws", "h2"
  Users,     \* goroutines of the program that uses the client
  UserOp,    \* UserOp[u]: "send", "watch" (Connect, then Wait) or "any"
             \* (Close, or Send of a message json perhaps cannot marshal)
  MaxConns,  \* bound: connections dialed
  MaxLosses, \* bound: connections numbered up to MaxLosses may be lost
  MayCancel  \* whether the context a connection was made with may be canceled

Conns == 1 .. MaxConns
SendLoop(e) == <<"sendLoop", e>>
RecvLoop(e) == <<"recvLoop", e>>
SendLoops == {SendLoop(e) : e \in Conns}
RecvLoops == {RecvLoop(e) : e \in Conns}
Procs == Users \cup SendLoops \cup RecvLoops

ASSUME ConnAssumption ==
  /\ Transports \subseteq {"ws", "h2"}
  /\ MaxConns \in Nat \ {0} /\ MaxLosses \in Nat /\ MayCancel \in BOOLEAN
  /\ Users \cap (SendLoops \cup RecvLoops) = {}
  /\ UserOp \in [Users -> {"send", "watch", "any"}]

VARIABLES
  transport,     \* the client's transport
  ws,            \* its connection: the transport's field ws, or resp
  writer, decoder, \* the HTTP/2 transport's ends of that connection
  cancelFunc, sendChannel, closeChannel, \* the client's fields
  closeHandler,  \* whether the field still holds a handler
  connectLock,   \* the goroutine that holds the mutex: {} or {u}
  dialed,        \* connections dialed so far
  link,          \* link[e]: "none", "open" or "closed" by this client
  lost,          \* connections the network or the server has broken, or on
                 \* which the server sent what is not a JSON-RPC message
  canceled,      \* connections whose context is done
  rootCanceled,  \* those among them canceled by the caller's own context
  sendQueue,     \* sendQueue[e]: messages in the e-th sendChannel
  closeQueue,    \* closeQueue[e]: errors in the e-th closeChannel
  pc, reg,       \* where a goroutine is, and the field value it loaded last
  hand,          \* the message a sendLoop holds: <<>> or <<m>>
  err,           \* the error a goroutine passes to Reset, or Wait returned
  written,       \* messages written, in order
  panicked       \* a nil connection was used

h2     == <<transport, writer, decoder>>
fields == <<h2, ws, cancelFunc, sendChannel, closeChannel, closeHandler>>
conns  == <<dialed, link, lost, canceled, rootCanceled>>
queues == <<sendQueue, closeQueue>>
hist   == <<written, panicked>>
vars   == <<fields, connectLock, conns, queues, pc, reg, hand, err, hist>>

Label == {"start", "off", "done",
          "locked", "dial", "setdecoder", "setcancel", "setsend", "setclose",
          "evalsend", "enqueue", "waitcheck", "waitload", "waitrecv",
          "closecheck", "cancel", "callcancel", "uncancel", "checkclose", "loadclose", "sendclose",
          "unclose", "closews", "shutws", "unws", "unwriter", "unsend", "handler", "unhandler",
          "scheck", "sselect", "srecv", "srecheck", "sload", "swrite",
          "vcheck", "vload", "vread"}

PcTypeOK == pc \in [Procs -> Label]

DataTypeOK ==
  /\ transport \in Transports /\ writer \in 0 .. MaxConns /\ decoder \in 0 .. MaxConns
  /\ ws \in 0 .. MaxConns /\ cancelFunc \in 0 .. MaxConns
  /\ sendChannel \in 0 .. MaxConns /\ closeChannel \in 0 .. MaxConns
  /\ closeHandler \in BOOLEAN
  /\ connectLock \subseteq Users /\ \A u, v \in connectLock : u = v
  /\ dialed \in 0 .. MaxConns
  /\ link \in [Conns -> {"none", "open", "closed"}]
  /\ lost \subseteq Conns /\ canceled \subseteq Conns /\ rootCanceled \subseteq Conns
  /\ sendQueue \in [Conns -> Seq(Users)]
  /\ closeQueue \in [Conns -> Seq({"nil", "error"})]
  /\ reg \in [Procs -> 0 .. MaxConns]
  /\ hand \in [Procs -> Seq(Users)]
  /\ err \in [Procs -> {"nil", "error"}]
  /\ written \in Seq([msg : Users, on : Conns])
  /\ panicked \in BOOLEAN

TypeOK == PcTypeOK /\ DataTypeOK

Init ==
  /\ transport \in Transports /\ writer = 0 /\ decoder = 0
  /\ ws = 0 /\ cancelFunc = 0 /\ sendChannel = 0 /\ closeChannel = 0
  /\ closeHandler = TRUE
  /\ connectLock = {}
  /\ dialed = 0
  /\ link = [e \in Conns |-> "none"]
  /\ lost = {} /\ canceled = {} /\ rootCanceled = {}
  /\ sendQueue = [e \in Conns |-> <<>>] /\ closeQueue = [e \in Conns |-> <<>>]
  /\ pc = [p \in Procs |-> IF p \in Users THEN "start" ELSE "off"]
  /\ reg = [p \in Procs |-> 0]
  /\ hand = [p \in Procs |-> <<>>]
  /\ err = [p \in Procs |-> "nil"]
  /\ written = <<>>
  /\ panicked = FALSE

At(p, label) == pc[p] = label
Goto(p, label) == pc' = [pc EXCEPT ![p] = label]
Loads(p, field) == reg' = [reg EXCEPT ![p] = field]

-----------------------------------------------------------------------------
(* Connect, as a user's first step.                                        *)
(* Operators whose comment begins with "Mutant" are plausible bugs of the  *)
(* definition that follows; no specification uses them.                    *)

\* Mutant: a lock that does not exclude.
SharedLock(u) ==
  /\ At(u, "start")
  /\ connectLock' = connectLock \cup {u}
  /\ Goto(u, "locked")
  /\ UNCHANGED <<fields, conns, queues, reg, hand, err, hist>>

Lock(u) ==
  /\ At(u, "start")
  /\ connectLock = {}
  /\ connectLock' = {u}
  /\ Goto(u, "locked")
  /\ UNCHANGED <<fields, conns, queues, reg, hand, err, hist>>

\* What a user does once Connect has returned without an error.
AfterConnect(u) == IF UserOp[u] = "watch" THEN "waitcheck" ELSE "evalsend"

CheckConnected(u) ==
  /\ At(u, "locked")
  /\ \/ ws = 0 /\ Goto(u, "dial") /\ UNCHANGED connectLock
     \/ ws # 0 /\ Goto(u, AfterConnect(u)) /\ connectLock' = {}
  /\ UNCHANGED <<fields, conns, queues, reg, hand, err, hist>>

\* Transport.Connect, from the dialing to the field that says there is a
\* connection.  (Nobody can tell an HTTP/2 transport's writer set just before resp
\* from one set with it.)
ConnectWs(u) ==
  /\ transport = "ws"
  /\ Goto(u, "setcancel")
  /\ UNCHANGED writer

ConnectH2(u) ==
  /\ transport = "h2"
  /\ writer' = dialed + 1
  /\ Goto(u, "setdecoder")

\* An error goes back to the caller.
Dial(u) ==
  /\ At(u, "dial")
  /\ \/ /\ dialed < MaxConns
        /\ ConnectWs(u) \/ ConnectH2(u)
        /\ dialed' = dialed + 1
        /\ ws' = dialed + 1
        /\ link' = [link EXCEPT ![dialed + 1] = "open"]
        /\ Loads(u, dialed + 1)
        /\ UNCHANGED connectLock
     \/ /\ Goto(u, "done")
        /\ connectLock' = {}
        /\ UNCHANGED <<dialed, ws, writer, link, reg>>
  /\ UNCHANGED <<transport, decoder, cancelFunc, sendChannel, closeChannel,
                 closeHandler, lost, canceled, rootCanceled, queues, hand, err, hist>>

SetDecoder(u) ==
  /\ At(u, "setdecoder")
  /\ decoder' = reg[u]
  /\ Goto(u, "setcancel")
  /\ UNCHANGED <<transport, writer, ws, cancelFunc, sendChannel, closeChannel,
                 closeHandler, connectLock, conns, queues, reg, hand, err, hist>>

SetCancelFunc(u) ==
  /\ At(u, "setcancel")
  /\ cancelFunc' = reg[u]
  /\ Goto(u, "setsend")
  /\ UNCHANGED <<h2, ws, sendChannel, closeChannel, closeHandler, connectLock,
                 conns, queues, reg, hand, err, hist>>

SetSendChannel(u) ==
  /\ At(u, "setsend")
  /\ sendChannel' = reg[u]
  /\ Goto(u, "setclose")
  /\ UNCHANGED <<h2, ws, cancelFunc, closeChannel, closeHandler, connectLock,
                 conns, queues, reg, hand, err, hist>>

\* The last field, the two go statements and the deferred Unlock.
StartLoops(u) ==
  /\ At(u, "setclose")
  /\ closeChannel' = reg[u]
  /\ pc' = [pc EXCEPT ![u] = AfterConnect(u),
                      ![SendLoop(reg[u])] = "scheck",
                      ![RecvLoop(reg[u])] = "vcheck"]
  /\ connectLock' = {}
  /\ UNCHANGED <<h2, ws, cancelFunc, sendChannel, closeHandler, conns, queues,
                 reg, hand, err, hist>>

(* Send, after its Connect.                                                *)

EvalSendChannel(u) ==
  /\ At(u, "evalsend")
  /\ Loads(u, sendChannel)
  /\ Goto(u, "enqueue")
  /\ UNCHANGED <<fields, connectLock, conns, queues, hand, err, hist>>

\* A nil channel blocks for ever.
Enqueue(u) ==
  /\ At(u, "enqueue")
  /\ reg[u] # 0
  /\ sendQueue' = [sendQueue EXCEPT ![reg[u]] = Append(@, u)]
  /\ Goto(u, "done")
  /\ UNCHANGED <<fields, connectLock, conns, closeQueue, reg, hand, err, hist>>

(* Wait.                                                                   *)

\* A field that is tested and then used is loaded for the test; the use may
\* keep that value or load the field again, as the compiler pleases.
MayUse(p, field) == {reg[p], field}
LoadsAgain(p, field) == \E v \in MayUse(p, field) : Loads(p, v)

WaitCheck(u) ==
  /\ At(u, "waitcheck")
  /\ Loads(u, closeChannel)
  /\ Goto(u, IF closeChannel = 0 THEN "done" ELSE "waitload")
  /\ UNCHANGED <<fields, connectLock, conns, queues, hand, err, hist>>

WaitLoad(u) ==
  /\ At(u, "waitload")
  /\ LoadsAgain(u, closeChannel)
  /\ Goto(u, "waitrecv")
  /\ UNCHANGED <<fields, connectLock, conns, queues, hand, err, hist>>

WaitReceive(u) ==
  /\ At(u, "waitrecv")
  /\ reg[u] # 0
  /\ closeQueue[reg[u]] # <<>>
  /\ err' = [err EXCEPT ![u] = Head(closeQueue[reg[u]])]
  /\ closeQueue' = [closeQueue EXCEPT ![reg[u]] = Tail(@)]
  /\ Goto(u, "done")
  /\ UNCHANGED <<fields, connectLock, conns, sendQueue, reg, hand, hist>>

User(u) == \/ Lock(u) \/ CheckConnected(u) \/ Dial(u) \/ SetDecoder(u)
           \/ SetCancelFunc(u) \/ SetSendChannel(u) \/ StartLoops(u) \/ EvalSendChannel(u)
           \/ Enqueue(u) \/ WaitCheck(u) \/ WaitLoad(u) \/ WaitReceive(u)

-----------------------------------------------------------------------------
(* Close, Reset and handleError, run by any goroutine.                     *)

Close(p) ==
  /\ \/ At(p, "closecheck")
     \/ p \in Users /\ At(p, "start") /\ UserOp[p] = "any"
  /\ Goto(p, IF ws = 0 THEN "done" ELSE "cancel")
  /\ UNCHANGED <<fields, connectLock, conns, queues, reg, hand, err, hist>>

\* Mutant: Reset cancels nothing.
SkipCancelFunc(p) ==
  /\ At(p, "cancel")
  /\ Goto(p, "checkclose")
  /\ UNCHANGED <<fields, connectLock, conns, queues, reg, hand, err, hist>>

\* if cancelFunc != nil { ...
CheckCancelFunc(p) ==
  /\ At(p, "cancel")
  /\ Loads(p, cancelFunc)
  /\ Goto(p, IF cancelFunc = 0 THEN "checkclose" ELSE "callcancel")
  /\ UNCHANGED <<fields, connectLock, conns, queues, hand, err, hist>>

\* ... cancelFunc(); to call a nil function is a panic.
CallCancelFunc(p) ==
  /\ At(p, "callcancel")
  /\ \E e \in MayUse(p, cancelFunc) :
       \/ /\ e # 0
          /\ canceled' = canceled \cup {e}
          /\ Goto(p, "uncancel")
          /\ UNCHANGED panicked
       \/ /\ e = 0
          /\ panicked' = TRUE
          /\ UNCHANGED <<canceled, pc>>
  /\ UNCHANGED <<fields, connectLock, dialed, link, lost, rootCanceled, queues,
                 reg, hand, err, written>>

ClearCancelFunc(p) ==
  /\ At(p, "uncancel")
  /\ cancelFunc' = 0
  /\ Goto(p, "checkclose")
  /\ UNCHANGED <<h2, ws, sendChannel, closeChannel, closeHandler, connectLock,
                 conns, queues, reg, hand, err, hist>>

\* Mutant: Reset tells nobody.
SkipCloseChannel(p) ==
  /\ At(p, "checkclose")
  /\ Goto(p, "closews")
  /\ UNCHANGED <<fields, connectLock, conns, queues, reg, hand, err, hist>>

\* if closeChannel != nil { ...
CheckCloseChannel(p) ==
  /\ At(p, "checkclose")
  /\ Loads(p, closeChannel)
  /\ Goto(p, IF closeChannel = 0 THEN "closews" ELSE "loadclose")
  /\ UNCHANGED <<fields, connectLock, conns, queues, hand, err, hist>>

LoadCloseChannel(p) ==
  /\ At(p, "loadclose")
  /\ LoadsAgain(p, closeChannel)
  /\ Goto(p, "sendclose")
  /\ UNCHANGED <<fields, connectLock, conns, queues, hand, err, hist>>

\* ... closeChannel <- err; on a nil channel the goroutine is stuck.
SendClose(p) ==
  /\ At(p, "sendclose")
  /\ reg[p] # 0
  /\ closeQueue' = [closeQueue EXCEPT ![reg[p]] = Append(@, err[p])]
  /\ Goto(p, "unclose")
  /\ UNCHANGED <<fields, connectLock, conns, sendQueue, reg, hand, err, hist>>

ClearCloseChannel(p) ==
  /\ At(p, "unclose")
  /\ closeChannel' = 0
  /\ Goto(p, "closews")
  /\ UNCHANGED <<h2, ws, cancelFunc, sendChannel, closeHandler, connectLock, conns,
                 queues, reg, hand, err, hist>>

\* transport.Close(): if ws != nil { ...
CheckWs(p) ==
  /\ At(p, "closews")
  /\ Loads(p, ws)
  /\ Goto(p, IF ws = 0 THEN "unsend" ELSE "shutws")
  /\ UNCHANGED <<fields, connectLock, conns, queues, hand, err, hist>>

\* ... ws.Close(), which follows the pointer (resp.Body.Close() in HTTP/2).
CloseWs(p) ==
  /\ At(p, "shutws")
  /\ \E e \in MayUse(p, ws) :
       \/ /\ e # 0
          /\ link' = [link EXCEPT ![e] = "closed"]
          /\ Goto(p, "unws")
          /\ UNCHANGED panicked
       \/ /\ e = 0
          /\ panicked' = TRUE
          /\ UNCHANGED <<link, pc>>
  /\ UNCHANGED <<fields, connectLock, dialed, lost, canceled, rootCanceled,
                 queues, reg, hand, err, written>>

ClearWs(p) ==
  /\ At(p, "unws")
  /\ ws' = 0
  /\ Goto(p, IF transport = "h2" THEN "unwriter" ELSE "unsend")
  /\ UNCHANGED <<h2, cancelFunc, sendChannel, closeChannel, closeHandler,
                 connectLock, conns, queues, reg, hand, err, hist>>

\* Mutant: the decoder goes the way of the writer.
ClearBothEnds(p) ==
  /\ At(p, "unwriter")
  /\ writer' = 0 /\ decoder' = 0
  /\ Goto(p, "unsend")
  /\ UNCHANGED <<transport, ws, cancelFunc, sendChannel, closeChannel,
                 closeHandler, connectLock, conns, queues, reg, hand, err, hist>>

\* The decoder stays.
ClearWriter(p) ==
  /\ At(p, "unwriter")
  /\ writer' = 0
  /\ Goto(p, "unsend")
  /\ UNCHANGED <<transport, decoder, ws, cancelFunc, sendChannel, closeChannel,
                 closeHandler, connectLock, conns, queues, reg, hand, err, hist>>

\* The end of Reset; handleError goes on to the close handler.
ClearSendChannel(p) ==
  /\ At(p, "unsend")
  /\ sendChannel' = 0
  /\ Goto(p, IF err[p] = "error" THEN "handler" ELSE "done")
  /\ UNCHANGED <<h2, ws, cancelFunc, closeChannel, closeHandler, connectLock,
                 conns, queues, reg, hand, err, hist>>

CallCloseHandler(p) ==
  /\ At(p, "handler")
  /\ Goto(p, IF closeHandler THEN "unhandler" ELSE "done")
  /\ UNCHANGED <<fields, connectLock, conns, queues, reg, hand, err, hist>>

ClearCloseHandler(p) ==
  /\ At(p, "unhandler")
  /\ closeHandler' = FALSE
  /\ Goto(p, "done")
  /\ UNCHANGED <<h2, ws, cancelFunc, sendChannel, closeChannel, connectLock, conns,
                 queues, reg, hand, err, hist>>

Reset(p) == \/ Close(p) \/ CheckCancelFunc(p) \/ CallCancelFunc(p) \/ ClearCancelFunc(p)
            \/ CheckCloseChannel(p) \/ LoadCloseChannel(p) \/ SendClose(p)
            \/ ClearCloseChannel(p) \/ CheckWs(p) \/ CloseWs(p) \/ ClearWs(p)
            \/ ClearWriter(p) \/ ClearSendChannel(p) \/ CallCloseHandler(p) \/ ClearCloseHandler(p)

-----------------------------------------------------------------------------
(* sendLoop.                                                               *)

SendLoopCheck(p) ==
  /\ At(p, "scheck")
  /\ Goto(p, IF ws = 0 THEN "done" ELSE "sselect")
  /\ UNCHANGED <<fields, connectLock, conns, queues, reg, hand, err, hist>>

\* The select statement evaluates the field and then waits on its value.
Select(p) ==
  /\ At(p, "sselect")
  /\ Loads(p, sendChannel)
  /\ Goto(p, "srecv")
  /\ UNCHANGED <<fields, connectLock, conns, queues, hand, err, hist>>

\* Mutant: sendLoop stops without closing.
SelectDoneReturns(e) ==
  /\ At(SendLoop(e), "srecv")
  /\ e \in canceled
  /\ Goto(SendLoop(e), "done")
  /\ UNCHANGED <<fields, connectLock, conns, queues, reg, hand, err, hist>>

\* case <-ctx.Done()
SelectDone(e) ==
  /\ At(SendLoop(e), "srecv")
  /\ e \in canceled
  /\ Goto(SendLoop(e), "closecheck")
  /\ UNCHANGED <<fields, connectLock, conns, queues, reg, hand, err, hist>>

\* Mutant: the message is looked at, not taken.
SelectKeepsMessage(p) ==
  /\ At(p, "srecv")
  /\ reg[p] # 0
  /\ sendQueue[reg[p]] # <<>>
  /\ hand' = [hand EXCEPT ![p] = <<Head(sendQueue[reg[p]])>>]
  /\ Goto(p, "srecheck")
  /\ UNCHANGED <<fields, connectLock, conns, queues, reg, err, hist>>

\* case msg, ok := <-self.sendChannel (which nobody ever closes)
SelectMessage(p) ==
  /\ At(p, "srecv")
  /\ reg[p] # 0
  /\ sendQueue[reg[p]] # <<>>
  /\ hand' = [hand EXCEPT ![p] = <<Head(sendQueue[reg[p]])>>]
  /\ sendQueue' = [sendQueue EXCEPT ![reg[p]] = Tail(@)]
  /\ Goto(p, "srecheck")
  /\ UNCHANGED <<fields, connectLock, conns, closeQueue, reg, err, hist>>

SendLoopRecheck(p) ==
  /\ At(p, "srecheck")
  /\ Goto(p, IF ws = 0 THEN "done" ELSE "sload")
  /\ UNCHANGED <<fields, connectLock, conns, queues, reg, hand, err, hist>>

\* The field a message is written to, or read from.
WriteEnd == IF transport = "h2" THEN writer ELSE ws
ReadEnd  == IF transport = "h2" THEN decoder ELSE ws

\* WriteMessage and ReadMessage use their field without a look at it.
Use(p, field, label) ==
  /\ \/ field # 0 /\ Loads(p, field) /\ Goto(p, label) /\ UNCHANGED panicked
     \/ field = 0 /\ panicked' = TRUE /\ UNCHANGED <<reg, pc>>
  /\ UNCHANGED <<fields, connectLock, conns, queues, hand, err, written>>

\* A message that cannot be marshaled never gets to the connection.
MayBeOpaque(p) == hand[p] # <<>> /\ UserOp[Head(hand[p])] = "any"

SendLoopLoad(p) == At(p, "sload") /\ Use(p, WriteEnd, "swrite")

Broken(e) == e \in lost \/ link[e] = "closed"

\* A write returns when the other side takes the message, which it need not ever do:
\* there is no deadline.  On a connection whose loss has not been noticed yet it may
\* succeed.
WriteMessage(p) ==
  /\ At(p, "swrite")
  /\ link[reg[p]] = "open"
  /\ written' = Append(written, [msg |-> Head(hand[p]), on |-> reg[p]])
  /\ hand' = [hand EXCEPT ![p] = <<>>]
  /\ Goto(p, "scheck")
  /\ UNCHANGED <<fields, connectLock, conns, queues, reg, err, panicked>>

HandleError(p) ==
  /\ err' = [err EXCEPT ![p] = "error"]
  /\ Goto(p, "cancel")
  /\ UNCHANGED <<fields, connectLock, conns, queues, reg, hand, hist>>

\* Mutant: the loop just ends.
FailsQuietly(p) ==
  /\ Broken(reg[p])
  /\ Goto(p, "done")
  /\ UNCHANGED <<fields, connectLock, conns, queues, reg, hand, err, hist>>

\* Mutant: anything unusual on a healthy connection is an error.
FailsAnyTime(p) == HandleError(p)

\* A read or a write returns an error.
Fails(p) == Broken(reg[p]) /\ HandleError(p)

MarshalFails(p) == At(p, "sload") /\ MayBeOpaque(p) /\ HandleError(p)

WriteFails(p) == At(p, "swrite") /\ Fails(p)

(* recvLoop.  What it does with a message is in StreamingCalls.            *)

RecvLoopCheck(p) ==
  /\ At(p, "vcheck")
  /\ Goto(p, IF ws = 0 THEN "done" ELSE "vload")
  /\ UNCHANGED <<fields, connectLock, conns, queues, reg, hand, err, hist>>

RecvLoopLoad(p) == At(p, "vload") /\ Use(p, ReadEnd, "vread")

ReadFails(p) == At(p, "vread") /\ Fails(p)

ReadMessage(p) ==
  /\ At(p, "vread")
  /\ ~Broken(reg[p])
  /\ Goto(p, "vcheck")
  /\ UNCHANGED <<fields, connectLock, conns, queues, reg, hand, err, hist>>

\* All that sendLoop does but for a write that succeeds.
SendLoopRuns(e) == LET p == SendLoop(e) IN
  \/ SendLoopCheck(p) \/ Select(p) \/ SelectDone(e) \/ SelectMessage(p)
  \/ SendLoopRecheck(p) \/ SendLoopLoad(p) \/ WriteFails(p) \/ MarshalFails(p)

SendLoopStep(e) == SendLoopRuns(e) \/ WriteMessage(SendLoop(e))

RecvLoopStep(e) == LET p == RecvLoop(e) IN
  RecvLoopCheck(p) \/ RecvLoopLoad(p) \/ ReadFails(p)

-----------------------------------------------------------------------------
(* The network, the server and the caller's context.                       *)

Lose(e) ==
  /\ e <= MaxLosses
  /\ link[e] = "open" /\ e \notin lost
  /\ lost' = lost \cup {e}
  /\ UNCHANGED <<fields, connectLock, dialed, link, canceled, rootCanceled,
                 queues, pc, reg, hand, err, hist>>

CancelRoot(e) ==
  /\ MayCancel
  /\ link[e] = "open" /\ e \notin canceled
  /\ canceled' = canceled \cup {e}
  /\ rootCanceled' = rootCanceled \cup {e}
  /\ UNCHANGED <<fields, connectLock, dialed, link, lost, queues, pc, reg,
                 hand, err, hist>>

\* A panic in any goroutine ends the program.
Next == /\ ~panicked
        /\ \/ \E u \in Users : User(u)
           \/ \E p \in Procs : Reset(p)
           \/ \E e \in Conns : \/ SendLoopStep(e) \/ RecvLoopStep(e)
                               \/ ReadMessage(RecvLoop(e))
           \/ \E e \in Conns : Lose(e) \/ CancelRoot(e)

Spec == Init /\ [][Next]_vars

(* Every goroutine that can run does.  Messages need not arrive, nor a     *)
(* write on a healthy connection return, nor connections break, nor        *)
(* contexts be canceled.                                                   *)
Running(A) == ~panicked /\ A
where == <<pc, panicked>> \* which every step of a goroutine changes
Fairness ==
  /\ \A u \in Users : WF_where(Running(User(u) \/ Reset(u)))
  /\ \A e \in Conns :
       /\ WF_where(Running(SendLoopRuns(e) \/ Reset(SendLoop(e))))
       /\ WF_where(Running(RecvLoopStep(e) \/ Reset(RecvLoop(e))))

FairSpec == Spec /\ Fairness

-----------------------------------------------------------------------------
(* Properties.                                                             *)

\* connectLock does what it is for: a connection that is up is never replaced
\* by a new one, however many users connect at once and however many Resets
\* clear the field meanwhile.
NeverReplaced == ws' # ws => ws = 0 \/ ws' = 0
DialOnlyWhenDown == [][NeverReplaced]_vars

\* However many loops drain a channel, on however many connections, no message
\* is written twice, nor one that is still queued or in a loop's hand.
WrittenOnce ==
  /\ \A i, j \in 1 .. Len(written) : i # j => written[i].msg # written[j].msg
  /\ \A i \in 1 .. Len(written) :
       /\ \A e \in Conns : \A k \in 1 .. Len(sendQueue[e]) : sendQueue[e][k] # written[i].msg
       /\ \A p \in SendLoops : hand[p] # <<written[i].msg>>

\* "send channel to write messsage sequencially": the second connection is written
\* to by its own sendLoop, and by that of the first only if its context has been
\* canceled (select may still choose the message), unless a user called Close.
StrayLoopCanceled ==
  \A e \in Conns : pc[SendLoop(e)] = "swrite" /\ reg[SendLoop(e)] # e =>
    \/ e \in canceled
    \/ \E u \in Users : UserOp[u] = "any" /\ pc[u] # "start"
    \/ dialed > 2

\* A connection the network broke is let go of, so that the next call dials a
\* new one; no race of the two loops' Resets leaves it in place.
LostReleased == \A e \in Conns : (e \in lost) ~> (ws # e \/ panicked)

\* When the context of a connection is canceled the connection is closed; unless its
\* sendLoop, which alone waits for that, is in a write that never returns.
CancelCloses ==
  \A e \in Conns : \/ (e \in canceled) ~> (link[e] = "closed" \/ panicked)
                  \/ <>[](pc[SendLoop(e)] = "swrite" /\ link[e] = "open")

\* The HTTP/2 transport's Close does not clear the decoder ("//self.decoder = nil"):
\* a recvLoop that found itself connected always has one to read from, whatever
\* Resets run before it gets there.  (The writer it clears, even that of the next
\* connection: a sendLoop may then write to nil.)
DecoderKept ==
  transport = "h2" => \A p \in RecvLoops : pc[p] = "vload" => decoder # 0

\* Reset has gone past the close channel of a connection that is still being set up,
\* and has none yet: nobody will be told.
ClosedInSetUp ==
  /\ \E u \in Users : pc[u] \in {"setdecoder", "setcancel", "setsend", "setclose"}
  /\ \E p \in Procs : pc[p] = "closews"

\* "wait connection close and return error": whoever waits on a connection's
\* close channel is released once the connection is closed, by a user's Close, a
\* loss, a message that cannot be marshaled or a cancel; unless Reset ran while
\* the connection was being set up.
WaitReturns ==
  \/ <>ClosedInSetUp
  \/ \A u \in Users : \A e \in Conns :
       (pc[u] = "waitrecv" /\ reg[u] = e /\ link[e] = "closed")
         ~> (pc[u] = "done" \/ panicked)

\* "... and return error": if the connection broke and nobody closed it, Wait
\* does not return nil as after a deliberate Close (cli/watch connects again
\* only if it gets the error).
WaitReportsLoss ==
  \A u \in Users : UserOp[u] = "watch" /\ pc[u] = "done" /\ reg[u] # 0 /\ rootCanceled = {}
                   => err[u] = "error"

\* The connection's context is canceled, and the connection closed, only if the
\* connection broke, a user called Close, the caller's context was canceled, a
\* message could not be marshaled or the loops of an earlier one were about.
DeliberateClose ==
  \A e \in Conns : link[e] = "closed" =>
    \/ e \in lost \cup rootCanceled
    \/ \E u \in Users : UserOp[u] = "any" /\ pc[u] # "start"
    \/ dialed > 1
=============================================================================
