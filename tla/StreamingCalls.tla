--------------------------- MODULE StreamingCalls ---------------------------
(***************************************************************************)
(* How StreamingClient (http/streaming_client.go) matches answers to       *)
(* calls.  Every caller goroutine runs request: it registers a             *)
(* pendingRequest under the id it sends, puts the message on sendChannel,  *)
(* starts a timer and blocks on its resultChannel.  The receive loop       *)
(* (handleResult) and the timers (expire) race to take the pendingRequest  *)
(* out again.                                                              *)
(*                                                                         *)
(* Each access to shared state is one action.  The connection is here only *)
(* what request can see of it: whether the transport is connected and      *)
(* which channel the field sendChannel holds.  Its own life cycle, with    *)
(* the loops and the fields one by one, is module StreamingConn.           *)
(***************************************************************************)
EXTENDS Integers, Sequences, FiniteSets

CONSTANTS
  Calls,       \* the calls made to request, each one goroutine step sequence
  NoCall,      \* the empty slot of pendingRequests
  IdValues,    \* the values message ids can have
  ReqId,       \* ReqId[c]: the id the caller of c chose (reqmsg.Id)
  Uuid,        \* Uuid[c]: what NewUuid() returns if c asks for one
  Follows,     \* Follows[c]: the call c's goroutine made before c, or NoCall
  SendCap,     \* capacity of a sendChannel (100 in the code)
  MaxConns,    \* bound: connections dialed
  MaxLosses,   \* bound: connections numbered up to MaxLosses may be lost
  Pushes,      \* bound: messages the server sends on its own
  HasMessageHandler \* whether OnMessage was called

\* A message id is an interface{} in Go: equality is of type and value.
MessageId == [type : {"int", "int64", "string"}, val : IdValues]

ASSUME CallsAssumption == NoCall \notin Calls /\ Calls \cap Pushes = {}
ASSUME IdAssumption ==
  /\ ReqId \in [Calls -> MessageId]
  /\ Uuid \in [Calls -> MessageId]
  /\ Follows \in [Calls -> Calls \cup {NoCall}]
ASSUME BoundAssumption ==
  /\ SendCap \in Nat \ {0}
  /\ MaxConns \in Nat \ {0}
  /\ MaxLosses \in Nat
  /\ HasMessageHandler \in BOOLEAN
\* NewUuid: random strings that meet no other id in use.
ASSUME UuidAssumption ==
  \A c, d \in Calls : /\ Uuid[c].type = "string"
                      /\ Uuid[c] # ReqId[d]
                      /\ c # d => Uuid[c] # Uuid[d]

VARIABLES
  pc,              \* pc[c]: how far the goroutine of call c is in request
  sendId,          \* sendId[c]: sendmsg.Id
  pendingRequests, \* pendingRequests[k]: the call registered under id k
  connected,       \* number of the live connection, 0: ws is nil
  dialed,          \* connections dialed so far
  sendChannel,     \* number of the channel the field holds, 0: nil
  clearing,        \* Resets between transport.Close() and sendChannel = nil
  queue,           \* queue[e]: the messages in the e-th sendChannel
  channelOf,       \* channelOf[c]: the channel Send evaluated for c, 0: nil
  writing,         \* writes under way: call, by which loop, on which connection
  atServer,        \* requests the server has read: call and connection
  served,          \* the calls the server has executed
  replies,         \* the calls whose reply is on its way to recvLoop
  pushes,          \* unsolicited messages on their way to recvLoop
  resultChannel,   \* resultChannel[c]: all that was ever put on c's channel
  timer,           \* timer[c]: the goroutine running expire for c
  handled          \* what messageHandler was given

conn  == <<connected, dialed, sendChannel, clearing>>
net   == <<writing, atServer, served, replies, pushes>>
vars  == <<pc, sendId, pendingRequests, conn, queue, channelOf, net,
           resultChannel, timer, handled>>

Conns == 1 .. MaxConns

\* parse.go, decodeId: whatever integer type was encoded, an int comes back.
DecodeId(id) == IF id.type = "string" THEN id ELSE [id EXCEPT !.type = "int"]

Result == [kind : {"reply", "timeout"}, id : MessageId, of : Calls]

TypeOK ==
  /\ pc \in [Calls -> {"idle", "load", "store", "connect", "eval", "enqueue",
                       "recv", "returned", "failed"}]
  /\ sendId \in [Calls -> MessageId]
  /\ pendingRequests \in [MessageId -> Calls \cup {NoCall}]
  /\ connected \in 0 .. MaxConns /\ dialed \in 0 .. MaxConns
  /\ sendChannel \in 0 .. MaxConns /\ clearing \in Nat
  /\ queue \in [Conns -> Seq(Calls)]
  /\ channelOf \in [Calls -> 0 .. MaxConns]
  /\ writing \subseteq [call : Calls, by : Conns, on : Conns]
  /\ atServer \subseteq [call : Calls, on : Conns]
  /\ served \subseteq Calls /\ replies \subseteq Calls
  /\ pushes \subseteq Pushes
  /\ resultChannel \in [Calls -> Seq(Result)]
  /\ timer \in [Calls -> {"off", "armed", "fired"}]
  /\ handled \subseteq Calls \cup Pushes

Init ==
  /\ pc = [c \in Calls |-> "idle"]
  /\ sendId = ReqId
  /\ pendingRequests = [k \in MessageId |-> NoCall]
  /\ connected = 0 /\ dialed = 0 /\ sendChannel = 0 /\ clearing = 0
  /\ queue = [e \in Conns |-> <<>>]
  /\ channelOf = [c \in Calls |-> 0]
  /\ writing = {} /\ atServer = {} /\ served = {} /\ replies = {} /\ pushes = {}
  /\ resultChannel = [c \in Calls |-> <<>>]
  /\ timer = [c \in Calls |-> "off"]
  /\ handled = {}

Goto(c, label) == pc' = [pc EXCEPT ![c] = label]

-----------------------------------------------------------------------------
(* The pendingRequests map (a sync.Map) and what is done with its entries.  *)
(* Operators whose comment begins with "Mutant" are plausible bugs of the  *)
(* definition that follows; no specification uses them.                    *)

\* Mutant: answers are matched to callers by arrival, not by id.
PendingOfAnyone(k) == LET all == {pendingRequests[i] : i \in MessageId} \ {NoCall}
                      IN  IF all = {} THEN NoCall ELSE CHOOSE c \in all : TRUE

Pending(k) == pendingRequests[k]

\* Mutant: Load where LoadAndDelete is needed.
Load(k) == UNCHANGED pendingRequests

LoadAndDelete(k) == pendingRequests' = [pendingRequests EXCEPT ![k] = NoCall]

\* Mutant: the timeout message is made but not sent to the caller.
DeliverRepliesOnly(p, kind, c) ==
  resultChannel' = IF kind = "timeout" THEN resultChannel
    ELSE [resultChannel EXCEPT ![p] = Append(@, [kind |-> kind, id |-> ReqId[p], of |-> c])]

\* Mutant: ReplaceId is left out.
DeliverUnderSendId(p, kind, c) ==
  resultChannel' = [resultChannel EXCEPT ![p] =
                      Append(@, [kind |-> kind, id |-> sendId[p], of |-> c])]

\* The caller's own id is on the message: ReplaceId for a reply, ToMessage for
\* the timeout.
Deliver(p, kind, c) ==
  resultChannel' = [resultChannel EXCEPT ![p] =
                      Append(@, [kind |-> kind, id |-> ReqId[p], of |-> c])]

\* Mutant: request does not start the timer.
NoExpire(c) == UNCHANGED timer

StartExpire(c) == timer' = [timer EXCEPT ![c] = "armed"]

-----------------------------------------------------------------------------
(* Connect: under connectLock; dials only when the transport is not        *)
(* connected, and every dial brings a fresh sendChannel.                   *)

Connect ==
  \/ connected # 0 /\ UNCHANGED conn
  \/ /\ connected = 0
     /\ dialed < MaxConns
     /\ dialed' = dialed + 1
     /\ connected' = dialed + 1
     /\ sendChannel' = dialed + 1
     /\ UNCHANGED clearing

ConnectFails == connected = 0 /\ UNCHANGED conn

(* request, one action per shared access. *)

RequestConnect(c) ==
  /\ pc[c] = "idle"
  /\ Follows[c] # NoCall => pc[Follows[c]] \in {"returned", "failed"}
  /\ \/ Connect /\ Goto(c, "load")
     \/ ConnectFails /\ Goto(c, "failed")
  /\ UNCHANGED <<sendId, pendingRequests, queue, channelOf, net,
                 resultChannel, timer, handled>>

\* The id is cloned to a uuid if some call has it registered right now.
LoadPending(c) ==
  /\ pc[c] = "load"
  /\ sendId' = [sendId EXCEPT ![c] = IF Pending(ReqId[c]) # NoCall
                                     THEN Uuid[c] ELSE ReqId[c]]
  /\ Goto(c, "store")
  /\ UNCHANGED <<pendingRequests, conn, queue, channelOf, net,
                 resultChannel, timer, handled>>

\* Store overwrites whatever was registered since the Load.
StorePending(c) ==
  /\ pc[c] = "store"
  /\ pendingRequests' = [pendingRequests EXCEPT ![sendId[c]] = c]
  /\ Goto(c, "connect")
  /\ UNCHANGED <<sendId, conn, queue, channelOf, net, resultChannel, timer,
                 handled>>

\* Send: Connect again; when it fails the pendingRequest stays registered.
SendConnect(c) ==
  /\ pc[c] = "connect"
  /\ \/ Connect /\ Goto(c, "eval")
     \/ ConnectFails /\ Goto(c, "failed")
  /\ UNCHANGED <<sendId, pendingRequests, queue, channelOf, net,
                 resultChannel, timer, handled>>

\* Send: the field is read before the goroutine blocks on the channel.
EvalSendChannel(c) ==
  /\ pc[c] = "eval"
  /\ channelOf' = [channelOf EXCEPT ![c] = sendChannel]
  /\ Goto(c, "enqueue")
  /\ UNCHANGED <<sendId, pendingRequests, conn, queue, net, resultChannel,
                 timer, handled>>

\* A nil channel blocks for ever, a full one until sendLoop takes a message.
\* Starting the timer is the goroutine's own next step and touches nothing
\* another goroutine reads.
Enqueue(c) ==
  /\ pc[c] = "enqueue"
  /\ channelOf[c] # 0
  /\ Len(queue[channelOf[c]]) < SendCap
  /\ queue' = [queue EXCEPT ![channelOf[c]] = Append(@, c)]
  /\ StartExpire(c)
  /\ Goto(c, "recv")
  /\ UNCHANGED <<sendId, pendingRequests, conn, channelOf, net,
                 resultChannel, handled>>

Return(c) ==
  /\ pc[c] = "recv"
  /\ resultChannel[c] # <<>>
  /\ Goto(c, "returned")
  /\ UNCHANGED <<sendId, pendingRequests, conn, queue, channelOf, net,
                 resultChannel, timer, handled>>

-----------------------------------------------------------------------------
(* sendLoop takes the head of the channel it is selecting on, looks at     *)
(* Connected and writes, on whatever connection the transport now has; the *)
(* loop of an earlier connection may be selecting on its own channel or on *)
(* a later one.  While it writes it takes nothing else.                    *)
Take(l, e) ==
  /\ l <= e /\ e <= dialed
  /\ \A w \in writing : w.by # l
  /\ queue[e] # <<>>
  /\ queue' = [queue EXCEPT ![e] = Tail(@)]
  /\ writing' = writing \cup (IF connected = 0 THEN {}
       ELSE {[call |-> Head(queue[e]), by |-> l, on |-> connected]})
  /\ UNCHANGED <<pc, sendId, pendingRequests, conn, channelOf, atServer, served,
                 replies, pushes, resultChannel, timer, handled>>

(* The write returns when the server has read the message, or with an      *)
(* error when the connection has been closed.  It has no deadline: while   *)
(* the server does not read, it does not return.                           *)
Write(w) ==
  /\ w \in writing
  /\ writing' = writing \ {w}
  /\ atServer' = IF w.on = connected
                 THEN atServer \cup {[call |-> w.call, on |-> w.on]} ELSE atServer
  /\ UNCHANGED <<pc, sendId, pendingRequests, conn, queue, channelOf, served,
                 replies, pushes, resultChannel, timer, handled>>

(* The server answers what it reads in any order, or never; an answer for  *)
(* a connection that is gone goes nowhere.                                 *)
ServerReply(m) ==
  /\ m \in atServer
  /\ atServer' = atServer \ {m}
  /\ served' = served \cup {m.call}
  /\ replies' = IF m.on = connected THEN replies \cup {m.call} ELSE replies
  /\ UNCHANGED <<pc, sendId, pendingRequests, conn, queue, channelOf, writing,
                 pushes, resultChannel, timer, handled>>

ServerPush(p) ==
  /\ connected # 0
  /\ p \notin pushes \cup handled
  /\ pushes' = pushes \cup {p}
  /\ UNCHANGED <<pc, sendId, pendingRequests, conn, queue, channelOf, writing,
                 atServer, served, replies, resultChannel, timer, handled>>

ToHandler(m) == handled' = IF HasMessageHandler THEN handled \cup {m} ELSE handled

\* recvLoop and handleResult: LoadAndDelete by the id that came back, and the
\* caller's own id is put on the message.
HandleResult(c) ==
  LET k == DecodeId(sendId[c])
      p == Pending(k)
  IN  /\ c \in replies
      /\ replies' = replies \ {c}
      /\ \/ /\ p = NoCall
            /\ ToHandler(c)
            /\ UNCHANGED <<pendingRequests, resultChannel>>
         \/ /\ p # NoCall
            /\ LoadAndDelete(k)
            /\ Deliver(p, "reply", c)
            /\ UNCHANGED handled
      /\ UNCHANGED <<pc, sendId, conn, queue, channelOf, writing, atServer,
                     served, pushes, timer>>

\* recvLoop: what is not a result goes to the message handler.
HandlePush(p) ==
  /\ p \in pushes
  /\ pushes' = pushes \ {p}
  /\ ToHandler(p)
  /\ UNCHANGED <<pc, sendId, pendingRequests, conn, queue, channelOf, writing,
                 atServer, served, replies, resultChannel, timer>>

\* expire: whoever is registered under the id when the timer fires.
Expire(c) ==
  LET k == sendId[c]
      p == Pending(k)
  IN  /\ timer[c] = "armed"
      /\ timer' = [timer EXCEPT ![c] = "fired"]
      /\ \/ /\ p = NoCall
            /\ UNCHANGED <<pendingRequests, resultChannel>>
         \/ /\ p # NoCall
            /\ LoadAndDelete(k)
            /\ Deliver(p, "timeout", c)
      /\ UNCHANGED <<pc, sendId, conn, queue, channelOf, net, handled>>

(* Reset, from the caller's side: transport.Close() and then, a step later *)
(* and without connectLock, sendChannel = nil.  What was still to be read  *)
(* is lost, but for the one message recvLoop may have in hand.             *)
TransportClose ==
  /\ connected # 0
  /\ connected <= MaxLosses
  /\ connected' = 0
  /\ clearing' = clearing + 1
  /\ \E held \in SUBSET (replies \cup pushes) :
       /\ Cardinality(held) <= 1
       /\ replies' = replies \cap held
       /\ pushes' = pushes \cap held
  /\ UNCHANGED <<pc, sendId, pendingRequests, dialed, sendChannel, queue,
                 channelOf, writing, atServer, served, resultChannel, timer, handled>>

ClearSendChannel ==
  /\ clearing > 0
  /\ clearing' = clearing - 1
  /\ sendChannel' = 0
  /\ UNCHANGED <<pc, sendId, pendingRequests, connected, dialed, queue,
                 channelOf, net, resultChannel, timer, handled>>

-----------------------------------------------------------------------------
Request(c) == \/ RequestConnect(c) \/ LoadPending(c) \/ StorePending(c)
              \/ SendConnect(c) \/ EvalSendChannel(c) \/ Enqueue(c) \/ Return(c)

Next == \/ \E c \in Calls : Request(c) \/ HandleResult(c) \/ Expire(c)
        \/ \E l, e \in Conns : Take(l, e)
        \/ \E w \in writing : Write(w)
        \/ \E m \in atServer : ServerReply(m)
        \/ \E p \in Pushes : ServerPush(p) \/ HandlePush(p)
        \/ TransportClose \/ ClearSendChannel

Spec == Init /\ [][Next]_vars

(* Goroutines that can run do run, timers fire, a connected sendLoop takes *)
(* what is in its channel.  Nothing is assumed of the server or the        *)
(* network: the server may never answer, nor even read, so that a write    *)
(* need not return.                                                        *)
Fairness ==
  /\ \A c \in Calls : WF_vars(Request(c)) /\ WF_vars(Expire(c))
  /\ \A e \in Conns : WF_vars(connected = e /\ Take(e, e))

FairSpec == Spec /\ Fairness

-----------------------------------------------------------------------------
(* Conditions on the ids callers choose.                                   *)

\* No two calls put the same id on the wire.
DistinctIds == \A c, d \in Calls : c # d => DecodeId(ReqId[c]) # DecodeId(ReqId[d])

\* Ids come back as they were sent: none is an int64.
CanonicalIds == \A c \in Calls : DecodeId(ReqId[c]) = ReqId[c]

(* Properties.                                                             *)

\* handleResult and expire race for a pendingRequest and either may find the
\* entry of another call: still no call is ever handed two messages, so
\* neither goroutine can block on a resultChannel (capacity 10).
AtMostOneResult == \A c \in Calls : Len(resultChannel[c]) <= 1

\* Whatever ids the callers choose, and whatever they race: what a call is
\* handed carries the caller's own id, and comes from a request that went out
\* under the id this call is registered with (a reply) or from the timer of
\* such a request (a timeout).
AnswerMatchesWireId ==
  \A c \in Calls : \A i \in 1 .. Len(resultChannel[c]) :
    LET r == resultChannel[c][i] IN
    /\ r.id = ReqId[c]
    /\ r.kind = "reply" => /\ DecodeId(sendId[r.of]) = sendId[c]
                           /\ r.of \in served
    /\ r.kind = "timeout" => /\ sendId[r.of] = sendId[c]
                             /\ timer[r.of] = "fired"

\* A call is handed the answer to its own request or its own timeout, never
\* that of another call of the same client.
OwnAnswer == \A c \in Calls : \A i \in 1 .. Len(resultChannel[c]) :
               resultChannel[c][i].of = c

\* With canonical ids, an answer reaches the message handler instead of the
\* call it belongs to only after that call has been timed out.
LateRepliesOnly ==
  \A c \in Calls \cap handled :
    resultChannel[c] # <<>> /\ resultChannel[c][1].kind = "timeout"

\* Client.Call: every call comes back, with a message or an error ...
CallReturns == \A c \in Calls : <>(pc[c] \in {"returned", "failed"})

\* ... but for the two places where it waits without a timer of its own.

\* Waiting to put its message on a sendChannel: on the nil one a Reset left, or on
\* a full one whose loop is stuck in a write, or is that of a connection that is
\* gone.
StuckSending(c) ==
  LET e == channelOf[c]
  IN  /\ pc[c] = "enqueue"
      /\ e # 0 => /\ Len(queue[e]) = SendCap
                  /\ e # connected \/ \E w \in writing : w.by = e

\* Waiting for an answer after another call has stored its own pendingRequest under
\* the id this one sent: the timer of either finds only the other's.
Overwritten(c) ==
  /\ pc[c] = "recv" /\ resultChannel[c] = <<>>
  /\ pendingRequests[sendId[c]] # c
  /\ \E d \in Calls \ {c} : /\ sendId[d] = sendId[c]
                            /\ pc[d] \notin {"idle", "load", "store"}

\* Whatever the ids, a call comes back unless it stays in one of these two places
\* for ever.  In particular once its message is in the channel it comes back
\* whatever becomes of the connection and the server, if its id is its own: its
\* timer is running and nobody takes its entry away without handing it a message.
CallReturnsUnlessStuck ==
  \A c \in Calls : \/ <>(pc[c] \in {"returned", "failed"})
                   \/ <>[]StuckSending(c)
                   \/ <>[]Overwritten(c)

\* Each call behaves as an abstract remote call that settles at most once, and
\* with an answer only if the server served it.
Phase(c) ==
  IF resultChannel[c] # <<>>
  THEN IF resultChannel[c][1].kind = "reply" THEN "answered" ELSE "timedout"
  ELSE IF pc[c] \in {"idle", "failed"} THEN pc[c] ELSE "busy"

Abstract == INSTANCE RpcCalls WITH phase <- [c \in Calls |-> Phase(c)]

ImplementsRpcCalls == Abstract!Spec
=============================================================================
