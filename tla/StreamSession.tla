---------------------------- MODULE StreamSession ----------------------------
(***************************************************************************)
(* One streaming session of the server: WSHandler and WSSession            *)
(* (http/ws_server.go) or H2Handler and H2Session (http/h2_server.go).     *)
(*                                                                         *)
(* Four kinds of goroutines share a session: ServeHTTP, which waits for a  *)
(* reason to end it and then runs the deferred calls; recvLoop; sendLoop;  *)
(* and one goroutine for every message received, or recvLoop itself when   *)
(* SpawnGoroutine is off.  They meet in the channels done and sendChannel, *)
(* in the request's context and, in a WSSession, in the field server.      *)
(***************************************************************************)
EXTENDS Integers, Sequences, FiniteSets

CONSTANTS
  Messages,  \* the messages the client may send
  Configs,   \* the handlers and actors considered
  SendCap,   \* capacity of sendChannel (100 in the code)
  DoneCap    \* capacity of done (10 in the code)

\* request: answered; stream: answered after its callback has called Send;
\* opaque: answered with a result json cannot marshal; notify: no answer;
\* refused: Feed returns an error; bad: not a JSON-RPC message; binary: not a
\* text message.
Kinds == {"request", "stream", "opaque", "notify", "refused", "bad", "binary"}

Config == [transport : {"websocket", "http2"},
           spawn     : BOOLEAN,  \* the handler's option SpawnGoroutine
           kind      : [Messages -> Kinds]]

ASSUME SessionAssumption ==
  /\ SendCap \in Nat \ {0} /\ DoneCap \in Nat \ {0}
  /\ Configs \subseteq Config
  /\ \A c \in Configs : c.transport = "http2" =>
                           \A m \in Messages : c.kind[m] # "binary"

VARIABLES
  config,      \* which of Configs this is; it never changes
  sent,        \* what the client has sent, in order
  inbox,       \* what of it recvLoop has still to read
  peerClosed,  \* the client has closed its end
  rootDone,    \* the request's context (r.Context()) is done
  serverDone,  \* the server's context is done
  serve,       \* how far ServeHTTP is
  server,      \* whether the session's field server is set
  recvLoop,    \* how far recvLoop is
  received,    \* the message recvLoop read last: <<>> or <<m>>
  handler,     \* handler[m]: how far msgReceived (msgBytesReceived) is with m
  sendLoop,    \* how far sendLoop is
  hand,        \* the message sendLoop has taken: <<>> or <<o>>
  sendChannel, done, \* the channels (done: the number of errors in it)
  written,     \* what was written to the client, in order
  closeCalls,  \* times Actor.HandleClose was called for the session
  panicked     \* a panic nobody recovers has ended the program

client == <<sent, inbox, peerClosed>>
ctx    == <<rootDone, serverDone>>
main   == <<serve, server, closeCalls>>
recv   == <<recvLoop, received>>
send   == <<sendLoop, hand, written>>
chans  == <<sendChannel, done>>
vars   == <<config, client, ctx, main, recv, handler, send, chans, panicked>>

Transport == config.transport
SpawnGoroutine == config.spawn
Kind == config.kind

\* sendLoop writes answers and what callbacks Send.
Outgoing == [kind : {"answer", "push"}, of : Messages]
Answer(m) == [kind |-> "answer", of |-> m]
Push(m) == [kind |-> "push", of |-> m]

TypeOK ==
  /\ config \in Configs
  /\ sent \in Seq(Messages) /\ inbox \in Seq(Messages)
  /\ {peerClosed, rootDone, serverDone, server, panicked} \subseteq BOOLEAN
  /\ serve \in {"wait", "unset", "handleclose", "closews", "returned"}
  /\ recvLoop \in {"read", "dispatch", "inline", "fail", "ended"}
  /\ received \in Seq(Messages) /\ Len(received) <= 1
  /\ handler \in [Messages -> {"idle", "feed", "push", "running", "reply",
                               "fail", "ended"}]
  /\ sendLoop \in {"select", "write", "ended"}
  /\ hand \in Seq(Outgoing) /\ Len(hand) <= 1
  /\ sendChannel \in Seq(Outgoing) /\ Len(sendChannel) <= SendCap
  /\ done \in 0 .. DoneCap
  /\ written \in Seq(Outgoing)
  /\ closeCalls \in {0, 1}

Init ==
  /\ config \in Configs
  /\ sent = <<>> /\ inbox = <<>> /\ peerClosed = FALSE
  /\ rootDone = FALSE /\ serverDone = FALSE
  /\ serve = "wait" /\ server = TRUE
  /\ recvLoop = "read" /\ received = <<>>
  /\ handler = [m \in Messages |-> "idle"]
  /\ sendLoop = "select" /\ hand = <<>>
  /\ sendChannel = <<>> /\ done = 0
  /\ written = <<>> /\ closeCalls = 0 /\ panicked = FALSE

HandlerGoto(m, label) == handler' = [handler EXCEPT ![m] = label]

-----------------------------------------------------------------------------
(* ServeHTTP: wait, then what it has deferred.                             *)
(* Operators whose comment begins with "Mutant" are plausible bugs of the  *)
(* definition that follows; no specification uses them.                    *)

\* Mutant: wait listens to the client only.
WaitIgnoresServer ==
  /\ serve = "wait"
  /\ \/ rootDone /\ UNCHANGED done
     \/ done > 0 /\ done' = done - 1
  /\ serve' = IF Transport = "websocket" THEN "unset" ELSE "handleclose"
  /\ UNCHANGED <<client, ctx, server, closeCalls, recv, handler, send,
                 sendChannel, panicked>>

\* A select: any of the three that is ready.
WaitReturns ==
  /\ serve = "wait"
  /\ \/ (rootDone \/ serverDone) /\ UNCHANGED done
     \/ done > 0 /\ done' = done - 1
  /\ serve' = IF Transport = "websocket" THEN "unset" ELSE "handleclose"
  /\ UNCHANGED <<client, ctx, server, closeCalls, recv, handler, send,
                 sendChannel, panicked>>

\* session.server = nil
UnsetServer ==
  /\ serve = "unset"
  /\ server' = FALSE
  /\ serve' = "handleclose"
  /\ UNCHANGED <<client, ctx, closeCalls, recv, handler, send, chans, panicked>>

\* Mutant: the deferred call is made once more.
HandleCloseAgain ==
  /\ serve = "handleclose"
  /\ closeCalls' = closeCalls + 1
  /\ serve' = IF closeCalls > 0 THEN "returned" ELSE serve
  /\ UNCHANGED <<client, ctx, server, recv, handler, send, chans, panicked>>

\* Deferred: Actor.HandleClose, after r.Body.Close() when there is a body.
HandleClose ==
  /\ serve = "handleclose"
  /\ closeCalls' = closeCalls + 1
  /\ serve' = IF Transport = "websocket" THEN "closews" ELSE "returned"
  /\ UNCHANGED <<client, ctx, server, recv, handler, send, chans, panicked>>

\* Deferred: ws.Close().
CloseWs ==
  /\ serve = "closews"
  /\ serve' = "returned"
  /\ UNCHANGED <<client, ctx, server, closeCalls, recv, handler, send, chans,
                 panicked>>

ServeHTTP == WaitReturns \/ UnsetServer \/ HandleClose \/ CloseWs

-----------------------------------------------------------------------------
(* recvLoop.                                                               *)

\* A message that is not text is passed over; the decoder of an H2Session has
\* parsed the message, and one that is bad ends its loop.  What the reader has
\* in its buffer it still gives when the connection is closed.
Read ==
  /\ recvLoop = "read" /\ inbox # <<>>
  /\ inbox' = Tail(inbox)
  /\ LET m == Head(inbox) IN
       \/ Kind[m] = "binary" /\ UNCHANGED recv
       \/ /\ Kind[m] = "bad" /\ Transport = "http2"
          /\ recvLoop' = "fail" /\ UNCHANGED received
       \/ /\ Kind[m] # "binary" /\ ~(Kind[m] = "bad" /\ Transport = "http2")
          /\ recvLoop' = "dispatch" /\ received' = <<m>>
  /\ UNCHANGED <<sent, peerClosed, ctx, main, handler, send, chans, panicked>>

\* The end of the stream, or an error; what is still under way may be lost.
ReadFails ==
  /\ recvLoop = "read"
  /\ peerClosed \/ serve = "returned"
  /\ recvLoop' = "fail"
  /\ UNCHANGED <<client, ctx, main, received, handler, send, chans, panicked>>

\* self.server.SpawnGoroutine, and the call.  The read of the field server is
\* not synchronised with its clearing: once cleared it may be nil or not yet.
Dispatch ==
  /\ recvLoop = "dispatch"
  /\ \/ /\ ~server
        /\ panicked' = TRUE
        /\ UNCHANGED <<recvLoop, handler>>
     \/ /\ recvLoop' = IF SpawnGoroutine THEN "read" ELSE "inline"
        /\ HandlerGoto(received[1], "feed")
        /\ UNCHANGED panicked
  /\ UNCHANGED <<client, ctx, main, received, send, chans>>

\* Mutant: recvLoop does not wait for the call it made.
ReturnAnyTime ==
  /\ recvLoop = "inline"
  /\ recvLoop' = "read"
  /\ UNCHANGED <<client, ctx, main, received, handler, send, chans, panicked>>

InlineReturns ==
  /\ recvLoop = "inline"
  /\ handler[received[1]] = "ended"
  /\ recvLoop' = "read"
  /\ UNCHANGED <<client, ctx, main, received, handler, send, chans, panicked>>

\* self.done <- err, which blocks when done is full.
RecvLoopEnds ==
  /\ recvLoop = "fail"
  /\ done < DoneCap
  /\ done' = done + 1
  /\ recvLoop' = "ended"
  /\ UNCHANGED <<client, ctx, main, received, handler, send, sendChannel, panicked>>

RecvLoop == Read \/ ReadFails \/ Dispatch \/ InlineReturns \/ RecvLoopEnds

-----------------------------------------------------------------------------
(* msgBytesReceived (websocket, where the message is parsed here) and      *)
(* msgReceived (http2).                                                    *)

\* ParseBytes, and self.server.Actor before the call of Feed.
StartFeed(m) ==
  /\ handler[m] = "feed"
  /\ \/ Kind[m] = "bad" /\ HandlerGoto(m, "fail") /\ UNCHANGED panicked
     \/ Kind[m] # "bad" /\ ~server /\ panicked' = TRUE /\ UNCHANGED handler
     \/ /\ Kind[m] # "bad"
        /\ HandlerGoto(m, IF Kind[m] = "stream" THEN "push" ELSE "running")
        /\ UNCHANGED panicked
  /\ UNCHANGED <<client, ctx, main, recv, send, chans>>

\* Send: also of a session that has ended, and it blocks when nobody drains
\* the channel.
Send(o) == /\ Len(sendChannel) < SendCap
           /\ sendChannel' = Append(sendChannel, o)

\* The callback keeps the session and calls its Send.
CallbackSends(m) ==
  /\ handler[m] = "push"
  /\ Send(Push(m))
  /\ HandlerGoto(m, "running")
  /\ UNCHANGED <<client, ctx, main, recv, send, done, panicked>>

\* Mutant: a nil result ends the session as an error does.
NilResultFails(m) ==
  /\ handler[m] = "running"
  /\ HandlerGoto(m, IF Kind[m] \in {"refused", "notify"} THEN "fail" ELSE "reply")
  /\ UNCHANGED <<client, ctx, main, recv, send, chans, panicked>>

FeedReturns(m) ==
  /\ handler[m] = "running"
  /\ HandlerGoto(m, CASE Kind[m] = "refused" -> "fail"
                      [] Kind[m] = "notify"  -> "ended"
                      [] OTHER               -> "reply")
  /\ UNCHANGED <<client, ctx, main, recv, send, chans, panicked>>

Reply(m) ==
  /\ handler[m] = "reply"
  /\ Send(Answer(m))
  /\ HandlerGoto(m, "ended")
  /\ UNCHANGED <<client, ctx, main, recv, send, done, panicked>>

\* self.done <- err
Fail(m) ==
  /\ handler[m] = "fail"
  /\ done < DoneCap
  /\ done' = done + 1
  /\ HandlerGoto(m, "ended")
  /\ UNCHANGED <<client, ctx, main, recv, send, sendChannel, panicked>>

Handle(m) == \/ StartFeed(m) \/ CallbackSends(m) \/ FeedReturns(m)
             \/ Reply(m) \/ Fail(m)

-----------------------------------------------------------------------------
(* sendLoop.                                                               *)

SenderStops ==
  /\ sendLoop = "select"
  /\ rootDone
  /\ sendLoop' = "ended"
  /\ UNCHANGED <<client, ctx, main, recv, handler, hand, written, chans, panicked>>

\* Mutant: the message is looked at, not taken.
SenderPeeks ==
  /\ sendLoop = "select"
  /\ sendChannel # <<>>
  /\ hand' = <<Head(sendChannel)>>
  /\ sendLoop' = "write"
  /\ UNCHANGED <<client, ctx, main, recv, handler, written, chans, panicked>>

SenderTakes ==
  /\ sendLoop = "select"
  /\ sendChannel # <<>>
  /\ hand' = <<Head(sendChannel)>>
  /\ sendChannel' = Tail(sendChannel)
  /\ sendLoop' = "write"
  /\ UNCHANGED <<client, ctx, main, recv, handler, written, done, panicked>>

Encodable(o) == ~(o.kind = "answer" /\ Kind[o.of] = "opaque")

\* Mutant: sendLoop returns after the first message.
WriteAndEnd ==
  /\ sendLoop = "write"
  /\ Encodable(hand[1])
  /\ serve # "returned"
  /\ written' = written \o hand
  /\ hand' = <<>>
  /\ sendLoop' = "ended"
  /\ UNCHANGED <<client, ctx, main, recv, handler, chans, panicked>>

\* A write returns when the client takes the message, which it need not ever do:
\* there is no deadline.  One to a client that has just gone may still succeed.
Write ==
  /\ sendLoop = "write"
  /\ Encodable(hand[1])
  /\ serve # "returned"
  /\ written' = written \o hand
  /\ hand' = <<>>
  /\ sendLoop' = "select"
  /\ UNCHANGED <<client, ctx, main, recv, handler, chans, panicked>>

\* MessageBytes or the write returns an error: sendLoop ends, and only it.
WriteFails ==
  /\ sendLoop = "write"
  /\ ~Encodable(hand[1]) \/ peerClosed \/ serve = "returned"
  /\ hand' = <<>>
  /\ sendLoop' = "ended"
  /\ UNCHANGED <<client, ctx, main, recv, handler, written, chans, panicked>>

\* net/http: a ResponseWriter must not be used after ServeHTTP has returned;
\* that of http2 panics.
WritePanics ==
  /\ sendLoop = "write"
  /\ Encodable(hand[1])
  /\ Transport = "http2" /\ serve = "returned"
  /\ panicked' = TRUE
  /\ UNCHANGED <<client, ctx, main, recv, handler, send, chans>>

SendLoop == SenderStops \/ SenderTakes \/ Write \/ WriteFails \/ WritePanics

\* What sendLoop does whatever the client does: a write under way returns when the
\* connection is closed on this side.
SendLoopRuns ==
  \/ SenderStops \/ SenderTakes \/ WritePanics
  \/ WriteFails /\ (~Encodable(hand[1]) \/ serve = "returned")

-----------------------------------------------------------------------------
(* The client and the contexts.                                            *)

ClientSends(m) ==
  /\ ~peerClosed
  /\ m \notin {sent[i] : i \in 1 .. Len(sent)}
  /\ sent' = Append(sent, m) /\ inbox' = Append(inbox, m)
  /\ UNCHANGED <<peerClosed, ctx, main, recv, handler, send, chans, panicked>>

ClientCloses ==
  /\ ~peerClosed
  /\ peerClosed' = TRUE
  /\ UNCHANGED <<sent, inbox, ctx, main, recv, handler, send, chans, panicked>>

\* net/http cancels the context when ServeHTTP has returned, and that of an
\* http2 stream when the client is gone; a websocket's connection is hijacked.
RootCanceled ==
  /\ ~rootDone
  /\ serve = "returned" \/ (Transport = "http2" /\ peerClosed)
  /\ rootDone' = TRUE
  /\ UNCHANGED <<client, serverDone, main, recv, handler, send, chans, panicked>>

ServerCanceled ==
  /\ ~serverDone
  /\ serverDone' = TRUE
  /\ UNCHANGED <<client, rootDone, main, recv, handler, send, chans, panicked>>

Next == /\ ~panicked /\ UNCHANGED config
        /\ \/ ServeHTTP \/ RecvLoop \/ SendLoop
           \/ \E m \in Messages : Handle(m) \/ ClientSends(m)
           \/ ClientCloses \/ RootCanceled \/ ServerCanceled

Spec == Init /\ [][Next]_vars

(* Goroutines that can run do; callbacks return; contexts are canceled     *)
(* when net/http has to.  Of the client nothing is assumed, not even that   *)
(* it reads: a write to it may never return.                               *)
Running(A) == ~panicked /\ A /\ UNCHANGED config
Fairness == /\ WF_vars(Running(ServeHTTP)) /\ WF_vars(Running(RecvLoop))
            /\ WF_vars(Running(SendLoopRuns)) /\ WF_vars(Running(RootCanceled))
            /\ \A m \in Messages : WF_vars(Running(Handle(m)))

FairSpec == Spec /\ Fairness

-----------------------------------------------------------------------------
(* Properties.                                                             *)

\* Whatever the handlers race for, sendLoop writes no answer and no pushed
\* message twice, nor one that is still in the channel.
WrittenOnce ==
  LET all == written \o hand \o sendChannel
  IN  \A i, j \in 1 .. Len(all) : i # j => all[i] # all[j]

\* Without SpawnGoroutine the client gets its answers, and what their
\* callbacks sent before them, in the order of its requests.
InOrderInline ==
  ~SpawnGoroutine =>
    \A i, j \in 1 .. Len(written) : i < j =>
      \E a, b \in 1 .. Len(sent) :
        /\ a <= b /\ sent[a] = written[i].of /\ sent[b] = written[j].of
        /\ a = b => written[i].kind = "push"

\* A session ends because the client closed, the server was stopped or the
\* client sent what cannot be parsed or what the actor refused: not because of
\* the other messages or of an answer that could not be written.
ClosedForAReason ==
  closeCalls > 0 =>
    \/ peerClosed \/ serverDone
    \/ \E i \in 1 .. Len(sent) : Kind[sent[i]] \in {"refused", "bad"}

\* "OnClose handler is called when the stream beneath the actor is closed",
\* whoever closed it.
CloseHandled == (peerClosed \/ serverDone) ~> (closeCalls = 1)

\* sendLoop is in a write to a client that never reads it.
StuckWriting == <>[](sendLoop = "write" /\ serve = "wait")

\* The same, and what cannot be parsed or what the actor refuses ends the session,
\* too: unless a panic has ended the program, or recvLoop handles the messages
\* itself and nobody drains sendChannel any more, as sendLoop has ended or its
\* write never returns.
CloseHandledUnlessStuck ==
  /\ \/ ~SpawnGoroutine /\ StuckWriting
     \/ (peerClosed \/ serverDone) ~>
          \/ closeCalls = 1 \/ panicked
          \/ ~SpawnGoroutine /\ sendLoop = "ended"
  /\ \A m \in Messages : (handler[m] = "fail") ~> (closeCalls = 1 \/ panicked)

\* A request that the actor has answered gets its answer while the session
\* lasts: sendLoop is there to write it, unless it met an answer that cannot be
\* marshaled, or is still in a write that the client does not read.
AnsweredOrClosed ==
  \/ StuckWriting
  \/ \A m \in Messages : (handler[m] = "reply") ~>
       \/ \E i \in 1 .. Len(written) : written[i] = Answer(m)
       \/ \E o \in Messages : Kind[o] = "opaque" /\ handler[o] \in {"reply", "ended"}
       \/ peerClosed \/ serve # "wait"
=============================================================================
