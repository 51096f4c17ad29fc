------------------------- MODULE StreamSessionProofs -------------------------
(***************************************************************************)
(* Proofs about StreamSession, for any handlers, any number of messages    *)
(* and channels of any capacity.                                           *)
(***************************************************************************)
EXTENDS StreamSession, SequenceTheorems, TLAPS

-----------------------------------------------------------------------------
(* The inductive invariant.                                                *)

\* Who holds a message, and which of ServeHTTP's deferred calls are to come.
HoldsInv ==
  /\ recvLoop \in {"dispatch", "inline"} => Len(received) = 1
  /\ (sendLoop = "write") <=> (hand # <<>>)
  /\ serve \in {"wait", "unset", "handleclose"} => closeCalls = 0

\* How many of the messages sent recvLoop has read.
ReadUpTo == Len(sent) - Len(inbox)

\* What recvLoop has not read is the end of what was sent, and what it has read
\* last is what came before.
InboxInv ==
  /\ \A i, j \in 1 .. Len(sent) : i # j => sent[i] # sent[j]
  /\ Len(inbox) <= Len(sent)
  /\ \A i \in 1 .. Len(inbox) : inbox[i] = sent[ReadUpTo + i]
  /\ recvLoop \in {"dispatch", "inline"} =>
       ReadUpTo >= 1 /\ received[1] = sent[ReadUpTo]

\* A message is handled once it was read, and the one about to be handled never
\* was before.
HandlerInv ==
  /\ recvLoop = "dispatch" => handler[received[1]] = "idle"
  /\ \A m \in Messages : handler[m] # "idle" =>
       \E i \in 1 .. ReadUpTo : sent[i] = m

\* Everything the handlers have put into sendChannel and that is not lost.
Out == written \o hand \o sendChannel

\* An answer goes out as its handler ends, a pushed message once it has passed
\* its callback.
Passed(o) == IF o.kind = "answer" THEN {"ended"}
                                  ELSE {"running", "reply", "fail", "ended"}

OutInv ==
  /\ \A i \in 1 .. Len(Out) : handler[Out[i].of] \in Passed(Out[i])
  /\ WrittenOnce

\* Without SpawnGoroutine the message read last is the only one under way.
InlineInv ==
  ~SpawnGoroutine =>
    \A m \in Messages : handler[m] \notin {"idle", "ended"} =>
      recvLoop = "inline" /\ received[1] = m

\* o may precede p on the wire of such a session.
Precedes(o, p) ==
  \E a, b \in 1 .. Len(sent) :
    /\ a <= b /\ sent[a] = o.of /\ sent[b] = p.of
    /\ a = b => o.kind = "push"

OrderInv ==
  ~SpawnGoroutine =>
    \A i, j \in 1 .. Len(Out) : i < j => Precedes(Out[i], Out[j])

\* A reason to end a session, and where it shows.
Reason == \/ peerClosed \/ serverDone
          \/ \E i \in 1 .. Len(sent) : Kind[sent[i]] \in {"refused", "bad"}

ReasonInv ==
  \/ Reason
  \/ /\ serve = "wait" /\ done = 0 /\ recvLoop # "fail" /\ ~rootDone
     /\ \A m \in Messages : handler[m] # "fail"

Inv == /\ TypeOK /\ HoldsInv /\ InboxInv /\ HandlerInv
       /\ OutInv /\ InlineInv /\ OrderInv /\ ReasonInv

-----------------------------------------------------------------------------
(* Types.                                                                  *)

\* The part of TypeOK about what is not a sequence.
ScalarTypeOK ==
  /\ peerClosed \in BOOLEAN /\ rootDone \in BOOLEAN /\ serverDone \in BOOLEAN
  /\ server \in BOOLEAN /\ panicked \in BOOLEAN
  /\ serve \in {"wait", "unset", "handleclose", "closews", "returned"}
  /\ recvLoop \in {"read", "dispatch", "inline", "fail", "ended"}
  /\ handler \in [Messages -> {"idle", "feed", "push", "running", "reply",
                               "fail", "ended"}]
  /\ sendLoop \in {"select", "write", "ended"}
  /\ done \in 0 .. DoneCap /\ closeCalls \in {0, 1}

SeqTypeOK ==
  /\ config \in Configs
  /\ sent \in Seq(Messages) /\ inbox \in Seq(Messages)
  /\ received \in Seq(Messages) /\ Len(received) <= 1
  /\ hand \in Seq(Outgoing) /\ Len(hand) <= 1
  /\ sendChannel \in Seq(Outgoing) /\ Len(sendChannel) <= SendCap
  /\ written \in Seq(Outgoing)

LEMMA TypeParts == TypeOK <=> ScalarTypeOK /\ SeqTypeOK
  BY DEF TypeOK, ScalarTypeOK, SeqTypeOK

LEMMA TypePartsNext == TypeOK' <=> ScalarTypeOK' /\ SeqTypeOK'
  BY DEF TypeOK, ScalarTypeOK, SeqTypeOK

LEMMA InvInit == Init => Inv
  <1> SUFFICES ASSUME Init PROVE Inv
    OBVIOUS
  <1> USE DEF Init
  <1>1. TypeOK
    <2>1. ScalarTypeOK
      <3>1. done \in 0 .. DoneCap
        BY SessionAssumption
      <3>2. handler \in [Messages -> {"idle", "feed", "push", "running", "reply",
                                     "fail", "ended"}]
        OBVIOUS
      <3> QED BY <3>1, <3>2 DEF ScalarTypeOK
    <2>2. SeqTypeOK
      BY SessionAssumption DEF SeqTypeOK
    <2> QED BY <2>1, <2>2, TypeParts
  <1>2. HoldsInv /\ InboxInv /\ HandlerInv /\ InlineInv /\ ReasonInv
    BY DEF HoldsInv, InboxInv, HandlerInv, InlineInv, ReasonInv
  <1>3. Out = <<>>
    BY DEF Out
  <1>4. OutInv /\ OrderInv
    BY <1>3 DEF OutInv, WrittenOnce, Out, OrderInv
  <1> QED BY <1>1, <1>2, <1>4 DEF Inv

LEMMA ServeTypes ==
  ASSUME ScalarTypeOK, HoldsInv, ServeHTTP
  PROVE  ScalarTypeOK' /\ HoldsInv'
  <1> USE DEF ScalarTypeOK, HoldsInv, client, ctx, main, recv, send, chans
  <1>1. CASE WaitReturns
    <2>1. done' \in 0 .. DoneCap
      BY <1>1, SessionAssumption DEF WaitReturns
    <2>2. serve' \in {"unset", "handleclose"} /\ serve = "wait"
      BY <1>1 DEF WaitReturns
    <2> QED BY <1>1, <2>1, <2>2 DEF WaitReturns
  <1>2. CASE UnsetServer
    BY <1>2 DEF UnsetServer
  <1>3. CASE HandleClose
    BY <1>3 DEF HandleClose
  <1>4. CASE CloseWs
    BY <1>4 DEF CloseWs
  <1> QED BY <1>1, <1>2, <1>3, <1>4 DEF ServeHTTP

LEMMA RecvTypes ==
  ASSUME ScalarTypeOK, SeqTypeOK, HoldsInv, RecvLoop
  PROVE  ScalarTypeOK' /\ HoldsInv'
  <1> USE DEF ScalarTypeOK, HoldsInv, client, ctx, main, recv, send, chans
  <1>1. CASE Read
    <2>1. Head(inbox) \in Messages /\ Len(<<Head(inbox)>>) = 1
      BY <1>1 DEF Read, SeqTypeOK
    <2> QED BY <1>1, <2>1, SMTT(30) DEF Read
  <1>2. CASE ReadFails
    BY <1>2 DEF ReadFails
  <1>3. CASE Dispatch
    <2>1. handler' = handler \/ handler' = [handler EXCEPT ![received[1]] = "feed"]
      BY <1>3 DEF Dispatch, HandlerGoto
    <2>2. handler' \in [Messages -> {"idle", "feed", "push", "running", "reply",
                                    "fail", "ended"}]
      BY <2>1
    <2>3. recvLoop' \in {"read", "dispatch", "inline", "fail", "ended"} /\ panicked' \in BOOLEAN
      BY <1>3 DEF Dispatch
    <2> QED BY <1>3, <2>2, <2>3 DEF Dispatch
  <1>4. CASE InlineReturns
    BY <1>4 DEF InlineReturns
  <1>5. CASE RecvLoopEnds
    BY <1>5, SessionAssumption DEF RecvLoopEnds
  <1> QED BY <1>1, <1>2, <1>3, <1>4, <1>5 DEF RecvLoop

LEMMA HandleTypes ==
  ASSUME ScalarTypeOK, HoldsInv, NEW m \in Messages, Handle(m)
  PROVE  ScalarTypeOK' /\ HoldsInv'
  <1> USE DEF ScalarTypeOK, HoldsInv, client, ctx, main, recv, send, chans,
              HandlerGoto
  <1>1. CASE StartFeed(m)
    <2>1. /\ \E l \in {"feed", "fail", "push", "running"} :
                handler' = [handler EXCEPT ![m] = l]
          /\ panicked' \in BOOLEAN
      <3>1. [handler EXCEPT ![m] = "feed"] = handler
        BY <1>1 DEF StartFeed
      <3> QED BY <1>1, <3>1 DEF StartFeed
    <2>2. handler' \in [Messages -> {"idle", "feed", "push", "running", "reply",
                                    "fail", "ended"}]
      BY <2>1
    <2> QED BY <1>1, <2>1, <2>2 DEF StartFeed
  <1>2. CASE CallbackSends(m)
    BY <1>2 DEF CallbackSends
  <1>3. CASE FeedReturns(m)
    <2>1. \E l \in {"fail", "ended", "reply"} :
             handler' = [handler EXCEPT ![m] = l]
      BY <1>3 DEF FeedReturns
    <2> QED BY <1>3, <2>1 DEF FeedReturns
  <1>4. CASE Reply(m)
    BY <1>4 DEF Reply
  <1>5. CASE Fail(m)
    BY <1>5, SessionAssumption DEF Fail
  <1> QED BY <1>1, <1>2, <1>3, <1>4, <1>5 DEF Handle

LEMMA SendTypes ==
  ASSUME ScalarTypeOK, HoldsInv, SendLoop
  PROVE  ScalarTypeOK' /\ HoldsInv'
  <1> USE DEF ScalarTypeOK, HoldsInv, client, ctx, main, recv, send, chans
  <1>1. CASE SenderStops
    BY <1>1 DEF SenderStops
  <1>2. CASE SenderTakes
    BY <1>2 DEF SenderTakes
  <1>3. CASE Write
    BY <1>3 DEF Write
  <1>4. CASE WriteFails
    BY <1>4 DEF WriteFails
  <1>5. CASE WritePanics
    BY <1>5 DEF WritePanics
  <1> QED BY <1>1, <1>2, <1>3, <1>4, <1>5 DEF SendLoop

LEMMA SeqTypes ==
  ASSUME SeqTypeOK, HoldsInv, Next
  PROVE  SeqTypeOK'
  <1> USE DEF client, ctx, main, recv, send, chans
  <1>c. config' = config
    BY DEF Next
  <1>1. ASSUME ServeHTTP PROVE SeqTypeOK'
    BY <1>c, <1>1 DEF SeqTypeOK, ServeHTTP, WaitReturns, UnsetServer, HandleClose,
                      CloseWs
  <1>2. ASSUME RecvLoop PROVE SeqTypeOK'
    <2>1. CASE Read
      <3>1. inbox # <<>> => Tail(inbox) \in Seq(Messages) /\ Head(inbox) \in Messages
        BY DEF SeqTypeOK
      <3>2. \A m \in Messages : <<m>> \in Seq(Messages) /\ Len(<<m>>) = 1
        OBVIOUS
      <3>3. inbox' \in Seq(Messages)
        BY <2>1, <3>1 DEF Read
      <3>4. received' \in Seq(Messages) /\ Len(received') <= 1
        <4>1. CASE UNCHANGED received
          BY <4>1 DEF SeqTypeOK
        <4>2. CASE received' = <<Head(inbox)>>
          BY <2>1, <3>1, <3>2, <4>2 DEF Read
        <4> QED BY <2>1, <4>1, <4>2 DEF Read
      <3> QED BY <1>c, <2>1, <3>3, <3>4 DEF Read, SeqTypeOK
    <2>2. CASE ReadFails \/ Dispatch \/ InlineReturns \/ RecvLoopEnds
      BY <1>c, <2>2 DEF SeqTypeOK, ReadFails, Dispatch, InlineReturns, RecvLoopEnds
    <2> QED BY <1>2, <2>1, <2>2 DEF RecvLoop
  <1>3. ASSUME NEW m \in Messages, Handle(m) PROVE SeqTypeOK'
    <2>1. Answer(m) \in Outgoing /\ Push(m) \in Outgoing
      BY DEF Answer, Push, Outgoing
    <2>2. ASSUME NEW o \in Outgoing, Send(o)
          PROVE  sendChannel' \in Seq(Outgoing) /\ Len(sendChannel') <= SendCap
      BY <2>2, SessionAssumption DEF SeqTypeOK, Send
    <2>3. CASE CallbackSends(m) \/ Reply(m)
      BY <1>c, <2>1, <2>2, <2>3 DEF SeqTypeOK, CallbackSends, Reply
    <2>4. CASE StartFeed(m) \/ FeedReturns(m) \/ Fail(m)
      BY <1>c, <2>4 DEF SeqTypeOK, StartFeed, FeedReturns, Fail
    <2> QED BY <1>3, <2>3, <2>4 DEF Handle
  <1>4. ASSUME SendLoop PROVE SeqTypeOK'
    <2>1. CASE SenderTakes
      <3>1. sendChannel \in Seq(Outgoing) /\ sendChannel # <<>>
            /\ Len(sendChannel) <= SendCap
        BY <2>1 DEF SenderTakes, SeqTypeOK
      <3>2. Tail(sendChannel) \in Seq(Outgoing) /\ Head(sendChannel) \in Outgoing
        BY <3>1
      <3>3. Len(Tail(sendChannel)) <= SendCap
        BY <3>1, SessionAssumption
      <3>4. \A o \in Outgoing : <<o>> \in Seq(Outgoing) /\ Len(<<o>>) <= 1
        OBVIOUS
      <3> QED BY <1>c, <2>1, <3>2, <3>3, <3>4 DEF SenderTakes, SeqTypeOK
    <2>2. CASE Write
      <3>1. written \o hand \in Seq(Outgoing)
        BY DEF SeqTypeOK
      <3> QED BY <1>c, <2>2, <3>1 DEF Write, SeqTypeOK
    <2>3. CASE SenderStops \/ WriteFails \/ WritePanics
      <3>1. <<>> \in Seq(Outgoing) /\ Len(<<>>) <= 1
        OBVIOUS
      <3>2. CASE SenderStops
        BY <1>c, <3>2 DEF SeqTypeOK, SenderStops
      <3>3. CASE WriteFails
        BY <1>c, <3>1, <3>3 DEF SeqTypeOK, WriteFails
      <3>4. CASE WritePanics
        BY <1>c, <3>4 DEF SeqTypeOK, WritePanics
      <3> QED BY <2>3, <3>2, <3>3, <3>4
    <2> QED BY <1>4, <2>1, <2>2, <2>3 DEF SendLoop
  <1>5. ASSUME NEW m \in Messages, ClientSends(m) PROVE SeqTypeOK'
    <2>1. Append(sent, m) \in Seq(Messages) /\ Append(inbox, m) \in Seq(Messages)
      BY DEF SeqTypeOK
    <2> QED BY <1>c, <1>5, <2>1 DEF ClientSends, SeqTypeOK
  <1>6. ASSUME ClientCloses \/ RootCanceled \/ ServerCanceled PROVE SeqTypeOK'
    BY <1>c, <1>6 DEF ClientCloses, RootCanceled, ServerCanceled, SeqTypeOK
  <1> QED BY <1>1, <1>2, <1>3, <1>4, <1>5, <1>6 DEF Next

LEMMA TypeStep ==
  ASSUME TypeOK, HoldsInv, [Next]_vars
  PROVE  TypeOK' /\ HoldsInv'
  <1>0. ScalarTypeOK /\ SeqTypeOK
    BY TypeParts
  <1>1. CASE UNCHANGED vars
    BY <1>1 DEF vars, client, ctx, main, recv, send, chans, TypeOK, HoldsInv
  <1>2. CASE Next
    <2>1. SeqTypeOK'
      BY <1>0, <1>2, SeqTypes
    <2>2. ASSUME ClientCloses \/ RootCanceled \/ ServerCanceled
                 \/ \E m \in Messages : ClientSends(m)
          PROVE  ScalarTypeOK' /\ HoldsInv'
      <3> USE <1>0 DEF client, ctx, main, recv, send, chans, ScalarTypeOK, HoldsInv
      <3>1. CASE ClientCloses
        BY <3>1 DEF ClientCloses
      <3>2. CASE RootCanceled
        BY <3>2 DEF RootCanceled
      <3>3. CASE ServerCanceled
        BY <3>3 DEF ServerCanceled
      <3>4. ASSUME NEW m \in Messages, ClientSends(m)
            PROVE  ScalarTypeOK' /\ HoldsInv'
        BY <3>4 DEF ClientSends
      <3> QED BY <2>2, <3>1, <3>2, <3>3, <3>4
    <2>3. ScalarTypeOK' /\ HoldsInv'
      BY <1>0, <1>2, <2>2, ServeTypes, RecvTypes, HandleTypes, SendTypes DEF Next
    <2> QED BY <2>1, <2>3, TypePartsNext
  <1> QED BY <1>1, <1>2

-----------------------------------------------------------------------------
(* What was sent, what was read and what is handled.                       *)

LEMMA LenFacts ==
  ASSUME TypeOK
  PROVE  /\ Len(sent) \in Nat /\ Len(inbox) \in Nat /\ ReadUpTo \in Int
         /\ \A i \in 1 .. Len(sent) : sent[i] \in Messages
         /\ Len(received) = 1 => received[1] \in Messages
  BY DEF TypeOK, ReadUpTo

\* The steps that neither send nor read a message.
LEMMA InboxKept ==
  ASSUME InboxInv, UNCHANGED <<sent, inbox, received>>,
         recvLoop' \in {"dispatch", "inline"} => recvLoop \in {"dispatch", "inline"}
  PROVE  InboxInv'
  BY DEF InboxInv, ReadUpTo

LEMMA HandlerKept ==
  ASSUME TypeOK, HoldsInv, HandlerInv, UNCHANGED <<sent, inbox, received>>,
         recvLoop' = "dispatch" => recvLoop = "dispatch",
         \A m \in Messages : (handler'[m] = "idle") <=> (handler[m] = "idle")
  PROVE  HandlerInv'
  <1>1. recvLoop = "dispatch" => received[1] \in Messages
    BY LenFacts DEF HoldsInv
  <1> QED BY <1>1 DEF HandlerInv, ReadUpTo

\* What a handler's step does to the other parts.
LEMMA HandleMoves ==
  ASSUME TypeOK, NEW m \in Messages, Handle(m)
  PROVE  /\ UNCHANGED <<sent, inbox, peerClosed, serverDone, rootDone, serve,
                        recvLoop, received, written, hand, sendLoop>>
         /\ handler[m] \notin {"idle", "ended"}
         /\ \A n \in Messages : n # m => handler'[n] = handler[n]
         /\ handler'[m] # "idle"
         /\ handler[m] \in {"running", "reply", "fail"} =>
              handler'[m] \in {"running", "reply", "fail", "ended"}
  <1> USE DEF TypeOK, HandlerGoto, client, ctx, main, recv, send, chans
  <1>1. CASE StartFeed(m)
    BY <1>1 DEF StartFeed
  <1>2. CASE CallbackSends(m)
    BY <1>2 DEF CallbackSends
  <1>3. CASE FeedReturns(m)
    BY <1>3 DEF FeedReturns
  <1>4. CASE Reply(m)
    BY <1>4 DEF Reply
  <1>5. CASE Fail(m)
    BY <1>5 DEF Fail
  <1> QED BY <1>1, <1>2, <1>3, <1>4, <1>5 DEF Handle

LEMMA ReadStep ==
  ASSUME TypeOK, HoldsInv, InboxInv, HandlerInv, Read
  PROVE  /\ InboxInv' /\ HandlerInv' /\ ReadUpTo' = ReadUpTo + 1
         /\ sent' = sent /\ handler' = handler
         /\ ReadUpTo + 1 \in 1 .. Len(sent)
         /\ Head(inbox) = sent[ReadUpTo + 1]
  <1> USE LenFacts
  <1>1. /\ inbox # <<>> /\ inbox \in Seq(Messages) /\ inbox' = Tail(inbox)
        /\ sent' = sent /\ handler' = handler
    BY DEF Read, TypeOK, client
  <1>2. /\ Len(inbox) >= 1 /\ Head(inbox) = inbox[1] /\ Len(inbox') = Len(inbox) - 1
        /\ \A i \in 1 .. Len(inbox') : inbox'[i] = inbox[i + 1]
    BY <1>1
  <1>3. ReadUpTo' = ReadUpTo + 1 /\ ReadUpTo >= 0
    BY <1>1, <1>2 DEF ReadUpTo, InboxInv
  <1>4. ReadUpTo + 1 \in 1 .. Len(sent) /\ inbox[1] = sent[ReadUpTo + 1]
    BY <1>2, <1>3 DEF ReadUpTo, InboxInv
  <1>5. \A i \in 1 .. Len(inbox') : inbox'[i] = sent'[ReadUpTo' + i]
    <2> SUFFICES ASSUME NEW i \in 1 .. Len(inbox')
                 PROVE  inbox'[i] = sent'[ReadUpTo' + i]
      OBVIOUS
    <2>1. i + 1 \in 1 .. Len(inbox) /\ inbox'[i] = inbox[i + 1]
      BY <1>2
    <2>2. inbox[i + 1] = sent[ReadUpTo + (i + 1)]
      BY <2>1 DEF InboxInv
    <2>3. ReadUpTo + (i + 1) = ReadUpTo' + i
      BY <1>3
    <2> QED BY <1>1, <2>1, <2>2, <2>3
  <1>6. recvLoop' \in {"dispatch", "inline"} =>
          recvLoop' = "dispatch" /\ received' = <<sent[ReadUpTo + 1]>>
    BY <1>2, <1>4 DEF Read, recv
  <1>7. InboxInv'
    <2>1. Len(inbox') <= Len(sent')
      BY <1>1, <1>2 DEF InboxInv
    <2>2. recvLoop' \in {"dispatch", "inline"} =>
            ReadUpTo' >= 1 /\ received'[1] = sent'[ReadUpTo']
      BY <1>1, <1>3, <1>6
    <2> QED BY <1>1, <1>5, <2>1, <2>2 DEF InboxInv
  <1>8. HandlerInv'
    <2>1. handler[sent[ReadUpTo + 1]] = "idle"
      <3>1. \A i \in 1 .. ReadUpTo : i \in 1 .. Len(sent) /\ i # ReadUpTo + 1
        BY <1>4
      <3>2. \A i \in 1 .. ReadUpTo : sent[i] # sent[ReadUpTo + 1]
        BY <1>4, <3>1 DEF InboxInv
      <3> QED BY <1>4, <3>2 DEF HandlerInv
    <2>2. \A i \in 1 .. ReadUpTo : i \in 1 .. ReadUpTo'
      BY <1>3
    <2> QED BY <1>1, <1>6, <2>1, <2>2 DEF HandlerInv
  <1> QED BY <1>1, <1>2, <1>3, <1>4, <1>7, <1>8

LEMMA ClientSendsStep ==
  ASSUME TypeOK, HoldsInv, InboxInv, HandlerInv, NEW m \in Messages, ClientSends(m)
  PROVE  /\ InboxInv' /\ HandlerInv' /\ ReadUpTo' = ReadUpTo
         /\ Len(sent') = Len(sent) + 1
         /\ \A i \in 1 .. Len(sent) : sent'[i] = sent[i]
  <1> USE LenFacts
  <1>1. /\ sent \in Seq(Messages) /\ inbox \in Seq(Messages)
        /\ sent' = Append(sent, m) /\ inbox' = Append(inbox, m)
        /\ \A i \in 1 .. Len(sent) : sent[i] # m
        /\ recvLoop' = recvLoop /\ received' = received /\ handler' = handler
    BY DEF ClientSends, TypeOK, recv
  <1>2. /\ Len(sent') = Len(sent) + 1 /\ Len(inbox') = Len(inbox) + 1
        /\ \A i \in 1 .. Len(sent) : sent'[i] = sent[i]
        /\ sent'[Len(sent) + 1] = m
        /\ \A i \in 1 .. Len(inbox) : inbox'[i] = inbox[i]
        /\ inbox'[Len(inbox) + 1] = m
    BY <1>1
  <1>3. ReadUpTo' = ReadUpTo /\ ReadUpTo >= 0 /\ ReadUpTo <= Len(sent)
    BY <1>2 DEF ReadUpTo, InboxInv
  <1>4. \A i, j \in 1 .. Len(sent') : i # j => sent'[i] # sent'[j]
    BY <1>1, <1>2 DEF InboxInv
  <1>5. \A i \in 1 .. Len(inbox') : inbox'[i] = sent'[ReadUpTo' + i]
    <2> SUFFICES ASSUME NEW i \in 1 .. Len(inbox')
                 PROVE  inbox'[i] = sent'[ReadUpTo + i]
      BY <1>3
    <2>1. CASE i = Len(inbox) + 1
      <3>1. ReadUpTo + i = Len(sent) + 1
        BY <2>1 DEF ReadUpTo
      <3> QED BY <1>2, <2>1, <3>1
    <2>2. CASE i \in 1 .. Len(inbox)
      <3>1. ReadUpTo + i \in 1 .. Len(sent)
        BY <1>3, <2>2 DEF ReadUpTo
      <3> QED BY <1>2, <2>2, <3>1 DEF InboxInv
    <2> QED BY <1>2, <2>1, <2>2
  <1>6. \A i \in 1 .. ReadUpTo : sent'[i] = sent[i]
    BY <1>2, <1>3
  <1>7. InboxInv'
    <2>1. recvLoop' \in {"dispatch", "inline"} =>
            ReadUpTo' >= 1 /\ received'[1] = sent'[ReadUpTo']
      BY <1>1, <1>3, <1>6 DEF InboxInv
    <2>2. Len(inbox') <= Len(sent')
      BY <1>2 DEF InboxInv
    <2> QED BY <1>4, <1>5, <2>1, <2>2 DEF InboxInv
  <1>8. HandlerInv'
    BY <1>1, <1>3, <1>6 DEF HandlerInv
  <1> QED BY <1>2, <1>3, <1>7, <1>8

LEMMA DispatchStep ==
  ASSUME TypeOK, HoldsInv, InboxInv, HandlerInv, Dispatch
  PROVE  InboxInv' /\ HandlerInv'
  <1> USE LenFacts
  <1>1. /\ UNCHANGED <<sent, inbox, received>> /\ recvLoop = "dispatch"
        /\ received[1] \in Messages
    BY DEF Dispatch, client, recv, HoldsInv
  <1>2. InboxInv'
    BY <1>1, InboxKept
  <1>3. CASE UNCHANGED <<recvLoop, handler>>
    <2>1. \A n \in Messages : (handler'[n] = "idle") <=> (handler[n] = "idle")
      BY <1>3
    <2> QED BY <1>1, <1>2, <1>3, <2>1, HandlerKept
  <1>4. CASE recvLoop' # "dispatch" /\ HandlerGoto(received[1], "feed")
    <2>1. ReadUpTo' = ReadUpTo /\ ReadUpTo \in 1 .. ReadUpTo
          /\ sent[ReadUpTo] = received[1]
      BY <1>1 DEF ReadUpTo, InboxInv
    <2>2. \A m \in Messages : m # received[1] => handler'[m] = handler[m]
      BY <1>4 DEF HandlerGoto, TypeOK
    <2>3. \A m \in Messages : handler'[m] # "idle" =>
            \E i \in 1 .. ReadUpTo : sent[i] = m
      BY <2>1, <2>2 DEF HandlerInv
    <2>4. HandlerInv'
      BY <1>1, <1>4, <2>1, <2>3 DEF HandlerInv
    <2> QED BY <1>2, <2>4
  <1>5. \/ UNCHANGED <<recvLoop, handler>>
        \/ recvLoop' # "dispatch" /\ HandlerGoto(received[1], "feed")
    BY DEF Dispatch
  <1> QED BY <1>2, <1>3, <1>4, <1>5

\* The steps that concern neither the client, nor recvLoop, nor the handlers.
OtherStep == ServeHTTP \/ SendLoop \/ ClientCloses \/ RootCanceled \/ ServerCanceled

LEMMA OtherMoves ==
  OtherStep => UNCHANGED <<sent, inbox, recvLoop, received, handler>>
  <1> USE DEF client, recv
  <1>1. ServeHTTP => UNCHANGED <<sent, inbox, recvLoop, received, handler>>
    BY DEF ServeHTTP, WaitReturns, UnsetServer, HandleClose, CloseWs
  <1>2. SendLoop => UNCHANGED <<sent, inbox, recvLoop, received, handler>>
    BY DEF SendLoop, SenderStops, SenderTakes, Write, WriteFails, WritePanics
  <1>3. ClientCloses \/ RootCanceled \/ ServerCanceled =>
          UNCHANGED <<sent, inbox, recvLoop, received, handler>>
    BY DEF ClientCloses, RootCanceled, ServerCanceled
  <1> QED BY <1>1, <1>2, <1>3 DEF OtherStep

\* The steps of recvLoop that neither read nor dispatch.
LEMMA RecvMoves ==
  ASSUME ReadFails \/ InlineReturns \/ RecvLoopEnds
  PROVE  /\ UNCHANGED <<sent, inbox, received, handler>>
         /\ recvLoop' \notin {"dispatch", "inline"}
  BY DEF ReadFails, InlineReturns, RecvLoopEnds, client

LEMMA InboxStep ==
  ASSUME TypeOK, HoldsInv, InboxInv, HandlerInv, [Next]_vars
  PROVE  InboxInv' /\ HandlerInv'
  <1>1. CASE UNCHANGED vars
    <2>1. UNCHANGED <<sent, inbox, recvLoop, received, handler>>
      BY <1>1 DEF vars, client, recv
    <2> QED BY <2>1, InboxKept, HandlerKept
  <1>2. CASE OtherStep
    BY <1>2, OtherMoves, InboxKept, HandlerKept
  <1>3. CASE RecvLoop
    <2>1. CASE ReadFails \/ InlineReturns \/ RecvLoopEnds
      BY <2>1, RecvMoves, InboxKept, HandlerKept
    <2> QED BY <1>3, <2>1, ReadStep, DispatchStep DEF RecvLoop
  <1>4. ASSUME NEW m \in Messages, Handle(m) PROVE InboxInv' /\ HandlerInv'
    <2>1. /\ UNCHANGED <<sent, inbox, received, recvLoop>>
          /\ handler[m] # "idle" /\ handler'[m] # "idle"
          /\ \A n \in Messages : n # m => handler'[n] = handler[n]
      BY <1>4, HandleMoves
    <2>2. \A n \in Messages : (handler'[n] = "idle") <=> (handler[n] = "idle")
      BY <2>1
    <2> QED BY <2>1, <2>2, InboxKept, HandlerKept
  <1>5. ASSUME NEW m \in Messages, ClientSends(m) PROVE InboxInv' /\ HandlerInv'
    BY <1>5, ClientSendsStep
  <1>6. Next => \/ OtherStep \/ RecvLoop
                \/ \E m \in Messages : Handle(m) \/ ClientSends(m)
    BY DEF Next, OtherStep
  <1> QED BY <1>1, <1>2, <1>3, <1>4, <1>5, <1>6

-----------------------------------------------------------------------------
(* One message at a time without SpawnGoroutine, and reasons to end.       *)

LEMMA NextCases ==
  ASSUME Next
  PROVE  /\ config' = config
         /\ \/ OtherStep \/ RecvLoop
            \/ \E m \in Messages : Handle(m) \/ ClientSends(m)
  BY DEF Next, OtherStep

LEMMA InlineStep ==
  ASSUME TypeOK, HoldsInv, InlineInv, [Next]_vars
  PROVE  InlineInv'
  <1>1. CASE UNCHANGED <<config, recvLoop, received, handler>>
    BY <1>1 DEF InlineInv, SpawnGoroutine
  <1>2. CASE UNCHANGED vars
    BY <1>1, <1>2 DEF vars, recv
  <1>3. CASE Next
    <2>c. SpawnGoroutine' = SpawnGoroutine /\ config' = config
      BY <1>3, NextCases DEF SpawnGoroutine
    <2>1. CASE OtherStep
      BY <1>1, <2>c, <2>1, OtherMoves
    <2>2. ASSUME NEW m \in Messages, ClientSends(m) PROVE InlineInv'
      BY <1>1, <2>c, <2>2 DEF ClientSends, recv
    <2>3. ASSUME NEW m \in Messages, Handle(m) PROVE InlineInv'
      <3>1. /\ UNCHANGED <<recvLoop, received>> /\ handler[m] \notin {"idle", "ended"}
            /\ \A n \in Messages : n # m => handler'[n] = handler[n]
        BY <2>3, HandleMoves
      <3> QED BY <2>c, <3>1 DEF InlineInv
    <2>4. CASE RecvLoop
      <3>1. CASE recvLoop \in {"read", "fail"} /\ handler' = handler
        BY <2>c, <3>1 DEF InlineInv
      <3>2. CASE Dispatch
        <4>1. recvLoop = "dispatch" /\ received' = received /\ received[1] \in Messages
          BY <3>2, LenFacts DEF Dispatch, HoldsInv
        <4>2. CASE UNCHANGED <<recvLoop, handler>>
          BY <1>1, <2>c, <4>1, <4>2
        <4>3. CASE /\ recvLoop' = IF SpawnGoroutine THEN "read" ELSE "inline"
                   /\ HandlerGoto(received[1], "feed")
          <5>1. \A m \in Messages : m # received[1] => handler'[m] = handler[m]
            BY <4>3 DEF HandlerGoto, TypeOK
          <5> QED BY <2>c, <4>1, <4>3, <5>1 DEF InlineInv
        <4> QED BY <3>2, <4>2, <4>3 DEF Dispatch
      <3>3. CASE InlineReturns
        BY <2>c, <3>3 DEF InlineReturns, InlineInv
      <3> QED BY <2>4, <3>1, <3>2, <3>3 DEF RecvLoop, Read, ReadFails, RecvLoopEnds
    <2> QED BY <1>3, <2>1, <2>2, <2>3, <2>4, NextCases
  <1> QED BY <1>2, <1>3

\* A reason stays one.
LEMMA ReasonStays ==
  ASSUME TypeOK, Reason, [Next]_vars
  PROVE  Reason'
  <1>1. CASE UNCHANGED <<config, sent, peerClosed, serverDone>>
    BY <1>1 DEF Reason, Kind
  <1>2. CASE UNCHANGED vars
    BY <1>1, <1>2 DEF vars, client, ctx
  <1>3. CASE Next
    <2>c. config' = config
      BY <1>3, NextCases
    <2>1. CASE ClientCloses
      BY <2>1 DEF ClientCloses, Reason
    <2>2. CASE ServerCanceled
      BY <2>2 DEF ServerCanceled, Reason
    <2>3. ASSUME NEW m \in Messages, ClientSends(m) PROVE Reason'
      <3>1. UNCHANGED <<peerClosed, serverDone>>
        BY <2>3 DEF ClientSends, ctx
      <3>2. sent \in Seq(Messages) /\ sent' = Append(sent, m)
        BY <2>3 DEF ClientSends, TypeOK
      <3>3. \A i \in 1 .. Len(sent) : i \in 1 .. Len(sent') /\ sent'[i] = sent[i]
        BY <3>2
      <3> QED BY <2>c, <3>1, <3>3 DEF Reason, Kind
    <2>4. ASSUME ServeHTTP \/ RecvLoop \/ SendLoop \/ RootCanceled PROVE Reason'
      <3> USE DEF client, ctx
      <3>1. ServeHTTP \/ RootCanceled => UNCHANGED <<sent, peerClosed, serverDone>>
        BY DEF ServeHTTP, WaitReturns, UnsetServer, HandleClose, CloseWs, RootCanceled
      <3>2. RecvLoop => UNCHANGED <<sent, peerClosed, serverDone>>
        BY DEF RecvLoop, Read, ReadFails, Dispatch, InlineReturns, RecvLoopEnds
      <3>3. SendLoop => UNCHANGED <<sent, peerClosed, serverDone>>
        BY DEF SendLoop, SenderStops, SenderTakes, Write, WriteFails, WritePanics
      <3> QED BY <1>1, <2>c, <2>4, <3>1, <3>2, <3>3
    <2>5. ASSUME NEW m \in Messages, Handle(m) PROVE Reason'
      BY <1>1, <2>c, <2>5, HandleMoves
    <2> QED BY <1>3, <2>1, <2>2, <2>3, <2>4, <2>5 DEF Next
  <1> QED BY <1>2, <1>3

\* The first step that needs a reason has one.
LEMMA ReasonStep ==
  ASSUME TypeOK, HoldsInv, InboxInv, HandlerInv, ReasonInv, [Next]_vars
  PROVE  ReasonInv'
  <1> DEFINE Quiet == /\ serve = "wait" /\ done = 0 /\ recvLoop # "fail" /\ ~rootDone
                      /\ \A m \in Messages : handler[m] # "fail"
  <1>1. CASE Reason
    BY <1>1, ReasonStays DEF ReasonInv
  <1>2. CASE Quiet /\ ~Reason
    <2>0. ~peerClosed /\ ~serverDone
          /\ \A i \in 1 .. Len(sent) : Kind[sent[i]] \notin {"refused", "bad"}
      BY <1>2 DEF Reason
    <2> USE DEF client, ctx, main, recv, send, chans
    <2>1. CASE UNCHANGED vars
      <3>1. Quiet'
        BY <1>2, <2>1 DEF vars
      <3> QED BY <3>1 DEF ReasonInv
    <2>2. ASSUME ServeHTTP \/ RootCanceled PROVE Quiet'
      BY <1>2, <2>0, <2>2 DEF ServeHTTP, WaitReturns, UnsetServer, HandleClose, CloseWs,
                              RootCanceled
    <2>3. ASSUME SendLoop PROVE Quiet'
      BY <1>2, <2>3 DEF SendLoop, SenderStops, SenderTakes, Write, WriteFails,
                              WritePanics
    <2>4. ASSUME ClientCloses \/ ServerCanceled PROVE Reason'
      BY <2>4 DEF ClientCloses, ServerCanceled, Reason
    <2>5. ASSUME NEW m \in Messages, ClientSends(m) PROVE Quiet'
      BY <1>2, <2>5 DEF ClientSends
    <2>6. ASSUME RecvLoop PROVE Quiet'
      <3>1. CASE Read
        <4>1. Kind[Head(inbox)] \notin {"refused", "bad"}
          BY <2>0, <3>1, ReadStep
        <4> QED BY <1>2, <3>1, <4>1 DEF Read
      <3>2. CASE Dispatch
        BY <1>2, <3>2 DEF Dispatch, HandlerGoto, TypeOK
      <3>3. CASE ReadFails \/ InlineReturns \/ RecvLoopEnds
        BY <1>2, <2>0, <3>3 DEF ReadFails, InlineReturns, RecvLoopEnds
      <3> QED BY <2>6, <3>1, <3>2, <3>3 DEF RecvLoop
    <2>7. ASSUME NEW m \in Messages, Handle(m) PROVE Quiet'
      <3>1. Kind[m] \notin {"refused", "bad"}
        <4>1. handler[m] # "idle"
          BY <2>7, HandleMoves
        <4>2. PICK i \in 1 .. ReadUpTo : sent[i] = m
          BY <4>1 DEF HandlerInv
        <4>3. i \in 1 .. Len(sent)
          BY <4>2, LenFacts DEF ReadUpTo
        <4> QED BY <2>0, <4>2, <4>3
      <3>2. handler'[m] # "fail" /\ done' = done
        BY <1>2, <2>7, <3>1 DEF Handle, StartFeed, CallbackSends, FeedReturns, Reply,
                                Fail, HandlerGoto, TypeOK
      <3>3. /\ UNCHANGED <<serve, recvLoop, rootDone>>
            /\ \A n \in Messages : n # m => handler'[n] = handler[n]
        BY <2>7, HandleMoves
      <3> QED BY <1>2, <3>2, <3>3
    <2> QED BY <2>1, <2>2, <2>3, <2>4, <2>5, <2>6, <2>7 DEF Next, ReasonInv
  <1> QED BY <1>1, <1>2 DEF ReasonInv

-----------------------------------------------------------------------------
(* What is on its way to the client.                                       *)

LEMMA OfTwo ==
  ASSUME NEW S, NEW s \in Seq(S), NEW t \in Seq(S)
  PROVE  /\ s \o t \in Seq(S) /\ Len(s \o t) = Len(s) + Len(t)
         /\ \A i \in 1 .. Len(s) : (s \o t)[i] = s[i]
         /\ \A i \in 1 .. Len(t) : (s \o t)[Len(s) + i] = t[i]
  OBVIOUS

LEMMA OfThree ==
  ASSUME NEW S, NEW w \in Seq(S), NEW h \in Seq(S), NEW c \in Seq(S)
  PROVE  /\ w \o h \o c \in Seq(S)
         /\ Len(w \o h \o c) = Len(w) + Len(h) + Len(c)
         /\ \A i \in 1 .. Len(w) : (w \o h \o c)[i] = w[i]
         /\ \A i \in 1 .. Len(h) : (w \o h \o c)[Len(w) + i] = h[i]
         /\ \A i \in 1 .. Len(c) : (w \o h \o c)[Len(w) + Len(h) + i] = c[i]
  <1>1. PICK v : v = w \o h
    OBVIOUS
  <1>2. /\ v \in Seq(S) /\ Len(v) = Len(w) + Len(h)
        /\ \A i \in 1 .. Len(w) : v[i] = w[i]
        /\ \A i \in 1 .. Len(h) : v[Len(w) + i] = h[i]
    BY <1>1, OfTwo
  <1>3. Len(w) \in Nat /\ Len(h) \in Nat /\ Len(c) \in Nat
    OBVIOUS
  <1>4. /\ v \o c \in Seq(S) /\ Len(v \o c) = Len(v) + Len(c)
        /\ \A i \in 1 .. Len(v) : (v \o c)[i] = v[i]
        /\ \A i \in 1 .. Len(c) : (v \o c)[Len(v) + i] = c[i]
    <2>1. v \in Seq(S)
      BY <1>2
    <2>2. v \o c \in Seq(S)
      BY <2>1
    <2>3. Len(v \o c) = Len(v) + Len(c)
      BY <2>1
    <2>4. \A i \in 1 .. Len(v) : (v \o c)[i] = v[i]
      BY <2>1
    <2>5. \A i \in 1 .. Len(c) : (v \o c)[Len(v) + i] = c[i]
      BY <2>1
    <2> QED BY <2>2, <2>3, <2>4, <2>5
  <1>5. /\ \A i \in 1 .. Len(w) : i \in 1 .. Len(v)
        /\ \A i \in 1 .. Len(h) : Len(w) + i \in 1 .. Len(v)
    BY <1>2, <1>3
  <1>6. /\ v \o c \in Seq(S) /\ Len(v \o c) = Len(w) + Len(h) + Len(c)
        /\ \A i \in 1 .. Len(w) : (v \o c)[i] = w[i]
        /\ \A i \in 1 .. Len(h) : (v \o c)[Len(w) + i] = h[i]
        /\ \A i \in 1 .. Len(c) : (v \o c)[Len(w) + Len(h) + i] = c[i]
    BY <1>2, <1>4, <1>5
  <1> QED BY <1>1, <1>6

LEMMA OutType ==
  ASSUME TypeOK
  PROVE  Out \in Seq(Outgoing) /\ \A i \in 1 .. Len(Out) : Out[i] \in Outgoing
  <1>1. Out \in Seq(Outgoing)
    BY OfThree DEF TypeOK, Out
  <1> HIDE DEF Out
  <1> QED BY <1>1

\* sendLoop moves a message on, or loses it: what stays keeps its order.
Kept == \A i \in 1 .. Len(Out') :
          /\ \E a \in 1 .. Len(Out) : Out'[i] = Out[a]
          /\ \A j \in 1 .. Len(Out') : i < j =>
               \E a, b \in 1 .. Len(Out) :
                 a < b /\ Out'[i] = Out[a] /\ Out'[j] = Out[b]

LEMMA SameKept == Out' = Out => Kept
  BY DEF Kept

LEMMA TakesSame ==
  ASSUME TypeOK, HoldsInv, SenderTakes
  PROVE  Out' = Out
  <1>1. /\ hand = <<>> /\ sendChannel \in Seq(Outgoing) /\ sendChannel # <<>>
        /\ hand' = <<Head(sendChannel)>> /\ sendChannel' = Tail(sendChannel)
        /\ written' = written /\ written \in Seq(Outgoing)
    BY DEF SenderTakes, HoldsInv, TypeOK
  <1>2. /\ hand' \in Seq(Outgoing) /\ Len(hand') = 1 /\ hand'[1] = sendChannel[1]
        /\ sendChannel' \in Seq(Outgoing) /\ Len(sendChannel') = Len(sendChannel) - 1
        /\ \A i \in 1 .. Len(sendChannel') : sendChannel'[i] = sendChannel[i + 1]
    BY <1>1
  <1> DEFINE f == written \o hand \o sendChannel
             g == written \o hand' \o sendChannel'
             n == Len(written)  k == Len(sendChannel)
  <1>3. n \in Nat /\ k \in Nat /\ k >= 1
    BY <1>1
  <1>4. /\ f \in Seq(Outgoing) /\ Len(f) = n + k
        /\ \A i \in 1 .. n : f[i] = written[i]
        /\ \A i \in 1 .. k : f[n + i] = sendChannel[i]
    <2>1. hand \in Seq(Outgoing) /\ Len(hand) = 0
      BY <1>1
    <2> QED BY <1>1, <1>3, <2>1, OfThree
  <1>5. /\ g \in Seq(Outgoing) /\ Len(g) = n + k
        /\ \A i \in 1 .. n : g[i] = written[i]
        /\ g[n + 1] = sendChannel[1]
        /\ \A i \in 1 .. k - 1 : g[n + 1 + i] = sendChannel[i + 1]
    <2>1. /\ g \in Seq(Outgoing) /\ Len(g) = n + Len(hand') + Len(sendChannel')
          /\ \A i \in 1 .. n : g[i] = written[i]
          /\ \A i \in 1 .. Len(hand') : g[n + i] = hand'[i]
          /\ \A i \in 1 .. Len(sendChannel') : g[n + Len(hand') + i] = sendChannel'[i]
      <3>1. written \in Seq(Outgoing) /\ hand' \in Seq(Outgoing) /\ sendChannel' \in Seq(Outgoing)
        BY ONLY <1>1, <1>2
      <3> QED BY ONLY <3>1, OfThree
    <2> HIDE DEF g, n, k
    <2>2. Len(sendChannel') = k - 1 /\ Len(hand') = 1 /\ 1 \in 1 .. Len(hand')
      BY <1>2 DEF k
    <2>3. Len(g) = n + k
      BY <1>3, <2>1, <2>2
    <2>4. g[n + 1] = sendChannel[1]
      BY <1>2, <2>1, <2>2
    <2>5. \A i \in 1 .. k - 1 : g[n + 1 + i] = sendChannel[i + 1]
      BY <1>2, <2>1, <2>2
    <2> QED BY <2>1, <2>3, <2>4, <2>5
  <1>6. \A i \in 1 .. n + k : f[i] = g[i]
    <2> HIDE DEF f, g, n, k
    <2> SUFFICES ASSUME NEW i \in 1 .. n + k PROVE f[i] = g[i]
      OBVIOUS
    <2>1. CASE i \in 1 .. n
      BY <1>4, <1>5, <2>1
    <2>2. CASE i = n + 1
      BY <1>3, <1>4, <1>5, <2>2
    <2>3. CASE i > n + 1
      <3>1. i - n - 1 \in 1 .. k - 1 /\ n + 1 + (i - n - 1) = i
        BY <1>3, <2>3
      <3>2. g[i] = sendChannel[i - n - 1 + 1]
        BY <1>5, <3>1
      <3>3. i - n \in 1 .. k /\ n + (i - n) = i /\ i - n - 1 + 1 = i - n
        BY <1>3, <2>3
      <3> QED BY <1>4, <3>2, <3>3
    <2> QED BY <1>3, <2>1, <2>2, <2>3
  <1>7. f = g
    <2> HIDE DEF f, g, n, k
    <2> QED BY <1>3, <1>4, <1>5, <1>6, SeqEqual
  <1> QED BY <1>1, <1>7 DEF Out

LEMMA WriteSame ==
  ASSUME TypeOK, HoldsInv, Write
  PROVE  Out' = Out
  <1>1. /\ written' = written \o hand /\ hand' = <<>> /\ sendChannel' = sendChannel
        /\ written \o hand \in Seq(Outgoing)
    BY DEF Write, TypeOK, chans
  <1>2. (written \o hand) \o <<>> = written \o hand
    BY <1>1, ConcatEmptySeq
  <1> QED BY <1>1, <1>2 DEF Out

LEMMA LostKept ==
  ASSUME TypeOK, HoldsInv, WriteFails
  PROVE  Kept
  <1>1. /\ written' = written /\ hand' = <<>> /\ sendChannel' = sendChannel
        /\ written \in Seq(Outgoing) /\ hand \in Seq(Outgoing)
        /\ sendChannel \in Seq(Outgoing) /\ <<>> \in Seq(Outgoing)
    BY DEF WriteFails, TypeOK, chans
  <1> DEFINE n == Len(written)  k == Len(sendChannel)  l == Len(hand)
             At(i) == IF i <= n THEN i ELSE i + l
  <1>2. n \in Nat /\ k \in Nat /\ l \in Nat
    BY <1>1
  <1>3. /\ Len(Out) = n + l + k
        /\ \A i \in 1 .. n : Out[i] = written[i]
        /\ \A i \in 1 .. k : Out[n + l + i] = sendChannel[i]
    BY <1>1, OfThree DEF Out
  <1>4. /\ Len(Out') = n + k
        /\ \A i \in 1 .. n : Out'[i] = written[i]
        /\ \A i \in 1 .. k : Out'[n + i] = sendChannel[i]
    <2>1. Out' = written \o <<>> \o sendChannel /\ Len(<<>>) = 0
      BY <1>1 DEF Out
    <2>2. /\ Len(written \o <<>> \o sendChannel) = n + 0 + k
          /\ \A i \in 1 .. n : (written \o <<>> \o sendChannel)[i] = written[i]
          /\ \A i \in 1 .. k : (written \o <<>> \o sendChannel)[n + 0 + i] = sendChannel[i]
      BY <1>1, <2>1, OfThree
    <2> QED BY <1>2, <2>1, <2>2
  <1> HIDE DEF n, k, l
  <1>5. \A i \in 1 .. Len(Out') : At(i) \in 1 .. Len(Out) /\ Out'[i] = Out[At(i)]
    <2> SUFFICES ASSUME NEW i \in 1 .. Len(Out')
                 PROVE  At(i) \in 1 .. Len(Out) /\ Out'[i] = Out[At(i)]
      OBVIOUS
    <2>1. CASE i <= n
      <3>1. i \in 1 .. n /\ i \in 1 .. Len(Out)
        BY <1>2, <1>3, <1>4, <2>1
      <3> QED BY <1>3, <1>4, <2>1, <3>1
    <2>2. CASE ~(i <= n)
      <3>1. i - n \in 1 .. k /\ i + l \in 1 .. Len(Out)
            /\ n + (i - n) = i /\ n + l + (i - n) = i + l
        BY <1>2, <1>3, <1>4, <2>2
      <3>2. Out'[i] = sendChannel[i - n] /\ Out[i + l] = sendChannel[i - n]
        BY <1>3, <1>4, <3>1
      <3> QED BY <2>2, <3>1, <3>2
    <2> QED BY <2>1, <2>2
  <1>6. \A i, j \in 1 .. Len(Out') : i < j => At(i) < At(j)
    BY <1>2, <1>4
  <1> HIDE DEF At
  <1> QED BY <1>5, <1>6 DEF Kept

LEMMA SendsAppend ==
  ASSUME TypeOK, NEW o \in Outgoing, Send(o), UNCHANGED <<written, hand>>
  PROVE  Out' = Append(Out, o)
  <1>1. /\ written \in Seq(Outgoing) /\ hand \in Seq(Outgoing)
        /\ sendChannel \in Seq(Outgoing) /\ sendChannel' = Append(sendChannel, o)
    BY DEF Send, TypeOK
  <1> DEFINE v == written \o hand
  <1>2. v \in Seq(Outgoing)
    BY <1>1
  <1> HIDE DEF v
  <1>3. v \o Append(sendChannel, o) = Append(v \o sendChannel, o)
    BY <1>1, <1>2
  <1> QED BY <1>1, <1>3 DEF Out, v

LEMMA OutSteps ==
  ASSUME TypeOK, HoldsInv, [Next]_vars
  PROVE  \/ Kept
         \/ \E m \in Messages : CallbackSends(m) /\ Out' = Append(Out, Push(m))
         \/ \E m \in Messages : Reply(m) /\ Out' = Append(Out, Answer(m))
  <1>1. CASE UNCHANGED <<written, hand, sendChannel>>
    BY <1>1, SameKept DEF Out
  <1> USE DEF send, chans
  <1>2. CASE UNCHANGED vars
    BY <1>1, <1>2 DEF vars
  <1>3. CASE Next
    <2>1. ServeHTTP => UNCHANGED <<written, hand, sendChannel>>
      BY DEF ServeHTTP, WaitReturns, UnsetServer, HandleClose, CloseWs
    <2>2. RecvLoop => UNCHANGED <<written, hand, sendChannel>>
      BY DEF RecvLoop, Read, ReadFails, Dispatch, InlineReturns, RecvLoopEnds
    <2>3. ASSUME SendLoop PROVE Kept
      <3>1. SenderStops \/ WritePanics => UNCHANGED <<written, hand, sendChannel>>
        BY DEF SenderStops, WritePanics
      <3> QED BY <1>1, <2>3, <3>1, TakesSame, WriteSame, LostKept, SameKept
              DEF SendLoop, Out
    <2>4. ASSUME \/ ClientCloses \/ RootCanceled \/ ServerCanceled
                 \/ \E m \in Messages : ClientSends(m)
          PROVE  UNCHANGED <<written, hand, sendChannel>>
      BY <2>4 DEF ClientCloses, RootCanceled, ServerCanceled, ClientSends
    <2>5. ASSUME NEW m \in Messages, Handle(m)
          PROVE  \/ UNCHANGED <<written, hand, sendChannel>>
                 \/ CallbackSends(m) /\ Out' = Append(Out, Push(m))
                 \/ Reply(m) /\ Out' = Append(Out, Answer(m))
      <3>1. Answer(m) \in Outgoing /\ Push(m) \in Outgoing
        BY DEF Answer, Push, Outgoing
      <3>2. UNCHANGED <<written, hand>>
        BY <2>5, HandleMoves
      <3>3. StartFeed(m) \/ FeedReturns(m) \/ Fail(m) =>
              UNCHANGED <<written, hand, sendChannel>>
        BY DEF StartFeed, FeedReturns, Fail
      <3>4. CASE CallbackSends(m)
        BY <3>1, <3>2, <3>4, SendsAppend DEF CallbackSends
      <3>5. CASE Reply(m)
        BY <3>1, <3>2, <3>5, SendsAppend DEF Reply
      <3> QED BY <2>5, <3>3, <3>4, <3>5 DEF Handle
    <2> QED BY <1>1, <1>3, <2>1, <2>2, <2>3, <2>4, <2>5 DEF Next
  <1> QED BY <1>2, <1>3

LEMMA PassedStays ==
  ASSUME TypeOK, HoldsInv, HandlerInv, [Next]_vars,
         NEW o \in Outgoing, handler[o.of] \in Passed(o)
  PROVE  handler'[o.of] \in Passed(o)
  <1>1. CASE UNCHANGED handler
    BY <1>1
  <1>0. o.of \in Messages /\ handler[o.of] # "idle"
    BY DEF Outgoing, Passed
  <1>2. CASE UNCHANGED vars
    BY <1>1, <1>2 DEF vars
  <1>3. CASE Next
    <2>1. OtherStep => UNCHANGED handler
      BY OtherMoves
    <2>2. \A m \in Messages : ClientSends(m) => UNCHANGED handler
      BY DEF ClientSends
    <2>3. ASSUME RecvLoop PROVE handler'[o.of] = handler[o.of]
      <3>1. CASE Dispatch
        <4>1. handler[received[1]] = "idle" /\ received[1] \in Messages
          BY <3>1, LenFacts DEF Dispatch, HandlerInv, HoldsInv
        <4> QED BY <1>0, <3>1, <4>1 DEF Dispatch, HandlerGoto, TypeOK
      <3> QED BY <2>3, <3>1 DEF RecvLoop, Read, ReadFails, InlineReturns, RecvLoopEnds
    <2>4. ASSUME NEW m \in Messages, Handle(m) PROVE handler'[o.of] \in Passed(o)
      <3>1. CASE o.of # m
        BY <1>0, <2>4, <3>1, HandleMoves
      <3>2. CASE o.of = m
        <4>1. handler[m] \notin {"idle", "ended"}
          BY <2>4, HandleMoves
        <4>2. o.kind # "answer" /\ handler[m] \in {"running", "reply", "fail"}
          BY <3>2, <4>1 DEF Passed
        <4>3. handler'[m] \in {"running", "reply", "fail", "ended"}
          BY <2>4, <4>2, HandleMoves
        <4> QED BY <3>2, <4>2, <4>3 DEF Passed
      <3> QED BY <3>1, <3>2
    <2> QED BY <1>1, <1>3, <2>1, <2>2, <2>3, <2>4, NextCases
  <1> QED BY <1>2, <1>3

\* What is appended was not there before, and now its handler has passed it.
LEMMA AppendedStep ==
  ASSUME TypeOK, HoldsInv, HandlerInv, OutInv, [Next]_vars,
         NEW o \in Outgoing, Out' = Append(Out, o),
         handler[o.of] \notin Passed(o), handler'[o.of] \in Passed(o)
  PROVE  OutInv'
  <1>1. Out \in Seq(Outgoing) /\ \A i \in 1 .. Len(Out) : Out[i] \in Outgoing
    BY OutType
  <1>2. /\ Len(Out') = Len(Out) + 1 /\ Out'[Len(Out) + 1] = o
        /\ \A i \in 1 .. Len(Out) : Out'[i] = Out[i]
    <2> HIDE DEF Out
    <2> QED BY <1>1
  <1>3. Len(Out) \in Nat
    BY <1>1
  <1>4. \A i \in 1 .. Len(Out) : handler[Out[i].of] \in Passed(Out[i])
    BY DEF OutInv
  <1>5. \A i \in 1 .. Len(Out) : Out[i] # o
    BY <1>4
  <1>6. \A i \in 1 .. Len(Out) : handler'[Out[i].of] \in Passed(Out[i])
    BY <1>1, <1>4, PassedStays
  <1>7. \A i \in 1 .. Len(Out') : i \in 1 .. Len(Out) \/ i = Len(Out) + 1
    BY <1>2, <1>3
  <1>8. \A i \in 1 .. Len(Out') : handler'[Out'[i].of] \in Passed(Out'[i])
    BY <1>2, <1>6, <1>7
  <1>9. \A i, j \in 1 .. Len(Out) : i # j => Out[i] # Out[j]
    BY DEF OutInv, WrittenOnce, Out
  <1>10. \A i, j \in 1 .. Len(Out') : i # j => Out'[i] # Out'[j]
    BY <1>2, <1>5, <1>7, <1>9
  <1>11. WrittenOnce'
    BY <1>10 DEF WrittenOnce, Out
  <1> QED BY <1>8, <1>11 DEF OutInv, Passed

LEMMA OutStep ==
  ASSUME TypeOK, HoldsInv, HandlerInv, OutInv, [Next]_vars
  PROVE  OutInv'
  <1>1. CASE Kept
    <2>1. \A i \in 1 .. Len(Out) : /\ Out[i] \in Outgoing
                                  /\ handler[Out[i].of] \in Passed(Out[i])
      BY OutType DEF OutInv
    <2>2. \A i \in 1 .. Len(Out) : handler'[Out[i].of] \in Passed(Out[i])
      BY <2>1, PassedStays
    <2>3. \A i \in 1 .. Len(Out') : handler'[Out'[i].of] \in Passed(Out'[i])
      BY <1>1, <2>2 DEF Kept
    <2>4. \A i, j \in 1 .. Len(Out) : i < j => Out[i] # Out[j]
      <3>1. \A i, j \in 1 .. Len(Out) : i # j => Out[i] # Out[j]
        BY ONLY OutInv DEF OutInv, WrittenOnce, Out
      <3>2. Len(Out) \in Nat
        BY OutType, LenProperties
      <3>3. \A i, j \in 1 .. Len(Out) : i < j => i # j
        BY ONLY <3>2
      <3> QED BY ONLY <3>1, <3>3
    <2>5. \A i, j \in 1 .. Len(Out') : i < j => Out'[i] # Out'[j]
      BY <1>1, <2>4 DEF Kept
    <2>6. \A i, j \in 1 .. Len(Out') : i # j => i < j \/ j < i
      OBVIOUS
    <2>7. WrittenOnce'
      BY <2>5, <2>6 DEF WrittenOnce, Out
    <2> QED BY <2>3, <2>7 DEF OutInv, Passed
  <1>2. ASSUME NEW m \in Messages, CallbackSends(m), Out' = Append(Out, Push(m))
        PROVE  OutInv'
    <2>1. Push(m) \in Outgoing /\ Push(m).of = m
      BY DEF Push, Outgoing
    <2>2. handler[m] = "push" /\ handler'[m] = "running"
      BY <1>2 DEF CallbackSends, HandlerGoto, TypeOK
    <2>3. Passed(Push(m)) = {"running", "reply", "fail", "ended"}
      BY DEF Passed, Push
    <2> QED BY <1>2, <2>1, <2>2, <2>3, AppendedStep
  <1>3. ASSUME NEW m \in Messages, Reply(m), Out' = Append(Out, Answer(m))
        PROVE  OutInv'
    <2>1. Answer(m) \in Outgoing /\ Answer(m).of = m
      BY DEF Answer, Outgoing
    <2>2. handler[m] = "reply" /\ handler'[m] = "ended"
      BY <1>3 DEF Reply, HandlerGoto, TypeOK
    <2>3. Passed(Answer(m)) = {"ended"}
      BY DEF Passed, Answer
    <2> QED BY <1>3, <2>1, <2>2, <2>3, AppendedStep
  <1> QED BY <1>1, <1>2, <1>3, OutSteps

-----------------------------------------------------------------------------
(* The order of what a session without SpawnGoroutine writes.              *)

LEMMA PrecedesStays ==
  ASSUME TypeOK, HoldsInv, InboxInv, HandlerInv, [Next]_vars,
         NEW o \in Outgoing, NEW p \in Outgoing, Precedes(o, p)
  PROVE  Precedes(o, p)'
  <1>1. \A i \in 1 .. Len(sent) : i \in 1 .. Len(sent') /\ sent'[i] = sent[i]
    <2>1. CASE sent' = sent
      BY <2>1
    <2>2. ASSUME NEW m \in Messages, ClientSends(m)
          PROVE  \A i \in 1 .. Len(sent) : i \in 1 .. Len(sent') /\ sent'[i] = sent[i]
      BY <2>2, ClientSendsStep, LenFacts
    <2>3. UNCHANGED vars => sent' = sent
      BY DEF vars, client
    <2>4. RecvLoop => sent' = sent
      BY DEF RecvLoop, Read, ReadFails, Dispatch, InlineReturns, RecvLoopEnds, client
    <2>5. \A m \in Messages : Handle(m) => sent' = sent
      BY HandleMoves
    <2>6. OtherStep => sent' = sent
      BY OtherMoves
    <2> QED BY <2>1, <2>2, <2>3, <2>4, <2>5, <2>6, NextCases
  <1> QED BY <1>1 DEF Precedes

\* The handler that sends is that of the message read last, and whatever is
\* under way answers a message read before, or was pushed by this very one.
LEMMA LastPrecedes ==
  ASSUME TypeOK, HoldsInv, InboxInv, HandlerInv, OutInv, InlineInv, ~SpawnGoroutine,
         NEW m \in Messages, handler[m] \notin {"idle", "ended"},
         NEW p \in Outgoing, p.of = m, NEW i \in 1 .. Len(Out)
  PROVE  Precedes(Out[i], p)
  <1>1. recvLoop = "inline" /\ received[1] = m
    BY DEF InlineInv
  <1>2. ReadUpTo >= 1 /\ sent[ReadUpTo] = m
    BY <1>1 DEF InboxInv
  <1>3. ReadUpTo \in 1 .. Len(sent)
    BY <1>2, LenFacts DEF ReadUpTo
  <1>4. Out[i] \in Outgoing /\ Out[i].of \in Messages
    BY OutType DEF Outgoing
  <1>5. handler[Out[i].of] \in Passed(Out[i])
    BY DEF OutInv
  <1>6. handler[Out[i].of] # "idle"
    BY <1>5 DEF Passed
  <1>7. PICK a \in 1 .. ReadUpTo : sent[a] = Out[i].of
    BY <1>4, <1>6 DEF HandlerInv
  <1>8. a \in 1 .. Len(sent) /\ a <= ReadUpTo
    BY <1>3, <1>7
  <1>9. a = ReadUpTo => Out[i].kind = "push"
    <2> SUFFICES ASSUME a = ReadUpTo PROVE Out[i].kind = "push"
      OBVIOUS
    <2>1. Out[i].of = m
      BY <1>2, <1>7
    <2>2. Out[i].kind # "answer"
      BY <1>5, <2>1 DEF Passed
    <2> QED BY <1>4, <2>2 DEF Outgoing
  <1> QED BY <1>2, <1>3, <1>7, <1>8, <1>9 DEF Precedes

LEMMA OrderStep ==
  ASSUME TypeOK, HoldsInv, InboxInv, HandlerInv, OutInv, InlineInv, OrderInv,
         [Next]_vars
  PROVE  OrderInv'
  <1>1. SpawnGoroutine' = SpawnGoroutine
    BY NextCases DEF vars, SpawnGoroutine
  <1> SUFFICES ASSUME ~SpawnGoroutine
               PROVE  \A i, j \in 1 .. Len(Out') : i < j => Precedes(Out[i], Out[j])'
    BY <1>1 DEF OrderInv
  <1>2. \A i \in 1 .. Len(Out) : Out[i] \in Outgoing
    BY OutType
  <1>3. \A i, j \in 1 .. Len(Out) : i < j => Precedes(Out[i], Out[j])
    BY DEF OrderInv
  <1>4. ASSUME NEW o \in Outgoing, NEW p \in Outgoing, Precedes(o, p)
        PROVE  \E a, b \in 1 .. Len(sent') :
                 /\ a <= b /\ sent'[a] = o.of /\ sent'[b] = p.of
                 /\ a = b => o.kind = "push"
    BY <1>4, PrecedesStays DEF Precedes
  <1>5. CASE Kept
    <2> SUFFICES ASSUME NEW i \in 1 .. Len(Out'), NEW j \in 1 .. Len(Out'), i < j
                 PROVE  Precedes(Out[i], Out[j])'
      OBVIOUS
    <2>1. PICK a \in 1 .. Len(Out), b \in 1 .. Len(Out) :
            a < b /\ Out'[i] = Out[a] /\ Out'[j] = Out[b]
      BY <1>5 DEF Kept
    <2>2. Precedes(Out[a], Out[b]) /\ Out[a] \in Outgoing /\ Out[b] \in Outgoing
      BY <1>2, <1>3, <2>1
    <2>3. \E c, d \in 1 .. Len(sent') :
            /\ c <= d /\ sent'[c] = Out[a].of /\ sent'[d] = Out[b].of
            /\ c = d => Out[a].kind = "push"
      BY ONLY <1>4, <2>2
    <2> QED BY ONLY <2>1, <2>3 DEF Precedes
  <1>6. ASSUME NEW m \in Messages, handler[m] \notin {"idle", "ended"},
               NEW p \in Outgoing, p.of = m, Out' = Append(Out, p)
        PROVE  \A i, j \in 1 .. Len(Out') : i < j => Precedes(Out[i], Out[j])'
    <2>1. /\ Len(Out') = Len(Out) + 1 /\ Out'[Len(Out) + 1] = p
          /\ \A i \in 1 .. Len(Out) : Out'[i] = Out[i]
      <3>1. Out \in Seq(Outgoing)
        BY OutType
      <3> HIDE DEF Out
      <3> QED BY <1>6, <3>1
    <2>2. Len(Out) \in Nat
      BY OutType
    <2> SUFFICES ASSUME NEW i \in 1 .. Len(Out'), NEW j \in 1 .. Len(Out'), i < j
                 PROVE  Precedes(Out[i], Out[j])'
      OBVIOUS
    <2>3. i \in 1 .. Len(Out)
      BY <2>1, <2>2
    <2>4. CASE j = Len(Out) + 1
      <3>1. Precedes(Out[i], p)
        BY <1>6, <2>3, LastPrecedes
      <3> QED BY <1>2, <1>4, <2>1, <2>3, <2>4, <3>1 DEF Precedes
    <2>5. CASE j \in 1 .. Len(Out)
      <3>1. Precedes(Out[i], Out[j]) /\ Out[i] \in Outgoing /\ Out[j] \in Outgoing
        BY <1>2, <1>3, <2>3, <2>5
      <3>2. Out'[i] = Out[i] /\ Out'[j] = Out[j]
        BY <2>1, <2>3, <2>5
      <3> QED BY <1>4, <3>1, <3>2 DEF Precedes
    <2> QED BY <2>1, <2>2, <2>4, <2>5
  <1>7. ASSUME NEW m \in Messages, CallbackSends(m), Out' = Append(Out, Push(m))
        PROVE  \A i, j \in 1 .. Len(Out') : i < j => Precedes(Out[i], Out[j])'
    <2>1. handler[m] = "push" /\ Push(m) \in Outgoing /\ Push(m).of = m
      BY <1>7 DEF CallbackSends, Push, Outgoing
    <2> QED BY <1>6, <1>7, <2>1
  <1>8. ASSUME NEW m \in Messages, Reply(m), Out' = Append(Out, Answer(m))
        PROVE  \A i, j \in 1 .. Len(Out') : i < j => Precedes(Out[i], Out[j])'
    <2>1. handler[m] = "reply" /\ Answer(m) \in Outgoing /\ Answer(m).of = m
      BY <1>8 DEF Reply, Answer, Outgoing
    <2> QED BY <1>6, <1>8, <2>1
  <1> QED BY <1>5, <1>7, <1>8, OutSteps

-----------------------------------------------------------------------------
(* The theorems.                                                           *)

LEMMA InvStep == Inv /\ [Next]_vars => Inv'
  <1> SUFFICES ASSUME Inv, [Next]_vars PROVE Inv'
    OBVIOUS
  <1> USE DEF Inv
  <1>1. TypeOK' /\ HoldsInv'
    BY TypeStep
  <1>2. InboxInv' /\ HandlerInv'
    BY InboxStep
  <1>3. OutInv'
    BY OutStep
  <1>4. InlineInv'
    BY InlineStep
  <1>5. OrderInv'
    BY OrderStep
  <1>6. ReasonInv'
    BY ReasonStep
  <1> QED BY <1>1, <1>2, <1>3, <1>4, <1>5, <1>6

LEMMA InvAlways == Spec => []Inv
  BY InvInit, InvStep, PTL DEF Spec

\* The channels never hold more than their capacity, and the fields of a session
\* stay what the code declares, however its goroutines interleave.
THEOREM Types == Spec => []TypeOK
  <1>1. Inv => TypeOK
    BY DEF Inv
  <1> QED BY <1>1, InvAlways, PTL

\* sendLoop, the field sendChannel and Send: no handler's answer and no pushed
\* message goes out twice, nor goes out and stays in the channel.
THEOREM NothingTwice == Spec => []WrittenOnce
  <1>1. Inv => WrittenOnce
    BY DEF Inv, OutInv
  <1> QED BY <1>1, InvAlways, PTL

\* recvLoop calls msgReceived itself when SpawnGoroutine is off: the client gets
\* its answers in the order of its requests, each after what its callback sent.
THEOREM AnswersInOrder == Spec => []InOrderInline
  <1>1. Inv => InOrderInline
    <2> SUFFICES ASSUME Inv, ~SpawnGoroutine,
                        NEW i \in 1 .. Len(written), NEW j \in 1 .. Len(written), i < j
                 PROVE  Precedes(written[i], written[j])
      BY DEF InOrderInline, Precedes
    <2>1. /\ written \in Seq(Outgoing) /\ hand \in Seq(Outgoing)
          /\ sendChannel \in Seq(Outgoing)
      BY DEF Inv, TypeOK
    <2>2. Len(Out) = Len(written) + Len(hand) + Len(sendChannel)
          /\ Out[i] = written[i] /\ Out[j] = written[j]
      BY <2>1, OfThree DEF Out
    <2>3. i \in 1 .. Len(Out) /\ j \in 1 .. Len(Out)
      BY <2>1, <2>2
    <2>4. Precedes(Out[i], Out[j])
      BY <2>3 DEF Inv, OrderInv
    <2> QED BY <2>2, <2>4
  <1> QED BY <1>1, InvAlways, PTL

\* wait: HandleClose is called for a client that has gone, a server that was
\* stopped or a message that cannot be parsed or is refused, and never because
\* of other messages or of a write that failed.
THEOREM EndsForAReason == Spec => []ClosedForAReason
  <1>1. Inv => ClosedForAReason
    BY DEF Inv, HoldsInv, ReasonInv, Reason, ClosedForAReason
  <1> QED BY <1>1, InvAlways, PTL
=============================================================================
