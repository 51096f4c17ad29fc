------------------------------- MODULE Exchange -------------------------------
(***************************************************************************)
(* One message and its answer, all the way: a caller makes it, a streaming *)
(* client may replace an id that is in use (http/streaming_client.go), the *)
(* wire carries it, the tree of actors (Actor) handles it, the answer goes *)
(* back and gets the caller's id again.  Or a peer sends what it likes.    *)
(***************************************************************************)
EXTENDS Actor, Messages

CONSTANTS Asked,   \* the requests and notifications callers may make
          Unions,  \* what peers may send
          Others,  \* what other peers may send to the program, which hands it on
          Signatures \* of typed handlers: which of their parameters are interfaces

ASSUME ExchangeAssumption ==
  /\ "" \notin Methods
  /\ \A a \in Asked :
       /\ a.id \in Ids /\ a.method \in Methods /\ IsParams(a.params)
       /\ \/ a = SetTraceId(NewRequestMessage(a.id, a.method, a.params), a.trace)
          \/ a = SetTraceId(NewNotifyMessage(a.method, a.params), a.trace)
  /\ \A un \in Unions \cup Others : IsUnion(un) /\ un.method \in Methods \cup {""}
  /\ Signatures \subseteq Seq({"interface", "typed"})

VARIABLES stage,   \* "registering", "made", "arrived", "answered", "returned", or it
                   \* ended: "restored", "handed", "refused", "silent", "panicked"
          asked,   \* what the caller made, or NoMessage
          renamed, \* whether the client has replaced its id
          seen,    \* what the actors were fed
          outcome, \* what the handler returned or panicked with, or "none"
          msg      \* the message as it is now

exchangeVars == <<stage, asked, renamed, seen, outcome, msg>>

ExchangeInit ==
  /\ ActorInit
  /\ stage = "registering" /\ renamed = FALSE /\ outcome = "none"
  /\ asked = NoMessage /\ seen = NoMessage /\ msg = NoMessage

Registering == stage = "registering" /\ Register /\ UNCHANGED exchangeVars

\* Bound: messages are exchanged when all links and close handlers are there.
Ready == /\ stage = "registering" /\ closeHandler = CloseAt
         /\ \A link \in Links : link[2] \in ToSet(children[link[1]])

Ask ==
  /\ Ready
  /\ asked' \in Asked /\ msg' = asked'
  /\ stage' = "made"
  /\ UNCHANGED <<actorVars, renamed, seen, outcome>>

FreshId == [type |-> "string", val |-> 2]

\* The id is in use: the request goes out as a clone with a uuid.
Rename ==
  /\ stage = "made" /\ ~renamed /\ msg.kind = "request"
  /\ renamed' = TRUE /\ msg' = Clone(msg, FreshId)
  /\ UNCHANGED <<actorVars, stage, asked, seen, outcome>>

Arrives(received) ==
  /\ msg' = received /\ seen' = received
  /\ stage' = IF received = Failure THEN "refused" ELSE "arrived"
  /\ UNCHANGED <<actorVars, renamed, outcome>>

Transmit == stage = "made" /\ Arrives(OverTheWire(msg)) /\ UNCHANGED asked

PeerSends == Ready /\ UNCHANGED asked /\ \E un \in Unions : Arrives(DecodeMessage(un))

\* A handler may hand on a message the program got from another peer.
Relayed == {DecodeMessage(un) : un \in Others} \ {Failure}

\* What m may be answered if its handler returned what, or was recovered from it: a
\* message goes out as it is, a WrappedResponse ends a streaming session.
AnswersTo(m, what) ==
  IF m.kind # "request" \/ what \in {"nothing", "WrappedResponse"} THEN {NoMessage}
  ELSE IF what = "value" THEN {NewResultMessage(m, body) : body \in {"nil", "atom"}}
  ELSE IF what = "message" THEN Relayed
  ELSE {NewErrorMessage(m, "error")}

\* wrapTyped: surplus params are dropped, null is the zero value of a type; that of
\* an interface is what reflect refuses to pass on.
TypedCall(sig, given, fits) ==
  LET nulls == {i \in DOMAIN sig : i \in DOMAIN given /\ given[i] = "nil"} IN
  CASE Len(sig) > Len(given) -> "params error"
    [] Len(sig) <= Len(given) /\ ~fits /\ (\E i \in DOMAIN sig \ nulls : sig[i] = "typed") ->
         "params error"
    [] OTHER -> IF \E i \in nulls : sig[i] = "interface" THEN "panics" ELSE "calls"

\* Left out: values json cannot marshal, whose answer is not sent (StreamSession).
Outcomes(does) ==
  CASE does = "nothing" -> {[how |-> "returns", what |-> "nothing"]}
    [] does \in {"invalid", "not found"} -> {[how |-> "returns", what |-> "RPCError"]}
    [] OTHER -> {o \in Outcome : o.what # "opaque"}

Panics(what) == stage' = "panicked" /\ outcome' = what /\ UNCHANGED msg

Answers(what) ==
  /\ outcome' = what
  /\ msg' \in AnswersTo(msg, what)
  /\ stage' = IF msg' = NoMessage THEN "silent" ELSE "answered"

Ends(decision, o) ==
  IF PanicsThrough(decision, o) THEN Panics(o.what) ELSE Answers(o.what)

\* valid: the params fit the schema of the handler, if it has one.
Fed(valid) == [type |-> IF msg.kind \in {"request", "notify"} THEN msg.kind ELSE "reply",
               method |-> msg.method, valid |-> valid]

\* fits: the params can be converted to the types of a typed handler.
Handle ==
  /\ stage = "arrived"
  /\ \E valid, fits \in BOOLEAN :
       LET decision == Feed(Fed(valid))[Root] IN
       \/ \E o \in Outcomes(decision.does) : Ends(decision, o)
       \/ decision.does = "callback" /\ \E sig \in Signatures :
            LET run == TypedCall(sig, msg.params.of, fits) IN
            \/ run = "calls" /\ \E o \in Outcomes("callback") : Ends(decision, o)
            \/ run = "panics" /\ Panics("none")
            \/ run = "params error" /\ Answers("RPCError")
  /\ UNCHANGED <<actorVars, asked, renamed, seen>>

Return ==
  /\ stage = "answered"
  /\ msg' = OverTheWire(msg)
  /\ stage' = "returned"
  /\ UNCHANGED <<actorVars, asked, renamed, seen, outcome>>

\* The id of its entry in pendingRequests, of the Go type the client gave it.
SendId == IF renamed THEN FreshId ELSE asked.id

\* recvLoop and handleResult: a result or an error with the id of the entry, of the
\* same type, is given to the caller with the id it asked with; anything else goes
\* to the message handler.  A client that did not make the request has no entry.
Restore ==
  /\ stage = "returned" /\ asked # NoMessage
  /\ IF msg.kind \in {"result", "error"} /\ msg.id = SendId
     THEN /\ stage' = "restored"
          /\ msg' = IF msg.id # asked.id THEN ReplaceId(msg, asked.id) ELSE msg
     ELSE stage' = "handed" /\ UNCHANGED msg
  /\ UNCHANGED <<actorVars, asked, renamed, seen, outcome>>

Next == Registering \/ Ask \/ Rename \/ Transmit \/ PeerSends \/ Handle \/ Return \/ Restore

ExchangeSpec == ExchangeInit /\ [][Next]_<<actorVars, exchangeVars>>

-----------------------------------------------------------------------------
(* Properties.                                                             *)

\* The params as a handler gets them, if nothing goes wrong.
Meant(m) ==
  IF ~m.params.list /\ m.params.of = <<"typed slice">> THEN <<"atom">>
  ELSE [i \in DOMAIN m.params.of |-> GoValue(Json(m.params.of[i]).json)]

\* A handler sees the method, trace id and params the caller gave, whatever
\* became of the id; though a clone's params go out as a list (messageimpl.go:321)
\* they come in the same.  But a slice of another type that is the params
\* arrives as one argument if the id was in use, and as many if not; and nil
\* params given as a pointer, or an id that is neither a number nor a string, are
\* refused by the reader, not by the constructor.
ArrivesAsMeant ==
  asked # NoMessage /\ stage \in {"arrived", "refused"} =>
    \/ /\ <<seen.kind, seen.method, seen.trace>> = <<asked.kind, asked.method, asked.trace>>
       /\ \/ seen.params.of = Meant(asked)
          \/ renamed /\ asked.params = Params(FALSE, <<"typed slice">>)
    \/ /\ stage = "refused"
       /\ \/ asked.params = Params(FALSE, <<"nil">>)
          \/ asked.id.type = "other"

\* An answer that reaches the caller is a result or an error with the caller's own
\* id, and its trace id unless the handler relayed another's message; it does not
\* reach a caller whose id is an int64 the client did not replace, which comes back
\* as an int (parse.go:42, handleResult), nor perhaps if it was relayed.  Only
\* requests are answered, and one that arrived is, unless its handler gave a
\* WrappedResponse (wrapResult) or panicked past the recover: with what is no error,
\* or with a null for an interface (typewrap.go:153), or at a reply.
AnswerFits ==
  /\ stage = "restored" =>
       /\ msg.kind \in {"result", "error"} /\ msg.id = asked.id
       /\ msg.trace = asked.trace \/ outcome = "message"
       /\ renamed \/ asked.id.type # "int64"
  /\ stage = "handed" => outcome = "message" \/ (asked.id.type = "int64" /\ ~renamed)
  /\ stage \in {"answered", "silent"} =>
       (stage = "answered" <=> seen.kind = "request" /\ outcome # "WrappedResponse")
  /\ stage = "panicked" =>
       \/ outcome = "other" \/ seen.kind \in {"result", "error"}
       \/ outcome = "none" /\ "nil" \in ToSet(seen.params.of)

\* What was read from a peer can be sent on to another, which reads the same: a
\* proxy loses nothing.
SentOnUnchanged == stage \in {"arrived", "returned"} => OverTheWire(msg) = msg
=============================================================================
