-------------------------------- MODULE Actor --------------------------------
(***************************************************************************)
(* The tree of actors that a server feeds with messages (http/request.go). *)
(* An actor has handlers for methods, perhaps a handler for what is        *)
(* missing and one for the end of a session, and children.  Who answers is *)
(* decided here; what a callback does is up to the program, so a callback  *)
(* is known by its outcome.                                                *)
(*                                                                         *)
(* Handlers are registered before messages are fed, as every program of    *)
(* the repository does: the handlers are in a plain map.                   *)
(***************************************************************************)
EXTENDS Integers, Sequences, FiniteSets, SequencesExt

CONSTANTS
  Actors, Root, \* the actors, and the one messages are fed to
  Methods,
  Nobody,       \* not an actor
  Registrations, Links, MissingAt, CloseAt \* what the program may register

ASSUME ActorAssumption ==
  /\ Root \in Actors /\ Nobody \notin Actors
  /\ Registrations \subseteq Actors \X Methods \X {"plain", "schema"}
  /\ Links \subseteq Actors \X Actors
  /\ MissingAt \subseteq Actors /\ CloseAt \subseteq Actors

\* valid: the params fit the schemas; a reply is a result or an error.
Message == [type : {"request", "notify", "reply"}, method : Methods,
            valid : BOOLEAN]

VARIABLES
  methodHandlers, \* methodHandlers[a][m]: "none", "plain", "schema"
  missingHandler, \* the actors that have a missing handler
  closeHandler,   \* the actors that have a close handler
  children        \* children[a]: a sequence of actors

actorVars == <<methodHandlers, missingHandler, closeHandler, children>>

ActorInit ==
  /\ methodHandlers = [a \in Actors |-> [m \in Methods |-> "none"]]
  /\ missingHandler = {} /\ closeHandler = {}
  /\ children = [a \in Actors |-> <<>>]

-----------------------------------------------------------------------------
(* Registration.                                                           *)

\* A method that has a handler already keeps it; On and OnTyped then panic.
OnRequest(a, m, h) ==
  /\ methodHandlers[a][m] = "none"
  /\ methodHandlers' = [methodHandlers EXCEPT ![a][m] = h]
  /\ UNCHANGED <<missingHandler, closeHandler, children>>

Off(a, m) ==
  /\ methodHandlers[a][m] # "none"
  /\ methodHandlers' = [methodHandlers EXCEPT ![a][m] = "none"]
  /\ UNCHANGED <<missingHandler, closeHandler, children>>

OnMissing(a) ==
  /\ a \notin missingHandler
  /\ missingHandler' = missingHandler \cup {a}
  /\ UNCHANGED <<methodHandlers, closeHandler, children>>

OnClose(a) ==
  /\ a \notin closeHandler
  /\ closeHandler' = closeHandler \cup {a}
  /\ UNCHANGED <<methodHandlers, missingHandler, children>>

AddChild(a, b) ==
  /\ children' = [children EXCEPT ![a] = Append(@, b)]
  /\ UNCHANGED <<methodHandlers, missingHandler, closeHandler>>

Descendants ==
  LET below[a \in Actors] ==
        {a} \cup UNION {below[children[a][i]] : i \in DOMAIN children[a]}
  IN below

\* What the program registers.  AddChild does not ask whether the child has a
\* parent already or is an ancestor; programs build trees.
Register ==
  \/ \E reg \in Registrations : OnRequest(reg[1], reg[2], reg[3])
  \/ \E reg \in Registrations : Off(reg[1], reg[2])
  \/ \E a \in MissingAt : OnMissing(a)
  \/ \E a \in CloseAt : OnClose(a)
  \/ \E link \in Links :
       /\ \A a \in Actors : link[2] \notin ToSet(children[a])
       /\ link[1] \notin Descendants[link[2]]
       /\ AddChild(link[1], link[2])

-----------------------------------------------------------------------------
(* Lookups.                                                                *)

Has(m) ==
  LET has[a \in Actors] == \/ methodHandlers[a][m] # "none"
                           \/ \E i \in DOMAIN children[a] : has[children[a][i]]
  IN has

\* The methods of a tree, those of the actor itself first.
MethodList ==
  LET list[a \in Actors] ==
        SetToSeq({m \in Methods : methodHandlers[a][m] # "none"})
          \o FlattenSeq([i \in DOMAIN children[a] |-> list[children[a][i]]])
  IN list

\* The actor whose schema GetSchema returns for m, or Nobody.
GetSchema(m) ==
  LET get[a \in Actors] ==
        IF methodHandlers[a][m] = "schema" THEN a
        ELSE LET found == [i \in DOMAIN children[a] |-> get[children[a][i]]]
                 first == SelectInSeq(found, LAMBDA b : b # Nobody)
             IN IF first = 0 THEN Nobody ELSE found[first]
  IN get

-----------------------------------------------------------------------------
(* Feed: who is called.                                                    *)

\* Mutant: the last child that has the method.
LastChildWith(a, m) ==
  LET last == SelectLastInSeq(children[a], LAMBDA b : Has(m)[b])
  IN IF last = 0 THEN Nobody ELSE children[a][last]

\* The first child that has a handler for m below it.
ChildWith(a, m) ==
  LET first == SelectInSeq(children[a], LAMBDA b : Has(m)[b])
  IN IF first = 0 THEN Nobody ELSE children[a][first]

\* What Feed decides before it calls anything: [does, actor].  does is
\* "callback", "missing", "missing unguarded" (without a recover), "invalid",
\* "not found" or "nothing".
Decision(does, a) == [does |-> does, actor |-> a]

\* Mutant: the params of notifications are not looked at.
InvalidRequest(a, msg) ==
  methodHandlers[a][msg.method] = "schema" /\ ~msg.valid /\ msg.type = "request"

\* ValidateSchema is on, as NewActor leaves it.
Invalid(a, msg) == methodHandlers[a][msg.method] = "schema" /\ ~msg.valid

Feed(msg) ==
  LET feed[a \in Actors] ==
        IF msg.type \notin {"request", "notify"} THEN
          IF a \in missingHandler THEN Decision("missing unguarded", a)
                                  ELSE Decision("nothing", a)
        ELSE IF methodHandlers[a][msg.method] # "none" THEN
          Decision(IF Invalid(a, msg) THEN "invalid" ELSE "callback", a)
        ELSE IF ChildWith(a, msg.method) # Nobody THEN
          feed[ChildWith(a, msg.method)]
        ELSE IF a \in missingHandler THEN Decision("missing", a)
        ELSE Decision(IF msg.type = "request" THEN "not found" ELSE "nothing", a)
  IN feed

-----------------------------------------------------------------------------
(* What becomes of the outcome of a callback.                              *)

\* how: it returns or panics; what: a value, a value json cannot marshal, a
\* jlib.Message, or an error, of type *RPCError, *WrappedResponse,
\* *SimpleResponse or another; a panic may also carry what is no error.
Errors == {"RPCError", "WrappedResponse", "SimpleResponse", "error"}
Outcome == [how : {"returns"}, what : {"value", "opaque", "message"} \cup Errors]
             \cup [how : {"panics"}, what : Errors \cup {"other"}]

\* A pair of Feed's results: a message (of which Body says what it is) or
\* "nil", and an error or "nil".
Pair(message, error) == [message |-> message, error |-> error]

ResultOrError(what) ==
  CASE what = "WrappedResponse" -> Pair("nil", "WrappedResponse")
    [] what = "RPCError" -> Pair("RPCError", "nil")
    [] what \in {"SimpleResponse", "error"} -> Pair("internal error", "nil")
    [] OTHER -> Pair(what, "nil")

\* Mutant: the error of a notification is dropped.
ForgetNotifyErrors(what, msg) ==
  IF msg.type = "request" THEN ResultOrError(what) ELSE Pair("nil", "nil")

\* Mutant: every message gets a result.
AnswerAnyMessage(what, msg) == ResultOrError(what)

wrapResult(what, msg) ==
  IF msg.type = "request" THEN ResultOrError(what)
  ELSE Pair("nil", IF what \in Errors THEN what ELSE "nil")

\* A panic goes through if nobody recovers, or if it carries no error.
\* RecoverFromPanic is on, as NewActor leaves it.
PanicsThrough(decision, outcome) ==
  /\ outcome.how = "panics"
  /\ outcome.what = "other" \/ decision.does = "missing unguarded"

-----------------------------------------------------------------------------
(* The end of a session.                                                   *)

\* Mutant: the close handlers of the children only if there is none above.
CloseCallsOverridden ==
  LET calls[a \in Actors] ==
        IF a \in closeHandler THEN <<a>>
        ELSE FlattenSeq([i \in DOMAIN children[a] |-> calls[children[a][i]]])
  IN calls

\* HandleClose: the actors whose close handler is called, in order.
CloseCalls ==
  LET calls[a \in Actors] ==
        FlattenSeq([i \in DOMAIN children[a] |-> calls[children[a][i]]])
          \o (IF a \in closeHandler THEN <<a>> ELSE <<>>)
  IN calls

-----------------------------------------------------------------------------
(* Properties.                                                             *)

Preorder ==
  LET pre[a \in Actors] ==
        <<a>> \o FlattenSeq([i \in DOMAIN children[a] |-> pre[children[a][i]]])
  IN pre

HandlerOf(m) ==
  Preorder[Root][SelectInSeq(Preorder[Root], LAMBDA a : methodHandlers[a][m] # "none")]

\* A method is answered by the first actor of the tree, parents before children
\* and elder before younger, that has a handler for it; the missing handler, the
\* root's only, and the error "method not found" are for methods MethodList does
\* not show (Feed, Has and MethodList walk the tree each in its own way).
HandledByFirst ==
  \A msg \in Message :
    LET d == Feed(msg)[Root] IN
    /\ d.does \in {"callback", "invalid"} => d.actor = HandlerOf(msg.method)
    /\ d.does \in {"missing", "missing unguarded"} => d.actor = Root
    /\ msg.type # "reply" =>
         (d.does \in {"callback", "invalid"}
            <=> msg.method \in ToSet(MethodList[Root]))

\* No callback whose handler has a schema is called with params that do not fit
\* it, for requests and notifications alike, and a schema messages are refused
\* by is the one GetSchema shows (Feed and GetSchema).
SchemaGuards ==
  \A msg \in Message :
    LET d == Feed(msg)[Root] IN
    /\ d.does = "callback" => msg.valid \/ methodHandlers[d.actor][msg.method] = "plain"
    /\ d.does = "invalid" => ~msg.valid /\ GetSchema(msg.method)[Root] = d.actor

\* At the end of a session every close handler of the tree is called, once, and
\* those of children before their parents' (HandleClose).
ClosedEverywhere ==
  LET calls == CloseCalls[Root] IN
  /\ ToSet(calls) = closeHandler \cap Descendants[Root]
  /\ IsInjective(calls)
  /\ \A i, j \in DOMAIN calls : i < j => calls[j] \notin Descendants[calls[i]]

=============================================================================
