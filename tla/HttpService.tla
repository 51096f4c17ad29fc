----------------------------- MODULE HttpService -----------------------------
(***************************************************************************)
(* A service over HTTP: requests pass AuthHandler (http/auth_handler.go),  *)
(* GatewayHandler (http/gateway_handler.go) and H1Handler                  *)
(* (http/h1_server.go), which feeds the tree of Actor; H1Client            *)
(* (http/h1_client.go) makes of the response what its caller gets.         *)
(*                                                                         *)
(* Every request is handled in a goroutine of its own.  They share the     *)
(* cache of JWT claims, and time passes while they run.  What happens      *)
(* within a streaming session is StreamSession's subject; here it begins   *)
(* and ends.                                                               *)
(***************************************************************************)
EXTENDS Actor

CONSTANTS
  Requests,      \* HTTP requests
  Inputs,        \* what clients may send, see HttpRequest
  Insecure,      \* GatewayHandler's option: http2 without TLS
  Tokens,        \* what may follow "Bearer " in a header
  Claims,        \* Claims[t]: what a JWT t says, and whether it is signed
  AuthConfigs,   \* configurations of AuthHandler considered
  Outcomes,      \* what callbacks may do
  Codes,         \* statuses of responses they make, "aborted" for one net/http refuses
  Bodies,        \* what texts they hand on may read as, "none" for no message
  NoRequest,     \* not a request
  CacheCap,      \* size of the claims cache (100 in the code)
  MaxTime        \* bound on the time that passes

Schemes == {"none", "Basic", "Bearer", "bare Bearer"}
NotJsonRpc == [type |-> "bad"]
HttpRequest ==
  [verb : {"POST", "GET"}, http2 : BOOLEAN,
   upgrade : {"none", "websocket", "h2c"},
   scheme : Schemes, token : Tokens,   \* token: for Basic, user and password
   body : Message \cup {NotJsonRpc}]

Statuses == {"200", "400", "401", "404", "405", "408", "500", "502", "aborted"}
Texts == {"none", "value", "RPCError", "internal error", "method not found", "invalid schema"}

ASSUME HttpAssumption ==
  /\ Inputs \subseteq HttpRequest /\ Insecure \in BOOLEAN
  /\ Claims \in [Tokens -> [signed : BOOLEAN, exp : Nat]] \* exp 0: none given
  /\ AuthConfigs \subseteq [on : BOOLEAN, jwt : BOOLEAN,
                            basic : SUBSET Tokens, bearer : SUBSET Tokens]
  /\ Outcomes \subseteq Outcome
  /\ Codes \subseteq Statuses /\ Bodies \subseteq Texts
  /\ CacheCap \in Nat \ {0} /\ MaxTime \in Nat \ {0}

VARIABLES
  serving,   \* registration is over
  config,    \* the AuthConfig, one of AuthConfigs; on = FALSE: nil
  now,       \* time.Now()
  jwtCache,  \* tokens whose claims are cached, the last used first
  http,      \* http[r]: what came in
  pc,        \* pc[r]: where the request's goroutine is
  arrived,   \* arrived[r]: when it came
  fromCache, \* fromCache[r]: jwtAuth has found the claims in the cache
  decision,  \* decision[r]: what Feed has decided for it
  outcome,   \* outcome[r]: what its callback has done
  response,  \* response[r]: the HTTP response, [status, body]
  returned   \* returned[r]: what H1Client has given its caller

auth == <<jwtCache, fromCache>>
work == <<decision, outcome>>
request == <<http, arrived>>
vars == <<actorVars, serving, config, now, auth, pc, request, work, response,
          returned>>

NoOutcome == [how |-> "none", what |-> "none"]
NoDecision == Decision("none", Root)
Response(status, body) == [status |-> status, body |-> body]
NoResponse == Response("none", "none")
\* Status of a connection net/http closes when a handler panics.
Aborted == Response("aborted", "none")

Init ==
  /\ ActorInit
  /\ serving = FALSE /\ config \in AuthConfigs /\ now = 1 /\ jwtCache = <<>>
  /\ http = [r \in Requests |-> NoRequest]
  /\ pc = [r \in Requests |-> "idle"]
  /\ arrived = [r \in Requests |-> 1]
  /\ fromCache = [r \in Requests |-> FALSE]
  /\ decision = [r \in Requests |-> NoDecision]
  /\ outcome = [r \in Requests |-> NoOutcome]
  /\ response = [r \in Requests |-> NoResponse]
  /\ returned = [r \in Requests |-> "waiting"]

-----------------------------------------------------------------------------
(* The program registers, then serves.                                     *)

Prepare ==
  /\ ~serving
  /\ Register
  /\ UNCHANGED <<serving, config, now, auth, pc, request, work, response,
                 returned>>

ListenAndServe ==
  /\ ~serving
  /\ serving' = TRUE
  /\ UNCHANGED <<actorVars, config, now, auth, pc, request, work, response,
                 returned>>

Tick ==
  /\ serving /\ now < MaxTime
  /\ now' = now + 1
  /\ UNCHANGED <<actorVars, serving, config, auth, pc, request, work, response,
                 returned>>

-----------------------------------------------------------------------------
(* AuthHandler.                                                            *)

Goto(r, label) == pc' = [pc EXCEPT ![r] = label]

Respond(r, resp) ==
  /\ response' = [response EXCEPT ![r] = resp]
  /\ Goto(r, "done")

\* The basic and bearer users of the configuration, tried after the JWT.
OtherSchemes(r) ==
  \/ http[r].scheme = "Basic" /\ http[r].token \in config.basic
  \/ http[r].scheme = "Bearer" /\ http[r].token \in config.bearer

\* jwtAuth has failed or is not asked.
TryOthers(r) ==
  IF OtherSchemes(r) THEN Goto(r, "route") /\ UNCHANGED response
  ELSE Respond(r, Response("401", "none"))

\* A request comes in; TryAuth has a JWT to look at, or not.
Arrive(r) ==
  /\ serving /\ pc[r] = "idle"
  /\ \E h \in Inputs :
       /\ http' = [http EXCEPT ![r] = h]
       /\ IF ~config.on THEN Goto(r, "route")
          ELSE Goto(r, IF config.jwt /\ h.scheme \in {"Bearer", "bare Bearer"}
                       THEN "get" ELSE "others")
  /\ arrived' = [arrived EXCEPT ![r] = now]
  /\ UNCHANGED <<actorVars, serving, config, now, auth, work, response, returned>>

\* There is no JWT to look at.
TryAuthWithoutJwt(r) ==
  /\ pc[r] = "others"
  /\ TryOthers(r)
  /\ UNCHANGED <<actorVars, serving, config, now, auth, request, work, returned>>

\* The cache without t, which it holds once at most.
Others(s, t) == IF t \in ToSet(s) THEN RemoveAt(s, CHOOSE i \in DOMAIN s : s[i] = t)
                                  ELSE s

\* lru.Cache (external): Get makes an entry the last used one, Add may evict
\* the one not used for longest.
LruTouch(t) == jwtCache' = <<t>> \o Others(jwtCache, t)
LruAdd(t) == jwtCache' = SubSeq(<<t>> \o Others(jwtCache, t), 1,
               IF Len(Others(jwtCache, t)) < CacheCap
                 THEN Len(Others(jwtCache, t)) + 1 ELSE CacheCap)

\* jwt.ParseWithClaims (external): the signature, and the expiry if given.
ParsesAt(t, time) == Claims[t].signed /\ (Claims[t].exp = 0 \/ time <= Claims[t].exp)

\* jwtCache.Get, or else parse.  A header without a token has no arr[1].
GetClaims(r) ==
  LET t == http[r].token IN
  /\ pc[r] = "get"
  /\ \/ /\ http[r].scheme = "bare Bearer"
        /\ Respond(r, Aborted)
        /\ UNCHANGED auth
     \/ /\ http[r].scheme = "Bearer"
        /\ fromCache' = [fromCache EXCEPT ![r] = t \in ToSet(jwtCache)]
        /\ IF t \in ToSet(jwtCache) THEN
             LruTouch(t) /\ Goto(r, "check") /\ UNCHANGED response
           ELSE /\ UNCHANGED jwtCache
                /\ IF ParsesAt(t, now)
                     THEN Goto(r, "check") /\ UNCHANGED response
                     ELSE TryOthers(r)
  /\ UNCHANGED <<actorVars, serving, config, now, request, work, returned>>

\* Mutant: cached claims are taken as they are.
ExpiredUnlessCached(r) == ~fromCache[r] /\ Claims[http[r].token].exp < now

\* Claims without an expiry count as expired.
Expired(r) == Claims[http[r].token].exp < now

\* Expired claims leave the cache.
CheckExpiry(r) ==
  /\ pc[r] = "check"
  /\ IF Expired(r) THEN
       /\ TryOthers(r)
       /\ jwtCache' = IF fromCache[r] THEN Others(jwtCache, http[r].token)
                      ELSE jwtCache
     ELSE /\ Goto(r, IF fromCache[r] THEN "route" ELSE "add")
          /\ UNCHANGED <<jwtCache, response>>
  /\ UNCHANGED <<actorVars, serving, config, now, fromCache, request, work,
                 returned>>

AddClaims(r) ==
  /\ pc[r] = "add"
  /\ LruAdd(http[r].token)
  /\ Goto(r, "route")
  /\ UNCHANGED <<actorVars, serving, config, now, fromCache, request, work,
                 response, returned>>

-----------------------------------------------------------------------------
(* GatewayHandler and H1Handler.                                           *)

\* Which of its handlers GatewayHandler gives a request to; H2Handler gives what
\* it is asked to upgrade to H1Handler unless it speaks h2c.
Streams(r) == \/ http[r].http2 \/ http[r].upgrade = "websocket"
              \/ http[r].upgrade = "h2c" /\ Insecure

\* A session of StreamSession begins, unless the upgrade to websocket fails.
StartSession(r) ==
  /\ pc[r] = "route" /\ Streams(r)
  /\ \/ Goto(r, "session") /\ UNCHANGED response
     \/ /\ ~http[r].http2 /\ http[r].upgrade = "websocket"
        /\ Respond(r, Response("400", "none"))
  /\ UNCHANGED <<actorVars, serving, config, now, auth, request, work, returned>>

EndSession(r) ==
  /\ pc[r] = "session"
  /\ Goto(r, "done")
  /\ UNCHANGED <<actorVars, serving, config, now, auth, request, work, response,
                 returned>>

\* The response a SimpleResponse or WrappedResponse stands for may be any: it is that
\* of another server, as a rule.  A status net/http refuses makes WriteHeader panic.
Foreign == {IF code = "aborted" THEN Aborted ELSE Response(code, body) :
              code \in Codes, body \in Bodies}

\* What json cannot marshal is replaced by an error with the message's id, which a
\* notification has not.
Unmarshalable(msg) == IF msg.type = "notify" THEN Aborted ELSE Response("200", "internal error")

\* The responses possible for Feed's results.  A message that was the result may be
\* any, too, of any kind.
H1Response(pair, msg) ==
  IF pair.error \in {"SimpleResponse", "WrappedResponse"} THEN Foreign
  ELSE IF pair.error # "nil" THEN {Response("500", "none")}
  ELSE IF pair.message = "nil" THEN {Response("200", "none")}
  ELSE IF pair.message = "message"
    THEN {Response("200", body) : body \in Bodies} \cup {Unmarshalable(msg)}
  ELSE IF pair.message = "opaque" THEN {Unmarshalable(msg)}
  ELSE {Response("200", pair.message)}

\* ServeHTTP up to the callback, or to the response if none is called.
ServeHTTP(r) ==
  LET msg == http[r].body
      d == Feed(msg)[Root]
      isRequest == msg.type = "request"
      RespondFor(pair) == \E resp \in H1Response(pair, msg) : Respond(r, resp)
  IN
  /\ pc[r] = "route" /\ ~Streams(r)
  /\ \/ /\ http[r].verb # "POST"
        /\ Respond(r, Response("405", "none")) /\ UNCHANGED decision
     \/ /\ http[r].verb = "POST" /\ msg.type = "bad"
        /\ Respond(r, Response("400", "none")) /\ UNCHANGED decision
     \/ /\ http[r].verb = "POST" /\ msg.type # "bad"
        /\ decision' = [decision EXCEPT ![r] = d]
        /\ \/ /\ d.does \in {"callback", "missing", "missing unguarded"}
              /\ Goto(r, "callback") /\ UNCHANGED response
           \/ /\ d.does = "invalid"
              /\ RespondFor(IF isRequest THEN Pair("invalid schema", "nil")
                                          ELSE Pair("nil", "ErrorPos"))
           \/ /\ d.does = "not found"
              /\ RespondFor(Pair("method not found", "nil"))
           \/ /\ d.does = "nothing"
              /\ RespondFor(Pair("nil", "nil"))
  /\ UNCHANGED <<actorVars, serving, config, now, auth, request, outcome,
                 returned>>

CallbackReturns(r) ==
  /\ pc[r] = "callback"
  /\ \E o \in Outcomes :
       /\ outcome' = [outcome EXCEPT ![r] = o]
       /\ \E resp \in IF PanicsThrough(decision[r], o) THEN {Aborted}
                      ELSE H1Response(wrapResult(o.what, http[r].body), http[r].body) :
            Respond(r, resp)
  /\ UNCHANGED <<actorVars, serving, config, now, auth, request, decision,
                 returned>>

-----------------------------------------------------------------------------
(* H1Client: Call for a request, Send for any other message.               *)

ByClient(r) == /\ http[r].verb = "POST" /\ ~Streams(r)
               /\ http[r].body.type \in {"request", "notify"}

\* Call parses the body of a 200; Send does not read it.
Returns(r, resp) ==
  CASE resp.status = "aborted" -> "failed"
    [] resp.status \notin {"200", "aborted"} -> resp.status
    [] resp.status = "200" /\ http[r].body.type # "request" -> "sent"
    [] OTHER -> IF resp.body = "none" THEN "failed" ELSE resp.body

ClientReturns(r) ==
  /\ pc[r] # "idle" /\ ByClient(r)
  /\ returned[r] = "waiting" /\ response[r] # NoResponse
  /\ returned' = [returned EXCEPT ![r] = Returns(r, response[r])]
  /\ UNCHANGED <<actorVars, serving, config, now, auth, pc, request, work,
                 response>>

\* The client's Timeout, or the loss of its connection; the server goes on.
ClientGivesUp(r) ==
  /\ pc[r] # "idle" /\ ByClient(r) /\ returned[r] = "waiting"
  /\ \E reason \in {"timeout", "failed"} :
       returned' = [returned EXCEPT ![r] = reason]
  /\ UNCHANGED <<actorVars, serving, config, now, auth, pc, request, work,
                 response>>

-----------------------------------------------------------------------------

Serve(r) == \/ TryAuthWithoutJwt(r) \/ GetClaims(r) \/ CheckExpiry(r) \/ AddClaims(r)
            \/ StartSession(r) \/ EndSession(r)
            \/ ServeHTTP(r) \/ CallbackReturns(r)

Next == \/ Prepare \/ ListenAndServe \/ Tick
        \/ \E r \in Requests : \/ Arrive(r) \/ Serve(r)
                               \/ ClientReturns(r) \/ ClientGivesUp(r)

Spec == Init /\ [][Next]_vars

-----------------------------------------------------------------------------
(* Properties.                                                             *)

\* AuthHandler lets through only what the configuration allows: a user of the
\* lists, or a signed token that had not expired when the request came in,
\* however old the claims in the cache are.
EntitledOnly ==
  \A r \in Requests :
    pc[r] \in {"route", "session", "callback"} \/ decision[r] # NoDecision =>
      \/ ~config.on \/ OtherSchemes(r)
      \/ /\ config.jwt /\ http[r].scheme = "Bearer"
         /\ Claims[http[r].token].signed
         /\ Claims[http[r].token].exp >= arrived[r]

\* A callback that answers with a message or a response of its own making.
Relays(r) ==
  \/ outcome[r].what = "WrappedResponse"
  \/ outcome[r].what = "message" /\ http[r].body.type = "request"
  \/ outcome[r].what = "SimpleResponse" /\ http[r].body.type # "request"

\* What H1Client tells its caller is what has happened at the server, though the
\* server goes on when the client gives up: a refusal means that no callback has
\* run, an answer is the one the callback gave, and Send fails when the callback of
\* its notification does.  A callback that relays a message or response can say
\* anything instead (h1_server.go:50-68), the words of a refusal, too.
TellsWhatHappened ==
  \A r \in Requests :
    LET o == outcome[r] IN
    \/ Relays(r)
    \/ /\ returned[r] \in {"400", "401", "405", "method not found", "invalid schema"}
            => o = NoOutcome
       /\ returned[r] \in {"value", "RPCError"} => o.what = returned[r]
       /\ returned[r] = "internal error" => o.what \in {"opaque", "error", "SimpleResponse"}
       /\ returned[r] = "sent" /\ o # NoOutcome => o.what \notin Errors

\* The handler of a request panics only if a callback does, with something
\* RecoverFromPanic is not for, or relays a response with a status that is none, or
\* on a Bearer header without a token: H1Handler asks for the id of a message
\* (MustId) only if the message has one.
PanicsOnlyWithCallback ==
  \A r \in Requests :
    response[r] = Aborted =>
      \/ outcome[r] # NoOutcome /\ (PanicsThrough(decision[r], outcome[r]) \/ Relays(r))
      \/ config.jwt /\ http[r].scheme = "bare Bearer"
=============================================================================
