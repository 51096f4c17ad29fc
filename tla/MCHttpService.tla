---------------------------- MODULE MCHttpService ----------------------------
(* A small instance of HttpService: what the program may register, and what *)
(* comes in.                                                               *)
EXTENDS HttpService

CONSTANTS top, left, \* actors
          m,         \* a method
          r1, r2,    \* requests
          jwt, key   \* tokens

MayRegister == {<<left, m, "schema">>}
MayLink == {<<top, left>>}

Post(scheme, token, body) ==
  [verb |-> "POST", http2 |-> FALSE, upgrade |-> "none", scheme |-> scheme,
   token |-> token, body |-> body]
Msg(type, method, valid) == [type |-> type, method |-> method, valid |-> valid]

Traffic ==
  {Post("Bearer", jwt, Msg("request", m, TRUE)),
   Post("Bearer", jwt, Msg("notify", m, FALSE)),
   [Post("Basic", key, Msg("request", m, FALSE)) EXCEPT !.upgrade = "h2c"],
   Post("none", key, Msg("reply", m, TRUE)),
   Post("bare Bearer", key, NotJsonRpc),
   [Post("none", key, NotJsonRpc) EXCEPT !.verb = "GET"],
   [Post("Bearer", jwt, NotJsonRpc) EXCEPT !.verb = "GET", !.upgrade = "websocket"]}

\* A token that may expire while the requests run.
ClaimsOf == [t \in Tokens |-> [signed |-> t = jwt, exp |-> IF t = jwt THEN 1 ELSE 0]]

NoAuth == [on |-> FALSE, jwt |-> FALSE, basic |-> {}, bearer |-> {}]
JwtOrBasic == [on |-> TRUE, jwt |-> TRUE, basic |-> {key}, bearer |-> {}]
Configurations == {NoAuth, JwtOrBasic}

MayHappen ==
  {[how |-> "returns", what |-> w] : w \in {"value", "opaque", "message", "RPCError",
                                           "WrappedResponse", "error"}}
  \cup {[how |-> "panics", what |-> w] : w \in {"error", "other"}}
=============================================================================
