--------------------------- MODULE MCStreamSession ---------------------------
(* Small instances of StreamSession: the handlers, and what the actor makes *)
(* of the messages a client may send.                                      *)
EXTENDS StreamSession, TLC

CONSTANTS m1, m2, m3

Kinds3(a, b, c) == [m \in Messages |-> CASE m = m1 -> a [] m = m2 -> b [] OTHER -> c]
Handler(transport, spawn, kind) ==
  [transport |-> transport, spawn |-> spawn, kind |-> kind]

Ws(spawn, kind) == Handler("websocket", spawn, kind)
H2(spawn, kind) == Handler("http2", spawn, kind)

AllConfigs == {Ws(TRUE,  Kinds3("stream", "notify", "bad")),
               Ws(FALSE, Kinds3("stream", "request", "binary")),
               H2(TRUE,  Kinds3("stream", "refused", "bad")),
               H2(FALSE, Kinds3("stream", "opaque", "request"))}

WsRequests == {Ws(TRUE, Kinds3("request", "request", "request"))}
=============================================================================
