------------------------------ MODULE RpcCalls ------------------------------
(***************************************************************************)
(* What a JSON-RPC client promises its callers, with no connection, queue, *)
(* id or timer in sight (http/types.go, interface Client: Call).           *)
(*                                                                         *)
(* A call is begun once and settles at most once.  It settles as answered  *)
(* only if the server really served that very call; it may be served and   *)
(* still time out or fail, and it may never settle at all.                 *)
(***************************************************************************)
CONSTANT Calls

VARIABLES phase,   \* phase[c]: where the caller of c stands
          served   \* the calls whose request the server has executed

vars == <<phase, served>>

Phase == {"idle", "busy", "answered", "timedout", "failed"}

Init == /\ phase = [c \in Calls |-> "idle"]
        /\ served = {}

Settle(c, from, to) == /\ phase[c] \in from
                       /\ phase' = [phase EXCEPT ![c] = to]
                       /\ UNCHANGED served

Begin(c)   == Settle(c, {"idle"}, "busy")
Answer(c)  == c \in served /\ Settle(c, {"busy"}, "answered")
Timeout(c) == Settle(c, {"busy"}, "timedout")
Fail(c)    == Settle(c, {"idle", "busy"}, "failed")

\* The caller may have given up on the request when the server executes it.
Serve(c) == /\ phase[c] # "idle"
            /\ c \notin served
            /\ served' = served \cup {c}
            /\ UNCHANGED phase

Next == \E c \in Calls : Begin(c) \/ Answer(c) \/ Timeout(c) \/ Fail(c) \/ Serve(c)

Spec == Init /\ [][Next]_vars
=============================================================================
