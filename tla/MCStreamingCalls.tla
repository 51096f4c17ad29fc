-------------------------- MODULE MCStreamingCalls --------------------------
(* Small instances of StreamingCalls: who calls with which id, after whom. *)
EXTENDS StreamingCalls, TLC

CONSTANTS c1, c2, c3, push

IntId(v) == [type |-> "int", val |-> v]
Int64Id(v) == [type |-> "int64", val |-> v]
UuidOf == (c1 :> [type |-> "string", val |-> 11]) @@
          (c2 :> [type |-> "string", val |-> 12]) @@
          (c3 :> [type |-> "string", val |-> 13])

ThreeCalls == {c1, c2, c3}
TwoCalls == {c1, c2}
Values == {1, 2, 3, 11, 12, 13}
OnePush == {push}

\* Every goroutine has an id of its own.
DistinctReqIds == [c \in Calls |-> IF c = c1 THEN IntId(1)
                                   ELSE IF c = c2 THEN IntId(2) ELSE IntId(3)]
\* Two calls with one id (http/websocket_test.go uses an id twice), and a third
\* that passes it as an int64.
SharedReqIds == [c \in Calls |-> IF c = c3 THEN Int64Id(1) ELSE IntId(1)]

NobodyFollows == [c \in Calls |-> NoCall]

Uuids == [c \in Calls |-> UuidOf[c]]

=============================================================================
