--------------------------- MODULE MCStreamingConn ---------------------------
(* Small instances of StreamingConn: which goroutines use the client.      *)
EXTENDS StreamingConn, TLC

CONSTANTS u1, u2

AllSend == [u \in Users |-> "send"]
AllWatch == [u \in Users |-> "watch"]
WatchAndAny == [u \in Users |-> IF u = u1 THEN "watch" ELSE "any"]

\* What later steps and the properties depend on when no user waits: not a register
\* or an error that is not read again, nor what is in the close channels.
LiveReg ==
  [p \in Procs |-> IF pc[p] \in {"setdecoder", "setcancel", "setsend", "setclose",
                                "enqueue", "callcancel", "loadclose", "sendclose",
                                "shutws", "srecv",
                                "swrite", "vread"}
                  THEN reg[p] ELSE 0]
LiveErr == [p \in Procs |-> IF pc[p] \in {"done", "off"} THEN "nil" ELSE err[p]]
LiveView == <<fields, connectLock, conns, sendQueue, pc, LiveReg, hand, LiveErr,
              [i \in DOMAIN written |-> written[i].msg], panicked>>

\* Users who do the same.
SameUsers == Permutations(Users)
=============================================================================
