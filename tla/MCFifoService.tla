---------------------------- MODULE MCFifoService ----------------------------
(* Small instances of FifoService: who calls what.                         *)
EXTENDS FifoService, TLC

CONSTANTS s1, s2, c1, c2, c3, c4

Each(a, b, c, d) == (c1 :> a) @@ (c2 :> b) @@ (c3 :> c) @@ (c4 :> d)
By(of, op, size) == [of |-> of, op |-> op, size |-> size]
Three(of1, of2, of3, op1, op2, op3, size1, size2, size3) ==
  By(Each(of1, of2, of3, NoSession), Each(op1, op2, op3, "none"), Each(size1, size2, size3, 0))

\* A session subscribes while two clients push.
Subscribing == Three(s1, NoSession, NoSession, "subscribe", "push", "push", 0, 2, 1)
\* A session subscribes and pushes, or subscribes twice.
Own == Three(s1, s1, s1, "subscribe", "push", "push", 0, 2, 1)
Twice == Three(s1, s1, NoSession, "subscribe", "subscribe", "push", 0, 0, 1)
\* A list is answered while another client pops and pushes.
Relisted == By(Each(NoSession, NoSession, NoSession, s1), Each("push", "pop", "push", "list"),
               Each(2, 0, 1, 0))
\* Two subscribers that may both get stuck.
TwoSubscribers == Three(s1, s2, NoSession, "subscribe", "subscribe", "push", 0, 0, 1)
\* Calls with nothing to do.
Idle == Three(NoSession, NoSession, s1, "push", "subscribe", "get", 0, 0, 0)
Chat == Three(NoSession, s1, s1, "pop", "echo", "list", 0, 0, 0)

Scenarios == {Subscribing, Own, Twice, Relisted, TwoSubscribers, Idle, Chat}
=============================================================================
