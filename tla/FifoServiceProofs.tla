-------------------------- MODULE FifoServiceProofs --------------------------
(***************************************************************************)
(* Proofs about FifoService, for any calls, sessions, configurations and   *)
(* capacity of a session's channel.                                        *)
(***************************************************************************)
EXTENDS FifoService, SequenceTheorems, TLAPS

-----------------------------------------------------------------------------
(* The inductive invariant.                                                *)

Labels == {"idle", "called", "range", "send", "subscribing", "answer", "done"}
Elements == Calls \X (1 .. 2)

StateOK ==
  /\ config \in Config
  /\ fifo \in Seq(Elements) /\ pushed \in Seq(Elements)
  /\ subs \subseteq Sessions /\ writing \subseteq Calls \cup Sessions
  /\ pc \in [Calls -> Labels]
  /\ elems \in [Calls -> Seq(Elements)]
  /\ due \in [Calls -> SUBSET Sessions] /\ visited \in [Calls -> SUBSET Sessions]
  /\ target \in [Calls -> Sessions \cup {NoSession}]
  /\ listed \in [Calls -> Seq(Elements)] /\ was = [c \in Calls |-> was[c]]
  /\ status \in [Sessions -> {"open", "closing", "deleting", "closed"}]
  /\ from \in [Sessions -> Nat] /\ got \in [Sessions -> Seq(Elements)]

\* What a call does between its labels, and who holds the lock.
CallOK(c) ==
  /\ pc[c] \in {"range", "send"} <=> lock = {c}
  /\ pc[c] \in {"range", "send"} => Op(c) = "push" /\ elems[c] # <<>>
  /\ pc[c] = "subscribing" => Op(c) = "subscribe" /\ SessionOf(c) # NoSession
  /\ pc[c] = "send" => target[c] \in Sessions

LockOK == lock = {} \/ \E c \in Calls : lock = {c}

Basics == StateOK /\ LockOK /\ \A c \in Calls : CallOK(c)

\* Only a list that has been returned and not yet been marshaled shares its
\* array with the slice.
ListsOK == aliased \subseteq Listing /\ ListedElsewhen

\* The map is written by calls that subscribe and by close handlers, one at a time
\* until there is a race.
MapOK ==
  /\ \A c \in Calls : pc[c] = "subscribing" <=> c \in writing
  /\ \A s \in Sessions : status[s] = "deleting" <=> s \in writing
  /\ \A p, q \in writing : p = q

\* A list since which there was no pop is not longer than the slice.
ArrayOK ==
  /\ \A d \in aliased \ cut : Len(listed[d]) <= Len(fifo)
  /\ RaceNeedsPop

\* Of a session whose close handler was called all subscribes still to come are late.
LateOK ==
  /\ late \subseteq Calls
  /\ \A s \in Sessions : status[s] \in {"deleting", "closed"} => ToSubscribe(s) \subseteq late
  /\ CloseUnsubscribes

\* The elements before those the push c has still to tell of.
Before(c) == Len(pushed) - Len(elems[c])

\* s has been told of the last elements up to the j-th, and of all since it
\* subscribed.
Told(s, j) ==
  /\ Len(got[s]) <= j /\ j - Len(got[s]) <= from[s]
  /\ \A k \in 1 .. Len(got[s]) : got[s][k] = pushed[j - Len(got[s]) + k]

\* Whether the push c has told s of the element it is at.
HasTold(c, s) == s \in visited[c] /\ ~(pc[c] = "send" /\ target[c] = s)

\* What a push has still to tell are the last elements pushed.
PushOK(c) ==
  /\ Len(elems[c]) <= Len(pushed)
  /\ \A k \in 1 .. Len(elems[c]) : elems[c][k] = pushed[Before(c) + k]

\* Where an open session in the map is, and what a session is told that is not
\* in the map or came into it during this range.
SessionOK(s) ==
  /\ from[s] <= Len(pushed)
  /\ s \in subs /\ lock = {} => Told(s, Len(pushed))
  /\ \A c \in lock : s \in subs =>
       /\ HasTold(c, s) => Told(s, Before(c) + 1)
       /\ ~HasTold(c, s) => Told(s, Before(c))
       /\ s \notin visited[c] \cup due[c] => got[s] = <<>> /\ from[s] = Len(pushed)
  /\ s \notin subs => got[s] = <<>> /\ \A c \in lock : s \notin visited[c]
  /\ \A c \in Calls : pc[c] = "send" /\ target[c] = s => s \in subs /\ s \in visited[c]

TellsOK ==
  /\ \A c \in lock : PushOK(c) /\ due[c] \subseteq subs
  /\ \A s \in Sessions : status[s] = "open" => SessionOK(s)

-----------------------------------------------------------------------------
(* Sequences.                                                              *)

LEMMA ElementsOfFacts ==
  ASSUME config \in Config, NEW c \in Calls
  PROVE  /\ ElementsOf(c) \in Seq(Elements) /\ Len(ElementsOf(c)) = config.size[c]
         /\ config.size[c] # 0 => ElementsOf(c) # <<>>
  <1>1. PICK n \in 0 .. 2 : n = config.size[c]
    BY DEF Config
  <1>2. ElementsOf(c) = [i \in 1 .. n |-> <<c, i>>]
    BY <1>1 DEF ElementsOf
  <1>3. \A i \in 1 .. n : <<c, i>> \in Elements
    BY DEF Elements
  <1>4. ElementsOf(c) \in [1 .. n -> Elements]
    BY <1>2, <1>3
  <1>5. ElementsOf(c) \in Seq(Elements) /\ Len(ElementsOf(c)) = n
    BY <1>4, IsASeq, LenProperties
  <1>6. n # 0 => ElementsOf(c) # <<>>
    BY <1>5
  <1> QED BY <1>1, <1>5, <1>6

LEMMA FrontFacts ==
  ASSUME NEW S, NEW seq \in Seq(S)
  PROVE  Front(seq) \in Seq(S)
  <1>1. Len(seq) \in Nat /\ \A i \in 1 .. Len(seq) : seq[i] \in S
    BY ElementOfSeq
  <1>2. \A i \in 1 .. Len(seq) - 1 : seq[i] \in S
    BY <1>1
  <1> QED BY <1>1, <1>2, SubSeqProperties DEF Front

LEMMA OverwrittenFacts ==
  ASSUME NEW c, NEW new \in Seq(Elements), new = Appended(c), NEW list \in Seq(Elements)
  PROVE  /\ Overwritten(list, c) \in Seq(Elements)
         /\ Len(Overwritten(list, c)) = Len(list)
         /\ Places(Overwritten(list, c)) \subseteq Places(list) \cup Places(new)
  <1> DEFINE o == Overwritten(list, c)
  <1>1. PICK n \in Nat, k \in Nat : n = Len(new) /\ k = Len(list)
    BY LenProperties
  <1>2. o = [i \in 1 .. k |-> IF i \in Written(c) THEN new[i] ELSE list[i]]
    BY <1>1 DEF Overwritten
  <1>3. /\ \A i \in 1 .. n : new[i] \in Elements
        /\ \A i \in 1 .. k : list[i] \in Elements
        /\ \A i \in Written(c) : i \in 1 .. n
    BY <1>1, ElementOfSeq DEF Written
  <1>4. o \in [1 .. k -> Elements]
    BY <1>2, <1>3
  <1>5. o \in Seq(Elements) /\ Len(o) = k
    BY <1>1, <1>4, IsASeq, LenProperties
  <1>6. \A i \in 1 .. k : o[i] = list[i] \/ (i \in 1 .. n /\ o[i] = new[i])
    BY <1>2, <1>3
  <1> HIDE DEF o
  <1>7. Places(o) \subseteq Places(list) \cup Places(new)
    <2> SUFFICES ASSUME NEW i \in 1 .. k
                 PROVE  <<i, o[i]>> \in Places(list) \cup Places(new)
      BY <1>5 DEF Places
    <2> QED BY <1>1, <1>6 DEF Places
  <1> QED BY <1>1, <1>5, <1>7 DEF o

-----------------------------------------------------------------------------
(* Types, labels and the lock.                                             *)

LEMMA BasicsInit == Init => Basics
  <1> SUFFICES ASSUME Init PROVE Basics
    OBVIOUS
  <1> USE FifoAssumption
  <1>1. StateOK
    BY DEF Init, StateOK, Labels
  <1>2. LockOK
    BY DEF Init, LockOK
  <1>3. \A c \in Calls : CallOK(c)
    BY DEF Init, CallOK
  <1> QED BY <1>1, <1>2, <1>3 DEF Basics

\* A step of the call c alone, which leaves the lock.
LEMMA CallsKept ==
  ASSUME Basics, UNCHANGED <<config, lock>>, NEW c \in Calls,
         \A d \in Calls \ {c} :
           pc'[d] = pc[d] /\ target'[d] = target[d] /\ elems'[d] = elems[d],
         CallOK(c)'
  PROVE  LockOK' /\ \A d \in Calls : CallOK(d)'
  <1>1. \A d \in Calls \ {c} : CallOK(d)'
    BY DEF Basics, CallOK, Op, SessionOf
  <1> QED BY <1>1 DEF Basics, LockOK

\* A step that moves the call c along and touches nothing that a type is given of
\* but the writers of the map.
LEMMA StateKept ==
  ASSUME StateOK, NEW c \in Calls, NEW label \in Labels, Goto(c, label),
         UNCHANGED <<config, slice, subs, range, session, from, got>>,
         writing' \subseteq Calls \cup Sessions
  PROVE  StateOK'
  <1>1. pc' \in [Calls -> Labels]
    BY DEF StateOK, Goto
  <1>2. UNCHANGED <<config, fifo, pushed, subs, elems, due, visited, target, listed, was,
                    status, from, got>>
    BY DEF slice, range, session
  <1> QED BY ONLY StateOK, <1>1, <1>2, writing' \subseteq Calls \cup Sessions DEF StateOK

LEMMA BasicsStep == Basics /\ [Next]_vars => Basics'
  <1> SUFFICES ASSUME Basics, [Next]_vars PROVE Basics'
    OBVIOUS
  <1> USE FifoAssumption
  <1>0. StateOK /\ LockOK /\ \A c \in Calls : CallOK(c)
    BY DEF Basics
  <1>a. ASSUME NEW c \in Calls, Call(c), UNCHANGED config PROVE Basics'
    <2>1. StateOK'
      <3>1. "called" \in Labels /\ writing' \subseteq Calls \cup Sessions
        BY <1>a, <1>0 DEF Call, StateOK, Labels
      <3> QED BY <1>a, <1>0, <3>1, StateKept DEF Call
    <2>2. CallOK(c)'
      <3>1. pc[c] = "idle" /\ pc' = [pc EXCEPT ![c] = "called"] /\ lock' = lock
        BY <1>a DEF Call, Goto
      <3>2. lock # {c}
        BY ONLY <1>0, <3>1, c \in Calls DEF CallOK
      <3>3. pc'[c] = "called"
        BY ONLY <1>0, <3>1, c \in Calls DEF StateOK
      <3> QED BY ONLY <3>1, <3>2, <3>3 DEF CallOK
    <2> QED BY <1>a, <1>0, <2>1, <2>2, CallsKept DEF Call, Goto, StateOK, Basics, range
  <1>b. ASSUME NEW c \in Calls, Push(c), UNCHANGED config PROVE Basics'
    <2>1. CASE config.size[c] = 0
      <3>1. StateOK'
        <4>1. "answer" \in Labels /\ writing' \subseteq Calls \cup Sessions
          BY <1>b, <1>0 DEF Push, StateOK, Labels
        <4> QED BY <1>b, <1>0, <2>1, <4>1, StateKept DEF Push
      <3>2. CallOK(c)'
        <4>1. pc' = [pc EXCEPT ![c] = "answer"] /\ lock' = {}
          BY <1>b, <2>1 DEF Push, Goto
        <4>2. pc'[c] = "answer"
          BY ONLY <1>0, <4>1, c \in Calls DEF StateOK
        <4> QED BY ONLY <4>1, <4>2 DEF CallOK
      <3> QED BY <1>b, <1>0, <2>1, <3>1, <3>2, CallsKept
              DEF Push, Goto, StateOK, Basics, range
    <2>2. CASE config.size[c] # 0
      <3> DEFINE new == Appended(c)
      <3>0. /\ ElementsOf(c) \in Seq(Elements) /\ ElementsOf(c) # <<>> /\ new \in Seq(Elements)
            /\ pushed \o ElementsOf(c) \in Seq(Elements)
        BY <1>0, <2>2, ElementsOfFacts, ConcatProperties DEF StateOK, Appended
      <3>1. /\ fifo' = new /\ pushed' = pushed \o ElementsOf(c)
            /\ elems' = [elems EXCEPT ![c] = ElementsOf(c)]
            /\ due' = [due EXCEPT ![c] = subs] /\ visited' = [visited EXCEPT ![c] = {}]
            /\ was' = [d \in Calls |-> was'[d]]
            /\ UNCHANGED <<target, subs, status, writing, from, got, config>>
            /\ lock = {} /\ lock' = {c} /\ pc' = [pc EXCEPT ![c] = "range"]
            /\ Op(c) = "push"
        BY <1>b, <2>2 DEF Push, Append_, LockFor, Goto, session
      <3>2. listed' \in [Calls -> Seq(Elements)]
        <4>1. CASE UNCHANGED listed
          BY <1>0, <4>1 DEF StateOK
        <4>2. CASE listed' = [d \in Calls |-> IF d \in aliased
                                THEN Overwritten(listed[d], c) ELSE listed[d]]
          <5>1. \A d \in Calls : Overwritten(listed[d], c) \in Seq(Elements)
            BY <1>0, <3>0, OverwrittenFacts DEF StateOK
          <5> HIDE DEF new
          <5> QED BY <1>0, <4>2, <5>1 DEF StateOK
        <4> QED BY <1>b, <2>2, <4>1, <4>2 DEF Push, Append_
      <3> HIDE DEF new
      <3>3. StateOK'
        BY <1>0, <3>0, <3>1, <3>2 DEF StateOK, Labels
      <3>4. LockOK' /\ \A d \in Calls : CallOK(d)'
        <4>1. \A d \in Calls \ {c} : CallOK(d)'
          BY <1>0, <3>1 DEF StateOK, CallOK, Op, SessionOf
        <4>2. CallOK(c)'
          BY <1>0, <3>0, <3>1 DEF StateOK, CallOK, Op, SessionOf
        <4> QED BY <3>1, <4>1, <4>2 DEF LockOK
      <3> QED BY <3>3, <3>4 DEF Basics
    <2> QED BY <2>1, <2>2
  <1>c. ASSUME NEW c \in Calls, RangeNext(c), UNCHANGED config PROVE Basics'
    <2>1. PICK s \in subs \ visited[c] :
            /\ visited' = [visited EXCEPT ![c] = @ \cup {s}]
            /\ due' = [due EXCEPT ![c] = @ \ {s}]
            /\ target' = [target EXCEPT ![c] = s]
      BY <1>c DEF RangeNext
    <2>2. s \in Sessions
      BY <1>0 DEF StateOK
    <2>3. StateOK'
      BY <1>c, <1>0, <2>1, <2>2 DEF RangeNext, Goto, StateOK, Labels, slice, session
    <2>4. CallOK(c)'
      BY <1>c, <1>0, <2>1, <2>2 DEF RangeNext, Goto, StateOK, CallOK, Op, SessionOf
    <2> QED BY <1>c, <1>0, <2>1, <2>3, <2>4, CallsKept DEF RangeNext, Goto, StateOK, Basics
  <1>d. ASSUME NEW c \in Calls, RangeEnd(c), UNCHANGED config PROVE Basics'
    <2>0. lock = {c} /\ elems[c] # <<>> /\ elems[c] \in Seq(Elements)
      BY <1>d, <1>0 DEF RangeEnd, CallOK, StateOK
    <2> DEFINE t == Tail(elems[c])
    <2>1. t \in Seq(Elements) /\ (Len(elems[c]) > 1 => t # <<>>)
      <3>1. t \in Seq(Elements) /\ Len(t) = Len(elems[c]) - 1
        BY <2>0, HeadTailProperties
      <3> HIDE DEF t
      <3>2. t = <<>> => Len(t) = 0
        OBVIOUS
      <3> QED BY <2>0, <3>1, <3>2, LenProperties
    <2>2. elems' = [elems EXCEPT ![c] = t]
      BY <1>d DEF RangeEnd
    <2> HIDE DEF t
    <2>3. StateOK'
      <3>1. /\ elems' \in [Calls -> Seq(Elements)] /\ pc' \in [Calls -> Labels]
            /\ due' \in [Calls -> SUBSET Sessions]
            /\ visited' \in [Calls -> SUBSET Sessions]
        <4>1. elems' \in [Calls -> Seq(Elements)]
          BY <1>0, <2>1, <2>2 DEF StateOK
        <4>2. pc' = pc \/ pc' = [pc EXCEPT ![c] = "answer"]
          BY <1>d DEF RangeEnd, Goto
        <4>3. /\ due' = due \/ due' = [due EXCEPT ![c] = subs]
              /\ visited' = visited \/ visited' = [visited EXCEPT ![c] = {}]
          BY <1>d DEF RangeEnd
        <4>4. pc' \in [Calls -> Labels]
          BY <1>0, <4>2 DEF StateOK, Labels
        <4> QED BY <1>0, <4>1, <4>3, <4>4 DEF StateOK
      <3> QED BY <1>d, <1>0, <3>1 DEF RangeEnd, StateOK, slice, session
    <2>4. CASE Len(elems[c]) > 1
      <3>1. CallOK(c)'
        <4>1. UNCHANGED <<config, pc, lock, target>> /\ elems'[c] # <<>>
          BY <1>d, <1>0, <2>1, <2>2, <2>4 DEF RangeEnd, StateOK
        <4> QED BY <1>d, <1>0, <4>1 DEF RangeEnd, CallOK, Op, SessionOf
      <3> QED BY <1>d, <1>0, <2>2, <2>3, <2>4, <3>1, CallsKept DEF RangeEnd, StateOK, Basics
    <2>5. CASE ~(Len(elems[c]) > 1)
      <3>1. pc' = [pc EXCEPT ![c] = "answer"] /\ lock' = {} /\ UNCHANGED <<config, target>>
        BY <1>d, <2>0, <2>5 DEF RangeEnd, Goto, Unlock
      <3>2. LockOK' /\ \A d \in Calls : CallOK(d)'
        <4>1. LockOK'
          BY ONLY <3>1 DEF LockOK
        <4>2. pc'[c] = "answer" /\ \A d \in Calls \ {c} : pc'[d] = pc[d]
          BY ONLY <1>0, <3>1, c \in Calls DEF StateOK
        <4>3. CallOK(c)'
          BY ONLY <3>1, <4>2 DEF CallOK
        <4>4. ASSUME NEW d \in Calls \ {c} PROVE CallOK(d)'
          <5>1. pc[d] \notin {"range", "send"}
            BY <1>0, <2>0 DEF CallOK
          <5>2. CallOK(d)
            BY ONLY <1>0, <4>4
          <5> QED BY ONLY <3>1, <4>2, <5>1, <5>2, d \in Calls \ {c} DEF CallOK, Op, SessionOf
        <4> QED BY ONLY <4>1, <4>3, <4>4
      <3> QED BY <2>3, <3>2 DEF Basics
    <2> QED BY <2>4, <2>5
  <1>e. ASSUME NEW c \in Calls, Send(c), UNCHANGED config PROVE Basics'
    <2>0. target[c] \in Sessions /\ elems[c] # <<>> /\ elems[c] \in Seq(Elements)
      BY <1>e, <1>0 DEF Send, CallOK, StateOK
    <2> DEFINE h == Head(elems[c])
    <2>1. h \in Elements
      BY <2>0, HeadTailProperties
    <2>2. got' = [got EXCEPT ![target[c]] = Append(@, h)]
      BY <1>e DEF Send
    <2> HIDE DEF h
    <2>3. got' \in [Sessions -> Seq(Elements)]
      BY <1>0, <2>0, <2>1, <2>2 DEF StateOK
    <2>4. StateOK'
      BY <1>e, <1>0, <2>3 DEF Send, Goto, StateOK, Labels, slice, session, range
    <2>5. CallOK(c)'
      BY <1>e, <1>0 DEF Send, Goto, StateOK, CallOK, Op, SessionOf, range
    <2> QED BY <1>e, <1>0, <2>4, <2>5, CallsKept DEF Send, Goto, StateOK, Basics, range
  <1>f. ASSUME NEW c \in Calls, Pop(c), UNCHANGED config PROVE Basics'
    <2>1. Front(fifo) \in Seq(Elements)
      BY <1>0, FrontFacts DEF StateOK
    <2>2. StateOK'
      BY <1>f, <1>0, <2>1 DEF Pop, Cut, Goto, StateOK, Labels, session, range
    <2>3. CallOK(c)'
      BY <1>f, <1>0 DEF Pop, Goto, StateOK, CallOK, Op, SessionOf, range
    <2> QED BY <1>f, <1>0, <2>2, <2>3, CallsKept DEF Pop, Goto, StateOK, Basics, range
  <1>g. ASSUME NEW c \in Calls, List(c), UNCHANGED config PROVE Basics'
    <2>1. StateOK'
      BY <1>g, <1>0 DEF List, Goto, StateOK, Labels, session, range
    <2>2. CallOK(c)'
      BY <1>g, <1>0 DEF List, Goto, StateOK, CallOK, Op, SessionOf, range
    <2> QED BY <1>g, <1>0, <2>1, <2>2, CallsKept DEF List, Goto, StateOK, Basics, range
  <1>h. ASSUME NEW c \in Calls, GetOrEcho(c), UNCHANGED config PROVE Basics'
    <2>1. StateOK'
      <3>1. "answer" \in Labels /\ writing' \subseteq Calls \cup Sessions
        BY <1>h, <1>0 DEF GetOrEcho, StateOK, Labels
      <3> QED BY <1>h, <1>0, <3>1, StateKept DEF GetOrEcho
    <2>2. CallOK(c)'
      BY <1>h, <1>0 DEF GetOrEcho, Goto, StateOK, CallOK, Op, SessionOf, range
    <2> QED BY <1>h, <1>0, <2>1, <2>2, CallsKept DEF GetOrEcho, Goto, StateOK, Basics, range
  <1>i. ASSUME NEW c \in Calls, Subscribe(c), UNCHANGED config PROVE Basics'
    <2>1. StateOK'
      <3>1. PICK label \in {"answer", "subscribing"} : Goto(c, label)
        BY <1>i DEF Subscribe
      <3>2. label \in Labels
        BY <3>1 DEF Labels
      <3>3. writing' \subseteq Calls \cup Sessions
        BY <1>i, <1>0 DEF Subscribe, StateOK
      <3>4. UNCHANGED <<config, slice, subs, range, session, from, got>>
        BY ONLY <1>i DEF Subscribe
      <3> QED BY ONLY <1>0, <3>1, <3>2, <3>3, <3>4, StateKept, c \in Calls
    <2>2. CallOK(c)'
      BY <1>i, <1>0 DEF Subscribe, Goto, StateOK, CallOK, Op, SessionOf, range
    <2>3. /\ UNCHANGED <<config, lock>>
          /\ \A d \in Calls \ {c} :
               pc'[d] = pc[d] /\ target'[d] = target[d] /\ elems'[d] = elems[d]
      BY <1>i, <1>0 DEF Subscribe, Goto, StateOK, range
    <2> QED BY <2>1, <2>2, <2>3, CallsKept DEF Basics
  <1>j. ASSUME NEW c \in Calls, Subscribed(c), UNCHANGED config PROVE Basics'
    <2>1. SessionOf(c) \in Sessions
      BY <1>j, <1>0 DEF Subscribed, CallOK, StateOK, Config, SessionOf
    <2>2. Len(pushed) \in Nat
      BY <1>0 DEF StateOK
    <2>3. from' \in [Sessions -> Nat]
      BY <1>j, <1>0, <2>1, <2>2 DEF Subscribed, StateOK
    <2>4. StateOK'
      BY <1>j, <1>0, <2>1, <2>3 DEF Subscribed, Goto, StateOK, Labels, slice, session, range
    <2>5. CallOK(c)'
      BY <1>j, <1>0 DEF Subscribed, Goto, StateOK, CallOK, Op, SessionOf, range
    <2> QED BY <1>j, <1>0, <2>4, <2>5, CallsKept DEF Subscribed, Goto, StateOK, Basics, range
  <1>k. ASSUME NEW c \in Calls, Answer(c), UNCHANGED config PROVE Basics'
    <2>1. StateOK'
      BY <1>k, <1>0 DEF Answer, Goto, StateOK, Labels, session, range
    <2>2. CallOK(c)'
      BY <1>k, <1>0 DEF Answer, Goto, StateOK, CallOK, Op, SessionOf, range
    <2> QED BY <1>k, <1>0, <2>1, <2>2, CallsKept DEF Answer, Goto, StateOK, Basics, range
  <1>l. ASSUME UNCHANGED <<config, lock, pc, target, elems>>, StateOK' PROVE Basics'
    BY <1>0, <1>l DEF Basics, LockOK, CallOK, Op, SessionOf
  <1>t. ASSUME NEW c \in Calls, Marshaled(c), UNCHANGED config PROVE Basics'
    <2>1. StateOK'
      BY <1>t, <1>0 DEF Marshaled, StateOK, range, session
    <2> QED BY <1>t, <1>l, <2>1 DEF Marshaled, range
  <1>m. ASSUME NEW s \in Sessions, Closes(s), UNCHANGED config PROVE Basics'
    <2>1. StateOK'
      BY <1>m, <1>0 DEF Closes, StateOK, slice, range
    <2> QED BY <1>m, <1>l, <2>1 DEF Closes, range
  <1>n. ASSUME NEW s \in Sessions, Delete(s), UNCHANGED config PROVE Basics'
    <2>1. StateOK'
      BY <1>n, <1>0 DEF Delete, StateOK, slice, range
    <2> QED BY <1>n, <1>l, <2>1 DEF Delete, range
  <1>o. ASSUME NEW s \in Sessions, Deleted(s), UNCHANGED config PROVE Basics'
    <2>1. StateOK'
      BY <1>o, <1>0 DEF Deleted, Without, StateOK, slice
    <2> QED BY <1>o, <1>l, <2>1 DEF Deleted
  <1>p. ASSUME NEW s \in Sessions, Write(s), UNCHANGED config PROVE Basics'
    <2>1. StateOK'
      BY <1>p, <1>0 DEF Write, StateOK, range, session
    <2> QED BY <1>p, <1>l, <2>1 DEF Write, range
  <1>q. ASSUME NEW s \in Sessions, SendLoopEnds(s), UNCHANGED config PROVE Basics'
    <2>1. StateOK'
      BY <1>q, <1>0 DEF SendLoopEnds, StateOK, slice, range
    <2> QED BY <1>q, <1>l, <2>1 DEF SendLoopEnds, range
  <1>r. ASSUME Race, UNCHANGED config PROVE Basics'
    <2>1. StateOK'
      BY <1>r, <1>0 DEF Race, StateOK, slice, range, session
    <2> QED BY <1>r, <1>l, <2>1 DEF Race, range
  <1>s. CASE UNCHANGED vars
    <2>1. StateOK'
      BY <1>s, <1>0 DEF vars, StateOK, slice, range, session
    <2> QED BY <1>s, <1>l, <2>1 DEF vars, range
  <1> QED BY <1>a, <1>b, <1>c, <1>d, <1>e, <1>f, <1>g, <1>h, <1>i, <1>j, <1>k,
             <1>m, <1>n, <1>o, <1>p, <1>q, <1>r, <1>s, <1>t DEF Next, Handle

LEMMA BasicsAlways == Spec => []Basics
  BY BasicsInit, BasicsStep, PTL DEF Spec

-----------------------------------------------------------------------------
(* The slices that lists have returned.                                    *)

LEMMA ListsKept ==
  ASSUME ListsOK, UNCHANGED <<config, listed, was>>, aliased' \subseteq aliased,
         Listing' = Listing
  PROVE  ListsOK'
  BY DEF ListsOK, ListedElsewhen, Places

\* A call that is not a list, or that has returned.
LEMMA ListingKept ==
  ASSUME StateOK, UNCHANGED config, NEW c \in Calls, NEW label \in Labels,
         pc' = [pc EXCEPT ![c] = label],
         Op(c) # "list" \/ {pc[c], label} \subseteq {"answer", "done"}
                        \/ {pc[c], label} \cap {"answer", "done"} = {}
  PROVE  Listing' = Listing
  <1>1. \A d \in Calls : pc'[d] = IF d = c THEN label ELSE pc[d]
    BY DEF StateOK
  <1> QED BY <1>1 DEF Listing, Op

LEMMA ListsStep == Basics /\ ListsOK /\ [Next]_vars => ListsOK'
  <1> SUFFICES ASSUME Basics, ListsOK, [Next]_vars PROVE ListsOK'
    OBVIOUS
  <1>0. StateOK /\ \A c \in Calls : CallOK(c)
    BY DEF Basics
  <1>1. ASSUME NEW c \in Calls, Append_(c), pc' = [pc EXCEPT ![c] = "range"],
               pc[c] = "called", Op(c) = "push", UNCHANGED config
        PROVE  ListsOK'
    <2> DEFINE new == Appended(c)
    <2>1. Listing' = Listing
      BY <1>0, <1>1, ListingKept DEF Labels
    <2>2. new \in Seq(Elements)
      BY <1>0, ElementsOfFacts, ConcatProperties DEF StateOK, Appended
    <2>3. \A d \in Listing : was'[d] = was[d] \cup Places(new)
      BY <1>1 DEF Append_, Listing
    <2>4. ASSUME NEW d \in Listing, listed'[d] \in {listed[d], Overwritten(listed[d], c)}
          PROVE  Places(listed'[d]) \subseteq was'[d]
      <3>1. Places(listed[d]) \subseteq was[d]
        BY DEF ListsOK, ListedElsewhen
      <3>2. listed[d] \in Seq(Elements)
        BY <1>0 DEF StateOK, Listing
      <3> HIDE DEF new
      <3>3. Places(Overwritten(listed[d], c)) \subseteq Places(listed[d]) \cup Places(new)
        <4>1. new = Appended(c)
          BY DEF new
        <4> QED BY <2>2, <3>2, <4>1, OverwrittenFacts
      <3> QED BY <2>3, <2>4, <3>1, <3>3
    <2>5. /\ aliased' \subseteq aliased
          /\ \A d \in Listing : listed'[d] \in {listed[d], Overwritten(listed[d], c)}
      <3>1. \A d \in Listing : d \in Calls
        BY DEF Listing
      <3>2. CASE aliased' = {} /\ UNCHANGED listed
        BY <3>2
      <3>3. CASE /\ UNCHANGED aliased
                 /\ listed' = [d \in Calls |-> IF d \in aliased
                                 THEN Overwritten(listed[d], c) ELSE listed[d]]
        <4> QED BY <3>1, <3>3
      <3> QED BY <1>1, <3>2, <3>3 DEF Append_
    <2>6. \A d \in Listing : Places(listed'[d]) \subseteq was'[d]
      BY <2>4, <2>5
    <2>7. ListedElsewhen'
      BY <2>1, <2>6 DEF ListedElsewhen, Places
    <2> QED BY <2>1, <2>5, <2>7 DEF ListsOK
  <1>2. ASSUME NEW c \in Calls, Push(c), UNCHANGED config PROVE ListsOK'
    <2>1. CASE config.size[c] = 0
      <3>1. Listing' = Listing
        BY <1>0, <1>2, <2>1, ListingKept DEF Push, Goto, Labels
      <3> QED BY <1>2, <2>1, <3>1, ListsKept DEF Push, slice
    <2>2. CASE config.size[c] # 0
      BY <1>1, <1>2, <2>2 DEF Push, Goto
    <2> QED BY <2>1, <2>2
  <1>3. ASSUME NEW c \in Calls, RangeNext(c) \/ RangeEnd(c) \/ Send(c), UNCHANGED config
        PROVE  ListsOK'
    <2>1. /\ Op(c) = "push" /\ UNCHANGED slice
          /\ UNCHANGED pc \/ \E label \in Labels : pc' = [pc EXCEPT ![c] = label]
      BY <1>0, <1>3 DEF RangeNext, RangeEnd, Send, CallOK, Goto, Labels
    <2>2. Listing' = Listing
      <3>1. CASE UNCHANGED pc
        BY <1>3, <3>1 DEF Listing, Op
      <3>2. CASE \E label \in Labels : pc' = [pc EXCEPT ![c] = label]
        BY <1>0, <1>3, <2>1, <3>2, ListingKept
      <3> QED BY <2>1, <3>1, <3>2
    <2> QED BY <1>3, <2>1, <2>2, ListsKept DEF slice
  <1>4. ASSUME NEW c \in Calls, Call(c) \/ Pop(c) \/ GetOrEcho(c) \/ Subscribe(c) \/ Subscribed(c),
               UNCHANGED config
        PROVE  ListsOK'
    <2>1. Listing' = Listing
      <3>1. CASE Call(c)
        BY <1>0, <1>4, <3>1, ListingKept DEF Call, Goto, Labels
      <3>2. CASE Pop(c) \/ GetOrEcho(c)
        BY <1>0, <1>4, <3>2, ListingKept DEF Pop, GetOrEcho, Goto, Labels
      <3>3. CASE Subscribe(c)
        BY <1>0, <1>4, <3>3, ListingKept DEF Subscribe, Goto, Labels
      <3>4. CASE Subscribed(c)
        BY <1>0, <1>4, <3>4, ListingKept DEF Subscribed, CallOK, Goto, Labels
      <3> QED BY <1>4, <3>1, <3>2, <3>3, <3>4
    <2>2. UNCHANGED <<listed, was, aliased>>
      BY <1>4 DEF Call, Pop, Cut, GetOrEcho, Subscribe, Subscribed, slice
    <2> QED BY <1>4, <2>1, <2>2, ListsKept
  <1>5. ASSUME NEW c \in Calls, List(c), UNCHANGED config PROVE ListsOK'
    <2>1. Listing' = Listing \cup {c}
      <3>1. /\ Op(c) = "list"
            /\ \A d \in Calls : pc'[d] = IF d = c THEN "answer" ELSE pc[d]
        BY <1>0, <1>5 DEF List, Goto, StateOK
      <3> QED BY <1>5, <3>1 DEF Listing, Op
    <2>2. ASSUME NEW d \in Listing', d # c PROVE Places(listed'[d]) \subseteq was'[d]
      <3>1. d \in Listing /\ d \in Calls
        BY <2>1, <2>2 DEF Listing
      <3>2. listed'[d] = listed[d] /\ was'[d] = was[d]
        BY <1>0, <1>5, <2>2, <3>1 DEF List, StateOK
      <3> QED BY <3>1, <3>2 DEF ListsOK, ListedElsewhen
    <2>3. Places(listed'[c]) \subseteq was'[c]
      BY <1>0, <1>5 DEF List, StateOK
    <2>4. ListedElsewhen'
      BY <2>2, <2>3 DEF ListedElsewhen, Places
    <2> QED BY <1>5, <2>1, <2>4 DEF List, ListsOK
  <1>6. ASSUME NEW c \in Calls, Answer(c), UNCHANGED config PROVE ListsOK'
    <2>1. Listing' = Listing
      BY <1>0, <1>6, ListingKept DEF Answer, Goto, Labels
    <2> QED BY <1>6, <2>1, ListsKept DEF Answer
  <1>7. ASSUME UNCHANGED <<config, pc, listed, was>>, aliased' \subseteq aliased PROVE ListsOK'
    BY <1>7, ListsKept DEF Listing, Op
  <1>8. ASSUME NEW s \in Sessions, UNCHANGED config,
               Closes(s) \/ Delete(s) \/ Deleted(s) \/ Write(s) \/ SendLoopEnds(s)
        PROVE  ListsOK'
    BY <1>7, <1>8 DEF Closes, Delete, Deleted, Write, SendLoopEnds, slice
  <1>11. ASSUME NEW c \in Calls, Marshaled(c), UNCHANGED config PROVE ListsOK'
    BY <1>7, <1>11 DEF Marshaled
  <1>9. CASE Race /\ UNCHANGED config
    BY <1>7, <1>9 DEF Race, slice
  <1>10. CASE UNCHANGED vars
    BY <1>7, <1>10 DEF vars, slice
  <1> QED BY <1>2, <1>3, <1>4, <1>5, <1>6, <1>8, <1>9, <1>10, <1>11 DEF Next, Handle

\* fifo_list: each element that is marshaled in the end was at its place of the
\* list at some time since the call, though pops and pushes share its array.
THEOREM ListsOfTheTime == Spec => []ListedElsewhen
  <1>1. Init => ListsOK
    BY DEF Init, ListsOK, ListedElsewhen, Listing
  <1>2. ListsOK => ListedElsewhen
    BY DEF ListsOK
  <1> QED BY <1>1, <1>2, BasicsAlways, ListsStep, PTL DEF Spec

-----------------------------------------------------------------------------
(* The arrays lists share with the slice, and who writes the map.          *)

\* Who writes the map while nobody begins or ends to.
LEMMA MapKept ==
  ASSUME MapOK, UNCHANGED <<config, writing, status>>,
         \A c \in Calls : pc'[c] = "subscribing" <=> pc[c] = "subscribing"
  PROVE  MapOK'
  BY DEF MapOK

\* A step of the call c that does not touch the map.
LEMMA ElsewhereInMap ==
  ASSUME Basics, MapOK, NEW c \in Calls, UNCHANGED config,
         Call(c) \/ Push(c) \/ RangeNext(c) \/ RangeEnd(c) \/ Send(c) \/ Pop(c)
           \/ List(c) \/ GetOrEcho(c) \/ Answer(c) \/ Marshaled(c)
  PROVE  MapOK'
  <1>1. pc \in [Calls -> Labels]
    BY DEF Basics, StateOK
  <1>2. UNCHANGED <<writing, status>>
    <2>1. CASE Call(c) \/ Push(c) \/ RangeNext(c) \/ RangeEnd(c) \/ Send(c)
      BY <2>1 DEF Call, Push, RangeNext, RangeEnd, Send, session
    <2>2. CASE Pop(c) \/ List(c) \/ GetOrEcho(c) \/ Answer(c) \/ Marshaled(c)
      BY <2>2 DEF Pop, List, GetOrEcho, Answer, Marshaled, session
    <2> QED BY <2>1, <2>2
  <1>3. \/ UNCHANGED pc
        \/ /\ pc[c] # "subscribing"
           /\ \E l \in Labels \ {"subscribing"} : pc' = [pc EXCEPT ![c] = l]
    <2> USE DEF Labels
    <2>1. CASE Call(c) \/ Push(c)
      BY <2>1 DEF Call, Push, Goto
    <2>2. CASE RangeNext(c) \/ RangeEnd(c) \/ Send(c)
      BY <2>2 DEF RangeNext, RangeEnd, Send, Goto
    <2>3. CASE Pop(c) \/ List(c) \/ GetOrEcho(c)
      BY <2>3 DEF Pop, List, GetOrEcho, Goto
    <2>4. CASE Answer(c) \/ Marshaled(c)
      BY <2>4 DEF Answer, Marshaled, Goto
    <2> QED BY <2>1, <2>2, <2>3, <2>4
  <1>4. \A d \in Calls : pc'[d] = "subscribing" <=> pc[d] = "subscribing"
    BY <1>1, <1>3
  <1> QED BY <1>2, <1>4, MapKept

LEMMA MapStep == Basics /\ MapOK /\ [Next]_vars => MapOK'
  <1> SUFFICES ASSUME Basics, MapOK, [Next]_vars PROVE MapOK'
    OBVIOUS
  <1>0. /\ pc \in [Calls -> Labels] /\ Calls \cap Sessions = {}
        /\ status \in [Sessions -> {"open", "closing", "deleting", "closed"}]
    BY FifoAssumption DEF Basics, StateOK
  <1>1. ASSUME NEW c \in Calls, Call(c) \/ Handle(c), UNCHANGED config PROVE MapOK'
    <2>1. CASE Subscribe(c)
      <3>1. /\ pc[c] = "called" /\ writing = {} /\ UNCHANGED status
            /\ \/ writing' = {} /\ pc' = [pc EXCEPT ![c] = "answer"]
               \/ writing' = {c} /\ pc' = [pc EXCEPT ![c] = "subscribing"]
        BY <2>1 DEF Subscribe, Goto, session
      <3> QED BY <1>0, <3>1 DEF MapOK
    <2>2. CASE Subscribed(c)
      <3>1. /\ pc[c] = "subscribing" /\ writing' = writing \ {c} /\ UNCHANGED status
            /\ pc' = [pc EXCEPT ![c] = "answer"]
        BY <2>2 DEF Subscribed, Goto, session
      <3> QED BY <1>0, <3>1 DEF MapOK
    <2> QED BY <1>1, <2>1, <2>2, ElsewhereInMap DEF Handle
  <1>2. ASSUME NEW s \in Sessions, Closes(s) \/ Write(s) \/ SendLoopEnds(s) PROVE MapOK'
    <2>1. /\ UNCHANGED <<pc, writing>>
          /\ \/ UNCHANGED status
             \/ status[s] = "open" /\ status' = [status EXCEPT ![s] = "closing"]
      BY <1>2 DEF Closes, Write, SendLoopEnds, session
    <2> QED BY <1>0, <2>1 DEF MapOK
  <1>3. ASSUME NEW s \in Sessions, Delete(s) PROVE MapOK'
    <2>1. /\ UNCHANGED pc /\ writing = {} /\ writing' = {s}
          /\ status' = [status EXCEPT ![s] = "deleting"]
      BY <1>3 DEF Delete
    <2> QED BY <1>0, <2>1 DEF MapOK
  <1>4. ASSUME NEW s \in Sessions, Deleted(s) PROVE MapOK'
    <2>1. /\ UNCHANGED pc /\ writing' = writing \ {s} /\ status[s] = "deleting"
          /\ status' = [status EXCEPT ![s] = "closed"]
      BY <1>4 DEF Deleted
    <2> QED BY <1>0, <2>1 DEF MapOK
  <1>5. CASE Race \/ UNCHANGED vars
    BY <1>5 DEF Race, vars, session, MapOK
  <1> QED BY <1>1, <1>2, <1>3, <1>4, <1>5 DEF Next

\* A step that leaves the lists and the slice as they are.
LEMMA ArrayKept ==
  ASSUME ArrayOK, UNCHANGED <<listed, cut, fifo>>, aliased' \subseteq aliased, raced' = {}
  PROVE  ArrayOK'
  BY DEF ArrayOK, RaceNeedsPop

\* An append writes behind the slice.
LEMMA WrittenBehind ==
  ASSUME StateOK, NEW c \in Calls, NEW i \in Written(c)
  PROVE  i \in Nat /\ i > Len(fifo)
  <1>1. fifo \in Seq(Elements) /\ ElementsOf(c) \in Seq(Elements)
    BY ElementsOfFacts DEF StateOK
  <1>2. PICK m \in Nat : m = Len(fifo)
    BY <1>1, LenProperties
  <1>3. \A k \in 1 .. m : Appended(c)[k] = fifo[k]
    BY <1>1, <1>2, ConcatProperties DEF Appended
  <1>4. Len(Appended(c)) \in Nat
    BY <1>1, ConcatProperties DEF Appended
  <1>5. i \in 1 .. Len(Appended(c)) /\ (i > m \/ Appended(c)[i] # fifo[i])
    BY <1>2 DEF Written
  <1>6. i \in Nat /\ i >= 1
    BY ONLY <1>4, <1>5
  <1>7. i \notin 1 .. m
    BY ONLY <1>2, <1>3, <1>5, <1>6
  <1> QED BY ONLY <1>2, <1>6, <1>7

LEMMA ArrayStep == Basics /\ ListsOK /\ MapOK /\ ArrayOK /\ [Next]_vars => ArrayOK'
  <1> SUFFICES ASSUME Basics, ListsOK, MapOK, ArrayOK, [Next]_vars PROVE ArrayOK'
    OBVIOUS
  <1>0. StateOK /\ Calls \cap Sessions = {} /\ aliased \subseteq Calls
    BY FifoAssumption DEF Basics, ListsOK, Listing
  <1>n. /\ Len(fifo) \in Nat /\ \A d \in Calls : Len(listed[d]) \in Nat
    <2>1. fifo \in Seq(Elements) /\ \A d \in Calls : listed[d] \in Seq(Elements)
      BY <1>0 DEF StateOK
    <2> QED BY <2>1, LenProperties
  <1>1. ASSUME NEW c \in Calls, Push(c), config.size[c] # 0, raced = {} PROVE ArrayOK'
    <2>1. /\ fifo' = Appended(c) /\ raced' = {} /\ UNCHANGED cut
          /\ \/ aliased' = {}
             \/ /\ UNCHANGED aliased
                /\ listed' = [d \in Calls |-> IF d \in aliased
                                THEN Overwritten(listed[d], c) ELSE listed[d]]
      BY <1>1 DEF Push, Append_
    <2>2. PICK new \in Seq(Elements) : new = Appended(c) /\ Len(new) >= Len(fifo)
      <3>1. fifo \in Seq(Elements) /\ ElementsOf(c) \in Seq(Elements)
        BY <1>0, ElementsOfFacts DEF StateOK
      <3>2. /\ Appended(c) \in Seq(Elements)
            /\ Len(Appended(c)) = Len(fifo) + Len(ElementsOf(c))
        BY <3>1, ConcatProperties DEF Appended
      <3> QED BY <1>n, <3>1, <3>2, LenProperties
    <2>3. ASSUME NEW d \in aliased' \ cut' PROVE Len(listed'[d]) <= Len(fifo')
      <3>1. d \in aliased \ cut /\ d \in Calls /\ listed'[d] = Overwritten(listed[d], c)
        BY <1>0, <2>1, <2>3
      <3>2. listed[d] \in Seq(Elements)
        BY <1>0, <3>1 DEF StateOK
      <3>3. Len(listed'[d]) = Len(listed[d])
        BY <2>2, <3>1, <3>2, OverwrittenFacts
      <3>4. Len(listed[d]) <= Len(fifo)
        BY <3>1 DEF ArrayOK
      <3>5. Len(new) \in Nat
        BY <2>2, LenProperties
      <3> QED BY ONLY <1>n, <2>1, <2>2, <3>1, <3>3, <3>4, <3>5
    <2> QED BY <2>1, <2>3 DEF ArrayOK, RaceNeedsPop
  <1>2. ASSUME NEW c \in Calls, Pop(c), raced = {} PROVE ArrayOK'
    <2>1. CASE fifo = <<>>
      BY <1>2, <2>1, ArrayKept DEF Pop
    <2>2. CASE fifo # <<>>
      <3>1. cut' = cut \cup Listing /\ UNCHANGED aliased /\ raced' = {}
        BY <1>2, <2>2 DEF Pop
      <3> QED BY <3>1 DEF ListsOK, ArrayOK, RaceNeedsPop
    <2> QED BY <2>1, <2>2
  <1>3. ASSUME NEW c \in Calls, List(c), raced = {} PROVE ArrayOK'
    <2>1. /\ listed' = [listed EXCEPT ![c] = fifo] /\ aliased' = aliased \cup {c}
          /\ UNCHANGED <<fifo, cut>> /\ raced' = {}
      BY <1>3 DEF List
    <2>2. ASSUME NEW d \in aliased' \ cut' PROVE Len(listed'[d]) <= Len(fifo')
      <3>1. CASE d = c
        <4>1. listed'[d] = fifo
          BY <1>0, <2>1, <3>1 DEF StateOK
        <4> QED BY <1>n, <2>1, <4>1
      <3>2. CASE d # c
        <4>1. d \in aliased \ cut /\ listed'[d] = listed[d]
          BY <1>0, <2>1, <2>2, <3>2 DEF StateOK
        <4> QED BY <2>1, <4>1 DEF ArrayOK
      <3> QED BY <3>1, <3>2
    <2> QED BY <2>1, <2>2 DEF ArrayOK, RaceNeedsPop
  <1>4. ASSUME NEW c \in Calls, raced = {},
               Call(c) \/ (Push(c) /\ config.size[c] = 0) \/ RangeNext(c) \/ RangeEnd(c)
                 \/ Send(c) \/ GetOrEcho(c) \/ Subscribe(c) \/ Subscribed(c)
                 \/ Answer(c) \/ Marshaled(c)
        PROVE  ArrayOK'
    <2>1. CASE Call(c) \/ (Push(c) /\ config.size[c] = 0)
      BY <1>4, <2>1, ArrayKept DEF Call, Push, slice
    <2>2. CASE RangeNext(c) \/ RangeEnd(c) \/ Send(c)
      BY <1>4, <2>2, ArrayKept DEF RangeNext, RangeEnd, Send, slice
    <2>3. CASE GetOrEcho(c) \/ Subscribe(c) \/ Subscribed(c)
      BY <1>4, <2>3, ArrayKept DEF GetOrEcho, Subscribe, Subscribed, slice
    <2>4. CASE Answer(c) \/ Marshaled(c)
      BY <1>4, <2>4, ArrayKept DEF Answer, Marshaled
    <2> QED BY <1>4, <2>1, <2>2, <2>3, <2>4
  <1>5. ASSUME NEW s \in Sessions, raced = {},
               Closes(s) \/ Delete(s) \/ Deleted(s) \/ Write(s) \/ SendLoopEnds(s)
        PROVE  ArrayOK'
    BY <1>5, ArrayKept DEF Closes, Delete, Deleted, Write, SendLoopEnds, slice
  <1>6. ASSUME Race, UNCHANGED config PROVE ArrayOK'
    <2>1. PICK p \in Calls \cup Sessions, q \in Calls \cup Sessions :
            /\ MeetInMap(p, q) \/ MeetInArray(p, q)
            /\ raced' = {p, q} /\ UNCHANGED <<slice, pc>>
      BY <1>6 DEF Race
    <2>2. Listing' = Listing
      BY <1>6, <2>1 DEF Listing, Op
    <2>3. p \notin Listing
      <3>1. p \in Calls => pc[p] \in {"subscribing", "called"}
        BY <2>1 DEF MeetInMap, MeetInArray, MapOK
      <3> QED BY <1>0, <3>1 DEF Listing
    <2>4. q \notin Listing \/ MeetInArray(p, q)
      BY <1>0, <2>1 DEF MeetInMap, Listing
    <2>5. ASSUME MeetInArray(p, q) PROVE q \in cut
      <3>1. p \in Calls /\ q \in aliased /\ q \in Calls
        BY <1>0, <2>5 DEF MeetInArray, Collides
      <3>2. PICK i \in Written(p) : i <= Len(listed[q])
        BY <2>5 DEF MeetInArray, Collides
      <3>3. i \in Nat /\ i > Len(fifo)
        BY <1>0, <3>1, WrittenBehind
      <3>4. ~(Len(listed[q]) <= Len(fifo))
        BY ONLY <1>n, <3>1, <3>2, <3>3
      <3> QED BY <3>1, <3>4 DEF ArrayOK
    <2>6. RaceNeedsPop'
      BY <2>1, <2>2, <2>3, <2>4, <2>5 DEF RaceNeedsPop, slice
    <2> QED BY <2>1, <2>6 DEF ArrayOK, slice
  <1>7. CASE UNCHANGED vars
    BY <1>7 DEF vars, slice, ArrayOK, RaceNeedsPop, Listing, Op
  <1>8. \A c \in Calls : config.size[c] = 0 \/ config.size[c] # 0
    OBVIOUS
  <1> QED BY <1>1, <1>2, <1>3, <1>4, <1>5, <1>6, <1>7, <1>8 DEF Next, Handle

\* append and fifo_list: as long as there is no pop, a push leaves what lists have
\* returned alone, marshaled without the lock though they are.
THEOREM RacesNeedPops == Spec => []RaceNeedsPop
  <1>1. Init => ListsOK /\ MapOK /\ ArrayOK
    BY DEF Init, ListsOK, ListedElsewhen, MapOK, ArrayOK, RaceNeedsPop, Listing
  <1>2. ArrayOK => RaceNeedsPop
    BY DEF ArrayOK
  <1> QED BY <1>1, <1>2, BasicsAlways, ListsStep, MapStep, ArrayStep, PTL DEF Spec

-----------------------------------------------------------------------------
(* Subscribes that come late.                                              *)

\* What a step must not do: begin a call, end a session or take in a subscriber.
LEMMA LateKept ==
  ASSUME LateOK, UNCHANGED <<config, late>>, subs' \subseteq subs,
         \A c \in Calls : /\ pc'[c] \in {"idle", "called", "subscribing"} =>
                               pc[c] \in {"idle", "called", "subscribing"}
                          /\ pc[c] \in {"answer", "done"} => pc'[c] \in {"answer", "done"},
         \A s \in Sessions : /\ status'[s] \in {"deleting", "closed"} =>
                                  status[s] \in {"deleting", "closed"}
                             /\ s \in subs' /\ status'[s] = "closed" => status[s] = "closed",
         subs \subseteq Sessions
  PROVE  LateOK'
  <1>1. \A s \in Sessions : ToSubscribe(s)' \subseteq ToSubscribe(s)
    BY DEF ToSubscribe, SessionOf, Op
  <1>2. \A s \in Sessions : status'[s] \in {"deleting", "closed"} => ToSubscribe(s)' \subseteq late'
    BY <1>1 DEF LateOK
  <1>3. ASSUME NEW s \in subs', status'[s] = "closed"
        PROVE  \E c \in late' : SessionOf(c)' = s /\ pc'[c] \in {"answer", "done"}
    <2>1. s \in subs /\ s \in Sessions /\ status[s] = "closed"
      BY <1>3
    <2>2. PICK c \in late : SessionOf(c) = s /\ pc[c] \in {"answer", "done"}
      BY <2>1 DEF LateOK, CloseUnsubscribes
    <2>3. c \in Calls
      BY <2>2 DEF LateOK
    <2> QED BY <2>2, <2>3 DEF SessionOf
  <1> QED BY <1>2, <1>3 DEF LateOK, CloseUnsubscribes

\* A step of the call c that leaves the sessions and the map.
LEMMA LateCall ==
  ASSUME Basics, LateOK, NEW c \in Calls, UNCHANGED <<config, late, subs, status>>,
         \/ UNCHANGED pc
         \/ \E l \in Labels :
              /\ pc' = [pc EXCEPT ![c] = l]
              /\ l \in {"idle", "called", "subscribing"} =>
                   pc[c] \in {"idle", "called", "subscribing"}
              /\ pc[c] \in {"answer", "done"} => l \in {"answer", "done"}
  PROVE  LateOK'
  <1>1. pc \in [Calls -> Labels] /\ subs \subseteq Sessions
    BY DEF Basics, StateOK
  <1>2. \A d \in Calls : /\ pc'[d] \in {"idle", "called", "subscribing"} =>
                               pc[d] \in {"idle", "called", "subscribing"}
                         /\ pc[d] \in {"answer", "done"} => pc'[d] \in {"answer", "done"}
    BY <1>1
  <1> QED BY <1>1, <1>2, LateKept

LEMMA LateStep == Basics /\ LateOK /\ [Next]_vars => LateOK'
  <1> SUFFICES ASSUME Basics, LateOK, [Next]_vars PROVE LateOK'
    OBVIOUS
  <1>0. /\ pc \in [Calls -> Labels] /\ subs \subseteq Sessions
        /\ status \in [Sessions -> {"open", "closing", "deleting", "closed"}]
    BY DEF Basics, StateOK
  <1>1. ASSUME NEW c \in Calls, UNCHANGED config,
               Call(c) \/ Push(c) \/ RangeNext(c) \/ RangeEnd(c) \/ Send(c) \/ Pop(c)
                 \/ List(c) \/ GetOrEcho(c) \/ Subscribe(c) \/ Answer(c) \/ Marshaled(c)
        PROVE  LateOK'
    <2>1. UNCHANGED <<late, subs, status>>
      <3>1. CASE Call(c) \/ Push(c) \/ RangeNext(c) \/ RangeEnd(c) \/ Send(c)
        BY <3>1 DEF Call, Push, RangeNext, RangeEnd, Send, session
      <3>2. CASE Pop(c) \/ List(c) \/ GetOrEcho(c)
        BY <3>2 DEF Pop, List, GetOrEcho, session
      <3>3. CASE Subscribe(c) \/ Answer(c) \/ Marshaled(c)
        BY <3>3 DEF Subscribe, Answer, Marshaled, session
      <3> QED BY <1>1, <3>1, <3>2, <3>3
    <2>2. \/ UNCHANGED pc
          \/ \E l \in Labels :
               /\ pc' = [pc EXCEPT ![c] = l]
               /\ l \in {"idle", "called", "subscribing"} =>
                    pc[c] \in {"idle", "called", "subscribing"}
               /\ pc[c] \in {"answer", "done"} => l \in {"answer", "done"}
      <3> USE DEF Labels
      <3>1. CASE Call(c) \/ Push(c)
        BY <3>1 DEF Call, Push, Goto
      <3>2. CASE RangeNext(c) \/ RangeEnd(c) \/ Send(c)
        BY <3>2 DEF RangeNext, RangeEnd, Send, Goto
      <3>3. CASE Pop(c) \/ List(c) \/ GetOrEcho(c)
        BY <3>3 DEF Pop, List, GetOrEcho, Goto
      <3>4. CASE Subscribe(c)
        BY <3>4 DEF Subscribe, Goto
      <3>5. CASE Answer(c) \/ Marshaled(c)
        BY <3>5 DEF Answer, Marshaled, Goto
      <3> QED BY <1>1, <3>1, <3>2, <3>3, <3>4, <3>5
    <2> QED BY <1>1, <2>1, <2>2, LateCall
  <1>2. ASSUME NEW c \in Calls, UNCHANGED config, Subscribed(c) PROVE LateOK'
    <2> DEFINE t == SessionOf(c)
    <2>1. /\ pc[c] = "subscribing" /\ pc' = [pc EXCEPT ![c] = "answer"]
          /\ subs' = subs \cup {t} /\ UNCHANGED <<config, late, status>>
      BY <1>2 DEF Subscribed, Goto, session
    <2>2. /\ pc'[c] = "answer" /\ t \in Sessions /\ c \in ToSubscribe(t)
          /\ \A d \in Calls \ {c} : pc'[d] = pc[d]
      BY <1>0, <2>1 DEF Basics, StateOK, CallOK, Config, SessionOf, ToSubscribe
    <2>3. \A s \in Sessions : ToSubscribe(s)' \subseteq ToSubscribe(s)
      BY <2>1, <2>2 DEF ToSubscribe, SessionOf, Op
    <2>4. ASSUME NEW s \in subs', status'[s] = "closed"
          PROVE  \E d \in late' : SessionOf(d)' = s /\ pc'[d] \in {"answer", "done"}
      <3>1. CASE s = t
        <4>1. c \in late
          BY <2>1, <2>2, <2>4, <3>1 DEF LateOK
        <4> QED BY <2>1, <2>2, <3>1, <4>1 DEF SessionOf
      <3>2. CASE s # t
        <4>1. s \in subs /\ status[s] = "closed"
          BY <2>1, <2>4, <3>2
        <4>2. PICK d \in late : SessionOf(d) = s /\ pc[d] \in {"answer", "done"}
          BY <4>1 DEF LateOK, CloseUnsubscribes
        <4>3. d \in Calls \ {c}
          BY <2>1, <4>2 DEF LateOK
        <4> QED BY <2>1, <2>2, <4>2, <4>3 DEF SessionOf
      <3> QED BY <3>1, <3>2
    <2> QED BY <2>1, <2>3, <2>4 DEF LateOK, CloseUnsubscribes
  <1>3. ASSUME NEW s \in Sessions, UNCHANGED config, Closes(s) \/ Write(s) \/ SendLoopEnds(s)
        PROVE  LateOK'
    <2>1. /\ UNCHANGED <<pc, late, subs>>
          /\ \/ UNCHANGED status
             \/ status[s] = "open" /\ status' = [status EXCEPT ![s] = "closing"]
      BY <1>3 DEF Closes, Write, SendLoopEnds, session
    <2>2. \A q \in Sessions : /\ status'[q] \in {"deleting", "closed"} =>
                                   status[q] \in {"deleting", "closed"}
                              /\ status'[q] = "closed" => status[q] = "closed"
      BY <1>0, <2>1
    <2> QED BY <1>0, <1>3, <2>1, <2>2, LateKept
  <1>4. ASSUME NEW s \in Sessions, UNCHANGED config, Delete(s) PROVE LateOK'
    <2>1. /\ UNCHANGED <<pc, subs>> /\ late' = late \cup ToSubscribe(s)
          /\ status' = [status EXCEPT ![s] = "deleting"]
      BY <1>4 DEF Delete
    <2>2. \A q \in Sessions : ToSubscribe(q)' = ToSubscribe(q)
      BY <1>4, <2>1 DEF ToSubscribe, SessionOf, Op
    <2>3. late' \subseteq Calls
      BY <2>1 DEF LateOK, ToSubscribe
    <2>4. ASSUME NEW q \in Sessions, status'[q] \in {"deleting", "closed"}
          PROVE  ToSubscribe(q)' \subseteq late'
      BY <1>0, <2>1, <2>2, <2>4 DEF LateOK
    <2>5. ASSUME NEW q \in subs', status'[q] = "closed"
          PROVE  \E d \in late' : SessionOf(d)' = q /\ pc'[d] \in {"answer", "done"}
      <3>1. q \in subs /\ status[q] = "closed"
        BY <1>0, <2>1, <2>5
      <3>2. PICK d \in late : SessionOf(d) = q /\ pc[d] \in {"answer", "done"}
        BY <3>1 DEF LateOK, CloseUnsubscribes
      <3> QED BY <1>4, <2>1, <3>2 DEF SessionOf
    <2> QED BY <2>3, <2>4, <2>5 DEF LateOK, CloseUnsubscribes
  <1>5. ASSUME NEW s \in Sessions, UNCHANGED config, Deleted(s) PROVE LateOK'
    <2>1. /\ UNCHANGED <<pc, late>> /\ subs' = subs \ {s} /\ status[s] = "deleting"
          /\ status' = [status EXCEPT ![s] = "closed"]
      BY <1>5 DEF Deleted, Without
    <2>2. \A q \in Sessions : /\ status'[q] \in {"deleting", "closed"} =>
                                   status[q] \in {"deleting", "closed"}
                              /\ q \in subs' /\ status'[q] = "closed" => status[q] = "closed"
      BY <1>0, <2>1
    <2> QED BY <1>0, <1>5, <2>1, <2>2, LateKept
  <1>6. CASE (Race /\ UNCHANGED config) \/ UNCHANGED vars
    <2>1. UNCHANGED <<config, pc, late, subs, status>>
      BY <1>6 DEF Race, vars, session
    <2> QED BY <1>0, <2>1, LateKept
  <1> QED BY <1>1, <1>2, <1>3, <1>4, <1>5, <1>6 DEF Next, Handle

\* The close handler: a session stays in the map after it only through a subscribe
\* that was still to come then, whichever goroutines the others ran in.
THEOREM OnlyLateSubscribesStay == Spec => []CloseUnsubscribes
  <1>1. Init => LateOK
    <2> SUFFICES ASSUME Init PROVE LateOK
      OBVIOUS
    <2>1. CloseUnsubscribes /\ late = {}
      BY DEF Init, CloseUnsubscribes
    <2>2. ASSUME NEW s \in Sessions, status[s] \in {"deleting", "closed"}
          PROVE  ToSubscribe(s) = {}
      <3>1. s \notin Clients /\ s # NoSession
        BY <2>2, FifoAssumption DEF Init
      <3> QED BY <3>1 DEF Clients, ToSubscribe
    <2> QED BY <2>1, <2>2 DEF LateOK
  <1>2. LateOK => CloseUnsubscribes
    BY DEF LateOK
  <1> QED BY <1>1, <1>2, BasicsAlways, LateStep, PTL DEF Spec

-----------------------------------------------------------------------------
(* What subscribers are told.                                              *)

Bounds(c) == /\ Len(pushed) \in Nat /\ Len(elems[c]) \in Nat \ {0}
             /\ Before(c) \in Nat /\ Before(c) + 1 \in 1 .. Len(pushed)

LEMMA Lengths ==
  ASSUME StateOK
  PROVE  /\ pushed \in Seq(Elements) /\ Len(pushed) \in Nat
         /\ \A s \in Sessions : got[s] \in Seq(Elements) /\ Len(got[s]) \in Nat
         /\ \A c \in Calls : elems[c] \in Seq(Elements) /\ Len(elems[c]) \in Nat
  <1>1. /\ pushed \in Seq(Elements)
        /\ \A s \in Sessions : got[s] \in Seq(Elements)
        /\ \A c \in Calls : elems[c] \in Seq(Elements)
    BY DEF StateOK
  <1> QED BY <1>1, LenProperties

LEMMA PushBounds ==
  ASSUME Basics, TellsOK, NEW c \in lock
  PROVE  Bounds(c) /\ c \in Calls /\ lock = {c}
  <1>1. c \in Calls /\ lock = {c} /\ elems[c] # <<>> /\ elems[c] \in Seq(Elements)
    BY DEF Basics, LockOK, StateOK, CallOK
  <1>2. PICK m \in Nat, n \in Nat : m = Len(pushed) /\ n = Len(elems[c])
    BY <1>1, Lengths DEF Basics
  <1>3. n # 0 /\ n <= m
    BY <1>1, <1>2, EmptySeq DEF TellsOK, PushOK
  <1> QED BY <1>1, <1>2, <1>3 DEF Bounds, Before

LEMMA ToldKept ==
  ASSUME NEW s \in Sessions, NEW j \in Nat, StateOK, j <= Len(pushed), Told(s, j),
         \A i \in 1 .. Len(pushed) : pushed'[i] = pushed[i],
         got'[s] = got[s], from'[s] = from[s]
  PROVE  Told(s, j)'
  <1>1. PICK n \in Nat, m \in Nat : n = Len(got[s]) /\ m = Len(pushed)
    BY Lengths
  <1>2. \A k \in 1 .. n : j - n + k \in 1 .. m
    BY <1>1 DEF Told
  <1> QED BY <1>1, <1>2 DEF Told

LEMMA ToldNothing ==
  ASSUME NEW s \in Sessions, NEW j \in Nat, got[s] = <<>>, j <= from[s]
  PROVE  Told(s, j)
  <1>1. Len(got[s]) = 0
    OBVIOUS
  <1> QED BY <1>1 DEF Told

\* Steps that are of no concern to the subscribers.
LEMMA TellsKept ==
  ASSUME Basics, TellsOK,
         UNCHANGED <<pushed, subs, lock, elems, due, visited, target, from, got>>,
         \A c \in Calls : pc'[c] = "send" <=> pc[c] = "send",
         \A s \in Sessions : status'[s] = "open" => status[s] = "open"
  PROVE  TellsOK'
  <1>1. lock \subseteq Calls
    BY DEF Basics, LockOK
  <1>2. \A c \in lock : PushOK(c)' /\ due'[c] \subseteq subs'
    BY DEF TellsOK, PushOK, Before
  <1>3. ASSUME NEW s \in Sessions, status'[s] = "open" PROVE SessionOK(s)'
    <2>1. SessionOK(s)
      BY <1>3 DEF TellsOK
    <2>2. \A j : Told(s, j)' <=> Told(s, j)
      BY DEF Told
    <2>3. \A c \in lock : HasTold(c, s)' <=> HasTold(c, s)
      BY <1>1 DEF HasTold
    <2> QED BY <2>1, <2>2, <2>3 DEF SessionOK, Before
  <1> QED BY <1>2, <1>3 DEF TellsOK

LEMMA TellsPush ==
  ASSUME Basics, TellsOK, NEW c \in Calls, Push(c), UNCHANGED config,
         config.size[c] # 0
  PROVE  TellsOK'
  <1> DEFINE E == ElementsOf(c)
  <1>0. StateOK /\ \A d \in Calls : CallOK(d)
    BY DEF Basics
  <1>1. /\ pushed' = pushed \o E /\ elems' = [elems EXCEPT ![c] = E]
        /\ due' = [due EXCEPT ![c] = subs] /\ visited' = [visited EXCEPT ![c] = {}]
        /\ UNCHANGED <<target, subs, status, from, got>>
        /\ lock = {} /\ lock' = {c} /\ pc' = [pc EXCEPT ![c] = "range"]
    BY DEF Push, Append_, LockFor, Goto, session
  <1>2. E \in Seq(Elements)
    BY <1>0, ElementsOfFacts DEF StateOK
  <1> HIDE DEF E
  <1>3. PICK m \in Nat, n \in Nat : m = Len(pushed) /\ n = Len(E)
    BY <1>0, <1>2, Lengths, LenProperties
  <1>4. /\ Len(pushed') = m + n
        /\ \A i \in 1 .. m : pushed'[i] = pushed[i]
        /\ \A i \in 1 .. n : pushed'[m + i] = E[i]
    <2>1. pushed \in Seq(Elements)
      BY <1>0 DEF StateOK
    <2>2. \A i \in 1 .. m + n : pushed'[i] = IF i <= m THEN pushed[i] ELSE E[i - m]
      BY <1>1, <1>2, <1>3, <2>1, ConcatProperties
    <2>3. Len(pushed') = m + n
      BY <1>1, <1>2, <1>3, <2>1, ConcatProperties
    <2>4. ASSUME NEW i \in 1 .. n PROVE pushed'[m + i] = E[i]
      <3>1. m + i \in 1 .. m + n /\ ~(m + i <= m) /\ (m + i) - m = i
        OBVIOUS
      <3> QED BY <2>2, <3>1
    <2> QED BY <2>2, <2>3, <2>4
  <1>5. elems'[c] = E /\ due'[c] = subs /\ visited'[c] = {} /\ Before(c)' = m
    BY <1>0, <1>1, <1>3, <1>4 DEF StateOK, Before
  <1>6. PushOK(c)' /\ due'[c] \subseteq subs'
    BY <1>1, <1>3, <1>4, <1>5 DEF PushOK
  <1>7. \A d \in Calls : pc'[d] # "send"
    BY <1>0, <1>1 DEF StateOK, CallOK
  <1>8. ASSUME NEW s \in Sessions, status'[s] = "open" PROVE SessionOK(s)'
    <2>1. SessionOK(s)
      BY <1>1, <1>8 DEF TellsOK
    <2>2. from'[s] <= Len(pushed')
      <3>1. from[s] \in Nat /\ from[s] <= m
        BY <1>0, <1>3, <2>1 DEF SessionOK, StateOK
      <3> QED BY <1>1, <1>4, <3>1
    <2>3. s \in subs => Told(s, m)'
      BY <1>0, <1>1, <1>3, <1>4, <2>1, ToldKept DEF SessionOK
    <2>4. ~HasTold(c, s)'
      BY <1>5 DEF HasTold
    <2> QED BY <1>1, <1>5, <1>7, <2>1, <2>2, <2>3, <2>4 DEF SessionOK
  <1> QED BY <1>1, <1>6, <1>8 DEF TellsOK

LEMMA TellsRangeNext ==
  ASSUME Basics, TellsOK, NEW c \in Calls, RangeNext(c)
  PROVE  TellsOK'
  <1>0. StateOK /\ lock = {c} /\ \A d \in Calls \ {c} : pc[d] # "send"
    BY DEF Basics, CallOK, RangeNext
  <1>1. PICK t \in subs \ visited[c] :
          /\ visited' = [visited EXCEPT ![c] = @ \cup {t}]
          /\ due' = [due EXCEPT ![c] = @ \ {t}]
          /\ target' = [target EXCEPT ![c] = t]
    BY DEF RangeNext
  <1>2. /\ pc[c] = "range" /\ pc' = [pc EXCEPT ![c] = "send"]
        /\ UNCHANGED <<pushed, elems, subs, lock, status, from, got>>
    BY DEF RangeNext, Goto, slice, session
  <1>3. PushOK(c)' /\ due'[c] \subseteq subs'
    BY <1>0, <1>1, <1>2 DEF TellsOK, PushOK, Before, StateOK
  <1>4. ASSUME NEW s \in Sessions, status'[s] = "open" PROVE SessionOK(s)'
    <2>1. SessionOK(s)
      BY <1>2, <1>4 DEF TellsOK
    <2>2. \A j : Told(s, j)' <=> Told(s, j)
      BY <1>2 DEF Told
    <2>3. HasTold(c, s)' <=> HasTold(c, s)
      BY <1>0, <1>1, <1>2 DEF HasTold, StateOK
    <2>4. /\ s \in (visited[c] \cup due[c])' <=> s \in visited[c] \cup due[c] \/ s = t
          /\ s # t => (s \in visited'[c] <=> s \in visited[c])
          /\ t \in visited'[c] /\ t \in subs
      BY <1>0, <1>1 DEF StateOK
    <2>5. \A d \in Calls : pc'[d] = "send" /\ target'[d] = s => d = c /\ s = t
      BY <1>0, <1>1, <1>2 DEF StateOK
    <2>6. Before(c)' = Before(c)
      BY <1>2 DEF Before
    <2> QED BY <1>0, <1>2, <2>1, <2>2, <2>3, <2>4, <2>5, <2>6 DEF SessionOK
  <1> QED BY <1>0, <1>2, <1>3, <1>4 DEF TellsOK

LEMMA TellsRangeEnd ==
  ASSUME Basics, TellsOK, NEW c \in Calls, RangeEnd(c)
  PROVE  TellsOK'
  <1> DEFINE t == Tail(elems[c])
  <1>0. StateOK /\ lock = {c} /\ elems[c] # <<>> /\ \A d \in Calls : pc[d] # "send"
    BY DEF Basics, CallOK, RangeEnd
  <1>1. /\ pc[c] = "range" /\ due[c] = {} /\ elems' = [elems EXCEPT ![c] = t]
        /\ UNCHANGED <<pushed, subs, target, status, from, got>>
    BY DEF RangeEnd, slice, session
  <1>2. PushOK(c) /\ Bounds(c)
    BY <1>0, PushBounds DEF TellsOK
  <1>3. PICK m \in Nat, n \in Nat \ {0} : m = Len(pushed) /\ n = Len(elems[c])
    BY <1>2 DEF Bounds
  <1>4. Before(c) = m - n /\ m - n \in Nat
    BY <1>2, <1>3 DEF Bounds, Before
  <1>5. /\ t \in Seq(Elements) /\ Len(t) = n - 1
        /\ \A k \in 1 .. n - 1 : t[k] = elems[c][k + 1]
    <2>1. elems[c] \in Seq(Elements)
      BY <1>0 DEF StateOK
    <2> QED BY <1>0, <1>3, <2>1, HeadTailProperties
  <1> HIDE DEF t
  <1>6. ASSUME NEW s \in Sessions, s \in subs, SessionOK(s)
        PROVE  Told(s, m - n + 1)
    <2>1. CASE s \in visited[c]
      BY <1>0, <1>1, <1>4, <1>6, <2>1 DEF SessionOK, HasTold
    <2>2. CASE s \notin visited[c]
      <3>1. got[s] = <<>> /\ from[s] = m
        BY <1>0, <1>1, <1>3, <1>6, <2>2 DEF SessionOK
      <3>2. m - n + 1 \in Nat /\ m - n + 1 <= m
        BY <1>4
      <3> QED BY <1>6, <3>1, <3>2, ToldNothing
    <2> QED BY <2>1, <2>2
  <1>7. \A s, j : Told(s, j)' <=> Told(s, j)
    BY <1>1 DEF Told
  <1>8. CASE n > 1
    <2>1. /\ UNCHANGED <<pc, lock>>
          /\ due' = [due EXCEPT ![c] = subs] /\ visited' = [visited EXCEPT ![c] = {}]
      BY <1>3, <1>8 DEF RangeEnd
    <2>2. /\ elems'[c] = t /\ due'[c] = subs /\ visited'[c] = {}
          /\ Before(c)' = m - n + 1
      <3>1. elems'[c] = t /\ due'[c] = subs /\ visited'[c] = {}
        BY <1>0, <1>1, <2>1 DEF StateOK
      <3>2. m - (n - 1) = m - n + 1
        OBVIOUS
      <3> QED BY <1>1, <1>3, <1>5, <3>1, <3>2 DEF Before
    <2>3. PushOK(c)'
      <3>1. ASSUME NEW k \in 1 .. n - 1 PROVE t[k] = pushed[m - n + 1 + k]
        <4>1. k + 1 \in 1 .. n /\ (m - n) + (k + 1) = m - n + 1 + k
          OBVIOUS
        <4>2. elems[c][k + 1] = pushed[Before(c) + (k + 1)]
          BY ONLY <1>2, <1>3, <4>1 DEF PushOK
        <4> QED BY ONLY <1>4, <1>5, <4>1, <4>2, k \in 1 .. n - 1
      <3>2. n - 1 <= m
        BY <1>4
      <3> QED BY <1>1, <1>3, <1>5, <2>2, <3>1, <3>2 DEF PushOK
    <2>4. ASSUME NEW s \in Sessions, status'[s] = "open" PROVE SessionOK(s)'
      <3>1. SessionOK(s)
        BY <1>1, <2>4 DEF TellsOK
      <3>2. ~HasTold(c, s)'
        BY <2>2 DEF HasTold
      <3> QED BY <1>0, <1>1, <1>6, <1>7, <2>1, <2>2, <3>1, <3>2 DEF SessionOK
    <2> QED BY <1>0, <1>1, <2>1, <2>2, <2>3, <2>4 DEF TellsOK
  <1>9. CASE n = 1
    <2>1. lock' = {} /\ pc' = [pc EXCEPT ![c] = "answer"]
      BY <1>0, <1>3, <1>9 DEF RangeEnd, Goto, Unlock
    <2>2. \A d \in Calls : pc'[d] # "send"
      BY <1>0, <2>1 DEF StateOK
    <2>3. ASSUME NEW s \in Sessions, status'[s] = "open" PROVE SessionOK(s)'
      <3>1. SessionOK(s)
        BY <1>1, <2>3 DEF TellsOK
      <3>2. m - n + 1 = m
        BY <1>9
      <3>3. s \in subs => Told(s, m)
        BY <1>6, <3>1, <3>2
      <3> QED BY <1>1, <1>3, <1>7, <2>1, <2>2, <3>1, <3>3 DEF SessionOK
    <2> QED BY <2>1, <2>3 DEF TellsOK
  <1> QED BY <1>8, <1>9

LEMMA TellsSend ==
  ASSUME Basics, TellsOK, NEW c \in Calls, Send(c)
  PROVE  TellsOK'
  <1> DEFINE h == Head(elems[c])
             t == target[c]
  <1>0. /\ StateOK /\ lock = {c} /\ elems[c] # <<>> /\ t \in Sessions
        /\ \A d \in Calls \ {c} : pc[d] # "send"
    BY DEF Basics, CallOK, Send
  <1>1. /\ pc[c] = "send" /\ pc' = [pc EXCEPT ![c] = "range"]
        /\ got' = [got EXCEPT ![t] = Append(@, h)]
        /\ UNCHANGED <<pushed, elems, subs, lock, due, visited, target, status, from>>
    BY DEF Send, Goto, slice, range, session
  <1>2. PushOK(c) /\ Bounds(c)
    BY <1>0, PushBounds DEF TellsOK
  <1>3. PICK b \in Nat : b = Before(c)
    BY <1>2 DEF Bounds
  <1>4. h = pushed[b + 1]
    <2>1. h = elems[c][1] /\ 1 \in 1 .. Len(elems[c])
      BY <1>0, <1>2, Lengths, HeadTailProperties DEF Bounds
    <2> QED BY <1>2, <1>3, <2>1 DEF PushOK
  <1>5. h \in Elements
    BY <1>0, Lengths, HeadTailProperties
  <1> HIDE DEF h
  <1>6. /\ got'[t] = Append(got[t], h)
        /\ \A s \in Sessions \ {t} : got'[s] = got[s]
    BY <1>0, <1>1 DEF StateOK
  <1>7. \A d \in Calls : pc'[d] # "send"
    BY <1>0, <1>1 DEF StateOK
  <1>8. PushOK(c)' /\ Before(c)' = Before(c)
    BY <1>1, <1>2 DEF PushOK, Before
  <1>9. ASSUME NEW s \in Sessions, status'[s] = "open" PROVE SessionOK(s)'
    <2>1. SessionOK(s)
      BY <1>1, <1>9 DEF TellsOK
    <2>2. HasTold(c, s)' <=> s \in visited[c]
      BY <1>1, <1>7 DEF HasTold
    <2>3. CASE s = t
      <3>1. /\ s \in subs /\ s \in visited[c] /\ ~HasTold(c, s)
            /\ from[s] <= Len(pushed)
        BY <1>1, <2>1, <2>3 DEF SessionOK, HasTold
      <3>2. Told(s, b)
        BY <1>0, <1>3, <2>1, <3>1 DEF SessionOK
      <3>3. PICK n \in Nat : n = Len(got[s])
        BY <1>0, Lengths
      <3>4. /\ Len(got'[s]) = n + 1 /\ got'[s][n + 1] = h
            /\ \A k \in 1 .. n : got'[s][k] = got[s][k]
        <4>1. got[s] \in Seq(Elements) /\ got'[s] = Append(got[s], h)
          BY <1>0, <1>6, <2>3, Lengths
        <4> QED BY ONLY <1>5, <3>3, <4>1, AppendProperties
      <3>5. Told(s, b + 1)'
        <4>1. n <= b /\ b - n <= from[s]
          BY <3>2, <3>3 DEF Told
        <4>2. n + 1 <= b + 1 /\ (b + 1) - (n + 1) = b - n
          BY <4>1
        <4>3. ASSUME NEW k \in 1 .. n + 1 PROVE got'[s][k] = pushed[b - n + k]
          <5>1. CASE k = n + 1
            <6>1. b - n + k = b + 1
              BY <5>1
            <6> QED BY <1>4, <3>4, <5>1, <6>1
          <5>2. CASE k \in 1 .. n
            BY <3>2, <3>3, <3>4, <5>2 DEF Told
          <5> QED BY <5>1, <5>2
        <4>4. from' = from /\ pushed' = pushed
          BY <1>1
        <4> QED BY ONLY <3>4, <4>1, <4>2, <4>3, <4>4, n \in Nat, b \in Nat DEF Told
      <3> QED BY <1>0, <1>1, <1>3, <1>7, <1>8, <2>2, <3>1, <3>5 DEF SessionOK
    <2>4. CASE s # t
      <3>1. \A j : Told(s, j)' <=> Told(s, j)
        BY <1>1, <1>6, <2>4 DEF Told
      <3>2. HasTold(c, s) <=> s \in visited[c]
        BY <2>4 DEF HasTold
      <3> QED BY <1>0, <1>1, <1>6, <1>7, <1>8, <2>1, <2>2, <2>4, <3>1, <3>2 DEF SessionOK
    <2> QED BY <2>3, <2>4
  <1> QED BY <1>0, <1>1, <1>8, <1>9 DEF TellsOK

LEMMA TellsSubscribed ==
  ASSUME Basics, TellsOK, NEW c \in Calls, Subscribed(c), UNCHANGED config
  PROVE  TellsOK'
  <1> DEFINE t == SessionOf(c)
  <1>0. StateOK /\ lock \subseteq Calls
    BY DEF Basics, LockOK
  <1>1. /\ pc[c] = "subscribing" /\ pc' = [pc EXCEPT ![c] = "answer"]
        /\ subs' = subs \cup {t}
        /\ from' = IF t \in subs THEN from ELSE [from EXCEPT ![t] = Len(pushed)]
        /\ UNCHANGED <<pushed, elems, lock, due, visited, target, status, got>>
    BY DEF Subscribed, Goto, slice, range, session
  <1> HIDE DEF t
  <1>2. \A d \in Calls : pc'[d] = "send" <=> pc[d] = "send"
    BY <1>0, <1>1 DEF StateOK
  <1>3. CASE t \in subs
    <2>1. subs' = subs /\ from' = from
      BY <1>1, <1>3
    <2> QED BY <1>1, <1>2, <2>1, TellsKept
  <1>4. CASE t \notin subs
    <2>1. \A d \in lock : PushOK(d)' /\ due'[d] \subseteq subs'
      BY <1>1 DEF TellsOK, PushOK, Before
    <2>2. ASSUME NEW s \in Sessions, status'[s] = "open" PROVE SessionOK(s)'
      <3>1. SessionOK(s)
        BY <1>1, <2>2 DEF TellsOK
      <3>2. \A d \in Calls : HasTold(d, s)' <=> HasTold(d, s)
        BY <1>1, <1>2 DEF HasTold
      <3>3. CASE s # t
        <4>1. from'[s] = from[s]
          BY <1>0, <1>1, <3>3 DEF StateOK
        <4>2. \A j : Told(s, j)' <=> Told(s, j)
          BY <1>1, <4>1 DEF Told
        <4> QED BY <1>0, <1>1, <1>2, <3>1, <3>2, <3>3, <4>1, <4>2 DEF SessionOK, Before
      <3>4. CASE s = t
        <4>1. got'[s] = <<>> /\ from'[s] = Len(pushed) /\ Len(pushed) \in Nat
          BY <1>0, <1>1, <1>4, <3>1, <3>4, Lengths DEF SessionOK, StateOK
        <4>2. \A d \in lock : s \notin visited[d]
          BY <1>4, <3>1, <3>4 DEF SessionOK
        <4>3. \A d \in Calls : ~(pc'[d] = "send" /\ target'[d] = s)
          BY <1>1, <1>2, <1>4, <3>1, <3>4 DEF SessionOK
        <4>4. \A j \in Nat : j <= Len(pushed) => Told(s, j)'
          <5>1. Len(got'[s]) = 0
            BY <4>1
          <5> QED BY <1>1, <4>1, <5>1 DEF Told
        <4>5. \A d \in lock : Before(d) \in Nat /\ Before(d) <= Len(pushed)
          BY PushBounds DEF Bounds
        <4>6. ASSUME NEW d \in lock PROVE ~HasTold(d, s)' /\ Told(s, Before(d))'
          <5>1. ~HasTold(d, s)'
            BY <1>1, <4>2 DEF HasTold
          <5>2. Before(d)' = Before(d)
            BY <1>1 DEF Before
          <5>3. PICK b \in Nat : b = Before(d) /\ b <= Len(pushed)
            BY <4>5
          <5> QED BY <4>4, <5>1, <5>2, <5>3 DEF Told
        <4>7. Told(s, Len(pushed))'
          <5>1. Len(got'[s]) = 0
            BY <4>1
          <5> QED BY <1>1, <4>1, <5>1 DEF Told
        <4> QED BY <1>1, <3>4, <4>1, <4>3, <4>6, <4>7 DEF SessionOK
      <3> QED BY <3>3, <3>4
    <2> QED BY <1>1, <2>1, <2>2 DEF TellsOK
  <1> QED BY <1>3, <1>4

LEMMA TellsDeleted ==
  ASSUME Basics, TellsOK, NEW t \in Sessions, Deleted(t)
  PROVE  TellsOK'
  <1>0. StateOK /\ lock \subseteq Calls
    BY DEF Basics, LockOK
  <1>1. /\ subs' = subs \ {t} /\ due' = [d \in Calls |-> due[d] \ {t}]
        /\ status' = [status EXCEPT ![t] = "closed"]
        /\ UNCHANGED <<pushed, elems, lock, pc, visited, target, from, got>>
    BY DEF Deleted, Without, slice
  <1>2. \A d \in lock : PushOK(d)' /\ due'[d] \subseteq subs'
    BY <1>0, <1>1 DEF TellsOK, PushOK, Before
  <1>3. ASSUME NEW s \in Sessions, status'[s] = "open" PROVE SessionOK(s)'
    <2>1. s # t /\ SessionOK(s)
      BY <1>0, <1>1, <1>3 DEF TellsOK, StateOK
    <2>2. /\ \A j : Told(s, j)' <=> Told(s, j)
          /\ \A d \in Calls : HasTold(d, s)' <=> HasTold(d, s)
      BY <1>1 DEF Told, HasTold
    <2>3. \A d \in Calls : s \in (visited[d] \cup due[d])' <=> s \in visited[d] \cup due[d]
      BY <1>1, <2>1
    <2>4. s \in subs' <=> s \in subs
      BY <1>1, <2>1
    <2> QED BY <1>0, <1>1, <2>1, <2>2, <2>3, <2>4 DEF SessionOK, Before
  <1> QED BY <1>1, <1>2, <1>3 DEF TellsOK

LEMMA TellsStep == Basics /\ TellsOK /\ [Next]_vars => TellsOK'
  <1> SUFFICES ASSUME Basics, TellsOK, [Next]_vars PROVE TellsOK'
    OBVIOUS
  <1>0. StateOK
    BY DEF Basics
  <1>1. ASSUME NEW c \in Calls, UNCHANGED config,
               Call(c) \/ Pop(c) \/ List(c) \/ GetOrEcho(c) \/ Subscribe(c) \/ Answer(c)
                 \/ (Push(c) /\ config.size[c] = 0)
        PROVE  TellsOK'
    <2>1. /\ UNCHANGED <<pushed, subs, lock, elems, due, visited, target, from, got, status>>
          /\ pc[c] \in {"idle", "called", "answer"}
          /\ \E label \in {"called", "answer", "done", "subscribing"} :
               pc' = [pc EXCEPT ![c] = label]
      <3>1. CASE Call(c)
        BY <3>1 DEF Call, Goto, slice, range, session
      <3>2. CASE Pop(c) \/ List(c)
        BY <3>2 DEF Pop, List, Goto, range, session
      <3>3. CASE GetOrEcho(c) \/ Subscribe(c) \/ Answer(c)
        BY <3>3 DEF GetOrEcho, Subscribe, Answer, Goto, slice, range, session
      <3>4. CASE Push(c) /\ config.size[c] = 0
        BY <3>4 DEF Push, Goto, slice, range, session
      <3> QED BY <1>1, <3>1, <3>2, <3>3, <3>4
    <2>2. \A d \in Calls : pc'[d] = "send" <=> pc[d] = "send"
      BY <1>0, <2>1 DEF StateOK
    <2> QED BY <2>1, <2>2, TellsKept
  <1>2. ASSUME NEW s \in Sessions,
               Closes(s) \/ Delete(s) \/ Write(s) \/ SendLoopEnds(s)
        PROVE  TellsOK'
    <2>1. /\ UNCHANGED <<pushed, subs, lock, pc, elems, due, visited, target, from, got>>
          /\ \/ UNCHANGED status
             \/ \E l \in {"closing", "deleting"} : status' = [status EXCEPT ![s] = l]
      BY <1>2 DEF Closes, Delete, Write, SendLoopEnds, slice, range, session
    <2>2. \A q \in Sessions : status'[q] = "open" => status[q] = "open"
      BY <1>0, <2>1 DEF StateOK
    <2> QED BY <2>1, <2>2, TellsKept
  <1>3. CASE Race \/ \E c \in Calls : Marshaled(c)
    BY <1>3, TellsKept DEF Race, Marshaled, slice, range, session
  <1>4. CASE UNCHANGED vars
    BY <1>4, TellsKept DEF vars, slice, range, session
  <1>5. \A c \in Calls : config.size[c] = 0 \/ config.size[c] # 0
    OBVIOUS
  <1> QED BY <1>1, <1>2, <1>3, <1>4, <1>5, TellsPush, TellsRangeNext, TellsRangeEnd,
             TellsSend, TellsSubscribed, TellsDeleted DEF Next, Handle

LEMMA ToldIsNotified ==
  ASSUME StateOK, NEW s \in Sessions, NEW j \in 0 .. Len(pushed), Told(s, j)
  PROVE  \E i \in 1 .. from[s] + 1 : got[s] = SubSeq(pushed, i, j)
  <1>1. PICK n \in Nat, m \in Nat : n = Len(got[s]) /\ m = Len(pushed)
    BY Lengths
  <1>2. j \in 0 .. m /\ n <= j /\ j - n <= from[s] /\ from[s] \in Nat
    BY <1>1 DEF Told, StateOK
  <1> DEFINE i == j - n + 1
             u == SubSeq(pushed, i, j)
  <1>3. i \in 1 .. from[s] + 1 /\ i \in Int /\ i >= 1 /\ j - i + 1 = n
    BY <1>2
  <1>4. \A k \in i .. j : pushed[k] \in Elements
    BY <1>1, <1>2, <1>3, Lengths, ElementOfSeq
  <1>5. /\ u \in Seq(Elements)
        /\ Len(u) = IF i <= j THEN j - i + 1 ELSE 0
        /\ \A k \in 1 .. j - i + 1 : u[k] = pushed[i + k - 1]
    <2> HIDE DEF i
    <2> QED BY ONLY <1>1, <1>2, <1>3, <1>4, SubSeqProperties DEF u
  <1> HIDE DEF u
  <1>6. Len(u) = n
    BY <1>2, <1>5
  <1>7. ASSUME NEW k \in 1 .. n PROVE got[s][k] = u[k]
    <2>1. i + k - 1 = j - n + k /\ k \in 1 .. j - i + 1
      BY <1>2, <1>3
    <2> QED BY <1>1, <1>5, <2>1 DEF Told
  <1>8. got[s] = u
    BY <1>1, <1>5, <1>6, <1>7, Lengths, SeqEqual
  <1> QED BY <1>3, <1>8 DEF u

\* fifo_subscribe: whoever comes and goes during a push, a subscriber is told of
\* each element pushed since it subscribed, in order, without a gap, once.
THEOREM SubscribersAreTold == Spec => []Notified
  <1>1. Init => TellsOK
    BY DEF Init, TellsOK, SessionOK
  <1>2. Basics /\ TellsOK => Notified
    <2> SUFFICES ASSUME Basics, TellsOK, NEW s \in subs, status[s] = "open"
                 PROVE  \E i \in 1 .. from[s] + 1, j \in 0 .. Len(pushed) :
                          got[s] = SubSeq(pushed, i, j) /\ (lock = {} => j = Len(pushed))
      BY DEF Notified
    <2>1. StateOK /\ s \in Sessions /\ SessionOK(s) /\ Len(pushed) \in Nat
      BY Lengths DEF Basics, StateOK, TellsOK
    <2>2. PICK j \in 0 .. Len(pushed) : Told(s, j) /\ (lock = {} => j = Len(pushed))
      <3>1. CASE lock = {}
        BY <2>1, <3>1 DEF SessionOK
      <3>2. CASE lock # {}
        <4>1. PICK c \in lock : Bounds(c)
          BY <3>2, PushBounds
        <4>2. Before(c) \in 0 .. Len(pushed) /\ Before(c) + 1 \in 0 .. Len(pushed)
          BY <4>1 DEF Bounds
        <4>3. Told(s, Before(c)) \/ Told(s, Before(c) + 1)
          BY <2>1 DEF SessionOK
        <4> QED BY <3>2, <4>2, <4>3
      <3> QED BY <3>1, <3>2
    <2> QED BY <2>1, <2>2, ToldIsNotified
  <1> QED BY <1>1, <1>2, BasicsAlways, TellsStep, PTL DEF Spec
=============================================================================
