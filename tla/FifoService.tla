------------------------------ MODULE FifoService ------------------------------
(***************************************************************************)
(* The FIFO service of examples/fifo/main.go: handlers on a gateway that   *)
(* share a slice, a lock and a map of subscribed sessions.                 *)
(*                                                                         *)
(* Every call runs in a goroutine of its own, those of one session, too    *)
(* (NewGatewayHandler leaves SpawnGoroutine on); an HTTP/1 call has no     *)
(* session; the close handler runs in the goroutine of the session's       *)
(* ServeHTTP.  The lock guards the slice.  The map is written without it,  *)
(* and a list is marshaled without it.                                     *)
(***************************************************************************)
EXTENDS Integers, Sequences, FiniteSets, SequencesExt

CONSTANTS
  Calls,      \* calls of the service
  Sessions,   \* streaming sessions, by SessionID
  NoSession,  \* what an HTTP/1 call has for a session
  Configs,    \* who makes which call ("none" is no call)
  SendCap,    \* capacity of a session's sendChannel (100 in the code)
  Hole        \* no element: what a cleared place of the slice holds

Ops == {"none", "echo", "push", "pop", "list", "get", "subscribe"}
Config == [of   : [Calls -> Sessions \cup {NoSession}],
           op   : [Calls -> Ops],
           size : [Calls -> 0 .. 2]]  \* bound: objects given to a push

ASSUME FifoAssumption ==
  /\ SendCap \in Nat \ {0} /\ Configs \subseteq Config
  /\ NoSession \notin Sessions /\ Calls \cap Sessions = {}

VARIABLES
  config,      \* which of Configs this is; it never changes
  fifo,        \* the slice's elements
  capacity,    \* the length of the array under it
  subs,        \* the sessions in the map
  lock,        \* the push that holds the lock: {} or {c}
  pc,          \* how far a call is
  elems,       \* what a push has still to tell its subscribers
  due,         \* the sessions its range over the map must still visit
  visited,     \* those it has visited
  target,      \* the session it sends to
  listed,      \* listed[c]: the slice a list returned, as its array is now
  aliased,     \* the lists whose array is still that of the slice
  marshaling,  \* the lists that are being marshaled
  status,      \* a session is "open", "closing", "deleting" or "closed"
  sendLoop,    \* whether its sendLoop runs
  sendChannel, \* what it has still to write: answers and notifications
  writing,     \* the goroutines inside a write of the map
  raced,       \* the two that accessed the map or an array at once, one of them writing
  pushed,      \* history: all elements pushed, in order
  from,        \* history: how many when a session came into the map
  got,         \* history: elements put on a session's channel, in order
  was,         \* history: places and elements of the slice since a list
  cut,         \* history: the lists since which there was a pop
  late         \* history: subscribes that were to come when their session ended

slice   == <<fifo, capacity, listed, aliased, marshaling, pushed, was, cut>>
range   == <<elems, due, visited, target>>
session == <<status, sendLoop>>
vars    == <<config, slice, subs, lock, pc, range, session, sendChannel,
             writing, raced, from, got, late>>

SessionOf(c) == config.of[c]
Op(c) == config.op[c]
ElementsOf(c) == [i \in 1 .. config.size[c] |-> <<c, i>>]
Clients == {SessionOf(c) : c \in Calls} \ {NoSession}

Init ==
  /\ config \in Configs
  /\ fifo = <<>> /\ capacity = 0
  /\ subs = {} /\ lock = {}
  /\ pc = [c \in Calls |-> "idle"]
  /\ elems = [c \in Calls |-> <<>>]
  /\ due = [c \in Calls |-> {}] /\ visited = [c \in Calls |-> {}]
  /\ target = [c \in Calls |-> NoSession]
  /\ listed = [c \in Calls |-> <<>>] /\ aliased = {} /\ marshaling = {}
  /\ status = [s \in Sessions |-> IF s \in Clients THEN "open" ELSE "closed"]
  /\ sendLoop = [s \in Sessions |-> s \in Clients]
  /\ sendChannel = [s \in Sessions |-> <<>>]
  /\ writing = {} /\ raced = {}
  /\ pushed = <<>>
  /\ from = [s \in Sessions |-> 0] /\ got = [s \in Sessions |-> <<>>]
  /\ was = [c \in Calls |-> {}] /\ cut = {} /\ late = {}

Goto(c, label) == pc' = [pc EXCEPT ![c] = label]

-----------------------------------------------------------------------------
(* A call comes in.                                                        *)
(* Operators whose comment begins with "Mutant" are plausible bugs of the  *)
(* definition that follows; no specification uses them.                    *)

\* Also when the session is at its end: the goroutine of a message may come late, and
\* the recvLoop of an HTTP/2 session goes on while there is something to read.
\* (That of a websocket then ends the program: see StreamSession.)
Call(c) ==
  /\ pc[c] = "idle" /\ Op(c) # "none"
  /\ Goto(c, "called")
  /\ UNCHANGED <<slice, subs, lock, range, session, sendChannel, writing, raced, from, got, late>>

(* The handlers.  What runs under the lock is one step, but for a push.    *)

\* Growing a slice: twice the array, or what is needed if that is more.
Grow(needed) == IF needed > 2 * capacity THEN needed ELSE 2 * capacity

\* Mutant: the new objects come first.
Prepend(c) == ElementsOf(c) \o fifo

Appended(c) == fifo \o ElementsOf(c)

\* append goes on in the array if that is long enough, and writes these places of it.
InPlace(c) == Len(Appended(c)) <= capacity
Written(c) == {i \in 1 .. Len(Appended(c)) : i > Len(fifo) \/ Appended(c)[i] # fifo[i]}

\* What a list that shares the slice's array holds after that.
Overwritten(list, c) ==
  [i \in 1 .. Len(list) |-> IF i \in Written(c) THEN Appended(c)[i] ELSE list[i]]

\* The append writes what is being marshaled: an element, a type and a pointer, may
\* be read half written.
Collides(c, d) ==
  d \in aliased \cap marshaling /\ InPlace(c) /\ \E i \in Written(c) : i <= Len(listed[d])

Places(seq) == {<<i, seq[i]>> : i \in 1 .. Len(seq)}
Listing == {c \in Calls : Op(c) = "list" /\ pc[c] \in {"answer", "done"}}

\* append; then the first range begins.
Append_(c) ==
  /\ \A d \in Calls : ~Collides(c, d)
  /\ fifo' = Appended(c)
  /\ capacity' = IF InPlace(c) THEN capacity ELSE Grow(Len(Appended(c)))
  /\ IF InPlace(c)
     THEN listed' = [d \in Calls |-> IF d \in aliased THEN Overwritten(listed[d], c) ELSE listed[d]]
          /\ UNCHANGED aliased
     ELSE aliased' = {} /\ UNCHANGED listed
  /\ was' = [d \in Calls |-> IF d \in Listing THEN was[d] \cup Places(Appended(c)) ELSE was[d]]
  /\ pushed' = pushed \o ElementsOf(c)
  /\ elems' = [elems EXCEPT ![c] = ElementsOf(c)]
  /\ due' = [due EXCEPT ![c] = subs] /\ visited' = [visited EXCEPT ![c] = {}]
  /\ UNCHANGED <<marshaling, cut>>

\* Mutant: the lock is let go of before the subscribers are told.
LockBriefly(c) == UNCHANGED lock

LockFor(c) == lock' = {c}

\* Mutant: no deferred Unlock.
LeaveLocked(c) == UNCHANGED lock

Unlock(c) == lock' = lock \ {c}

Push(c) ==
  /\ pc[c] = "called" /\ Op(c) = "push" /\ lock = {}
  /\ IF config.size[c] = 0
     THEN Goto(c, "answer") /\ UNCHANGED <<slice, range, lock>>
     ELSE Append_(c) /\ LockFor(c) /\ Goto(c, "range") /\ UNCHANGED target
  /\ UNCHANGED <<subs, session, sendChannel, writing, raced, from, got, late>>

\* range subs: a session that comes into the map meanwhile may be visited or
\* not, one that is deleted is not.
RangeNext(c) ==
  /\ pc[c] = "range" /\ writing = {}
  /\ \E s \in subs \ visited[c] :
       /\ visited' = [visited EXCEPT ![c] = @ \cup {s}]
       /\ due' = [due EXCEPT ![c] = @ \ {s}]
       /\ target' = [target EXCEPT ![c] = s]
  /\ Goto(c, "send")
  /\ UNCHANGED <<slice, elems, subs, lock, session, sendChannel, writing, raced, from, got, late>>

\* The end of a range, and of the push if it was for the last element.
RangeEnd(c) ==
  /\ pc[c] = "range" /\ writing = {}
  /\ due[c] = {}
  /\ elems' = [elems EXCEPT ![c] = Tail(@)]
  /\ IF Len(elems[c]) > 1
     THEN /\ due' = [due EXCEPT ![c] = subs] /\ visited' = [visited EXCEPT ![c] = {}]
          /\ UNCHANGED <<pc, lock>>
     ELSE /\ Goto(c, "answer") /\ Unlock(c)
          /\ UNCHANGED <<due, visited>>
  /\ UNCHANGED <<slice, subs, target, session, sendChannel, writing, raced, from, got, late>>

HasRoom(s) == Len(sendChannel[s]) < SendCap

\* session.Send(ntf): blocks while the channel is full, with the lock held.
Send(c) ==
  /\ pc[c] = "send"
  /\ HasRoom(target[c])
  /\ sendChannel' = [sendChannel EXCEPT ![target[c]] =
                       Append(@, [kind |-> "notify", of |-> Head(elems[c])])]
  /\ got' = [got EXCEPT ![target[c]] = Append(@, Head(elems[c]))]
  /\ Goto(c, "range")
  /\ UNCHANGED <<slice, subs, lock, range, session, writing, raced, from, late>>

\* Mutant: the place that becomes free is cleared.
CutAndClear ==
  /\ fifo' = Front(fifo)
  /\ listed' = [d \in Calls |-> IF d \in aliased /\ Len(fifo) \in 1 .. Len(listed[d])
                                THEN [listed[d] EXCEPT ![Len(fifo)] = Hole] ELSE listed[d]]

\* The slice, not its array, gets shorter.
Cut == fifo' = Front(fifo) /\ UNCHANGED listed

Pop(c) ==
  /\ pc[c] = "called" /\ Op(c) = "pop" /\ lock = {}
  /\ IF fifo = <<>> THEN UNCHANGED <<fifo, listed, cut>> ELSE Cut /\ cut' = cut \cup Listing
  /\ Goto(c, "answer")
  /\ UNCHANGED <<capacity, aliased, marshaling, pushed, was, subs, lock, range, session, sendChannel, writing, raced, from, got, late>>

\* The slice itself is returned: it is marshaled when the answer is written.
List(c) ==
  /\ pc[c] = "called" /\ Op(c) = "list" /\ lock = {}
  /\ listed' = [listed EXCEPT ![c] = fifo]
  /\ aliased' = aliased \cup {c}
  /\ was' = [was EXCEPT ![c] = Places(fifo)]
  /\ Goto(c, "answer")
  /\ UNCHANGED <<fifo, capacity, marshaling, pushed, cut, subs, lock, range, session, sendChannel, writing, raced, from, got, late>>

\* fifo_get and, without the lock, fifo_echo: neither changes anything.
GetOrEcho(c) ==
  /\ pc[c] = "called"
  /\ Op(c) = "echo" \/ (Op(c) = "get" /\ lock = {})
  /\ Goto(c, "answer")
  /\ UNCHANGED <<slice, subs, lock, range, session, sendChannel, writing, raced, from, got, late>>

\* fifo_subscribe without a session is answered "no sesion".
Subscribe(c) ==
  /\ pc[c] = "called" /\ Op(c) = "subscribe" /\ writing = {}
  /\ IF SessionOf(c) = NoSession
     THEN Goto(c, "answer") /\ UNCHANGED writing
     ELSE Goto(c, "subscribing") /\ writing' = {c}
  /\ UNCHANGED <<slice, subs, lock, range, session, sendChannel, raced, from, got, late>>

Subscribed(c) ==
  /\ pc[c] = "subscribing"
  /\ subs' = subs \cup {SessionOf(c)}
  /\ from' = IF SessionOf(c) \in subs THEN from
             ELSE [from EXCEPT ![SessionOf(c)] = Len(pushed)]
  /\ writing' = writing \ {c}
  /\ Goto(c, "answer")
  /\ UNCHANGED <<slice, lock, range, session, sendChannel, raced, got, late>>

\* Of a message only a list takes a while to marshal.
Marshals(c) == marshaling' = marshaling \cup ({c} \cap Listing)

\* A result: onto the session's channel, or straight to the HTTP/1 client.
Answer(c) ==
  /\ pc[c] = "answer"
  /\ IF SessionOf(c) = NoSession
     THEN Marshals(c) /\ UNCHANGED sendChannel
     ELSE /\ HasRoom(SessionOf(c))
          /\ sendChannel' = [sendChannel EXCEPT ![SessionOf(c)] =
                               Append(@, [kind |-> "answer", of |-> c])]
          /\ UNCHANGED marshaling
  /\ Goto(c, "done")
  /\ UNCHANGED <<fifo, capacity, listed, aliased, pushed, was, cut, subs, lock, range, session, writing, raced, from, got, late>>

\* The marshaled list no longer changes.
Marshaled(c) ==
  /\ c \in marshaling
  /\ marshaling' = marshaling \ {c} /\ aliased' = aliased \ {c}
  /\ UNCHANGED <<fifo, capacity, listed, pushed, was, cut, subs, lock, pc, range, session, sendChannel,
                 writing, raced, from, got, late>>

Handle(c) == \/ Push(c) \/ RangeNext(c) \/ RangeEnd(c) \/ Send(c) \/ Pop(c)
             \/ List(c) \/ GetOrEcho(c) \/ Subscribe(c) \/ Subscribed(c) \/ Answer(c) \/ Marshaled(c)

-----------------------------------------------------------------------------
(* A session.                                                              *)

\* ServeHTTP comes back from wait, for whatever reason.
Closes(s) ==
  /\ status[s] = "open"
  /\ status' = [status EXCEPT ![s] = "closing"]
  /\ UNCHANGED <<slice, subs, lock, pc, range, sendLoop, sendChannel, writing, raced, from, got, late>>

ToSubscribe(s) ==
  {c \in Calls : SessionOf(c) = s /\ Op(c) = "subscribe" /\ pc[c] \in {"idle", "called", "subscribing"}}

\* The close handler, which does not take the lock either.
Delete(s) ==
  /\ status[s] = "closing" /\ writing = {}
  /\ status' = [status EXCEPT ![s] = "deleting"]
  /\ writing' = {s} /\ late' = late \cup ToSubscribe(s)
  /\ UNCHANGED <<slice, subs, lock, pc, range, sendLoop, sendChannel, raced, from, got>>

\* Mutant: the close handler finds nothing to delete.
NothingFor(s) == subs

Without(s) == subs \ {s}

Deleted(s) ==
  /\ status[s] = "deleting"
  /\ subs' = Without(s)
  /\ due' = [c \in Calls |-> due[c] \ {s}]
  /\ writing' = writing \ {s}
  /\ status' = [status EXCEPT ![s] = "closed"]
  /\ UNCHANGED <<slice, lock, pc, elems, visited, target, sendLoop, sendChannel, raced, from, got, late>>

Marshaling(s) == \E c \in marshaling : SessionOf(c) = s

\* sendLoop takes the next message and marshals it before it writes it.
Write(s) ==
  /\ sendLoop[s] /\ ~Marshaling(s) /\ sendChannel[s] # <<>>
  /\ LET m == Head(sendChannel[s]) IN
       IF m.kind = "answer" THEN Marshals(m.of) ELSE UNCHANGED marshaling
  /\ sendChannel' = [sendChannel EXCEPT ![s] = Tail(@)]
  /\ UNCHANGED <<fifo, capacity, listed, aliased, pushed, was, cut, subs, lock, pc, range, session, writing, raced, from, got, late>>

\* A write fails or never returns (there is no deadline), or the session's context
\* is done.
SendLoopEnds(s) ==
  /\ sendLoop[s] /\ ~Marshaling(s)
  /\ sendLoop' = [sendLoop EXCEPT ![s] = FALSE]
  /\ UNCHANGED <<slice, subs, lock, pc, range, status, sendChannel, writing, raced, from, got, late>>

\* p writes the map, and q is about to access it.
MeetInMap(p, q) ==
  /\ p \in writing
  /\ \/ q \in Calls /\ pc[q] = "range"
     \/ q \in Calls /\ pc[q] = "called" /\ Op(q) = "subscribe" /\ SessionOf(q) # NoSession
     \/ q \in Sessions /\ status[q] = "closing"

\* p, a push, is about to write to an array, and q is being marshaled from it.
MeetInArray(p, q) ==
  /\ p \in Calls /\ pc[p] = "called" /\ Op(p) = "push" /\ lock = {}
  /\ Collides(p, q)

\* Of the map the runtime ends the program when it notices; when it does not, the
\* map, or what was read, may be anything: nothing is claimed of what comes after.
Race ==
  \E p, q \in Calls \cup Sessions :
    /\ MeetInMap(p, q) \/ MeetInArray(p, q)
    /\ raced' = {p, q}
    /\ UNCHANGED <<slice, subs, lock, pc, range, session, sendChannel, writing, from, got, late>>

Next ==
  /\ raced = {}
  /\ \/ \E c \in Calls : Call(c) \/ Handle(c)
     \/ \E s \in Sessions : Closes(s) \/ Delete(s) \/ Deleted(s) \/ Write(s) \/ SendLoopEnds(s)
     \/ Race
  /\ UNCHANGED config

(* Goroutines that can run do, and mutexes are handed on.  Clients need    *)
(* not call, sessions need not end, and a loop may end at any time.        *)
Running(A) == raced = {} /\ A /\ UNCHANGED config
Fairness ==
  /\ \A c \in Calls : WF_vars(Running(Handle(c)))
  /\ \A s \in Sessions : WF_vars(Running(Delete(s) \/ Deleted(s))) /\ WF_vars(Running(Write(s)))

Spec == Init /\ [][Next]_vars
FairSpec == Spec /\ Fairness

-----------------------------------------------------------------------------
(* Properties.                                                             *)

\* fifo_subscription: a subscriber is told of all elements pushed since it
\* subscribed, in the order they are in the slice, with no gap and none twice
\* (main.go:46-54), though subscribers and calls come and go during a push.
Notified ==
  \A s \in subs : status[s] = "open" =>
    \E i \in 1 .. from[s] + 1, j \in 0 .. Len(pushed) :
      got[s] = SubSeq(pushed, i, j) /\ (lock = {} => j = Len(pushed))

\* fifo_list returns a slice whose array pops and pushes go on using
\* (main.go:75): what is marshaled in the end need never have been the list, but
\* every element in it was at its place at some time since the call.
ListedElsewhen ==
  \A c \in Listing : Places(listed[c]) \subseteq was[c]

\* A push writes into a list that is just being marshaled, without the lock, only
\* if there was a pop since the list was taken (main.go:45, 66 and 75): as long as
\* the slice only grows, append leaves the lists it shares its array with alone.
RaceNeedsPop == raced \cap Listing \subseteq cut

\* A session nobody drains: its channel stays full.
Stuck(s) == ~sendLoop[s] /\ Len(sendChannel[s]) = SendCap
StuckIn(c) == \/ pc[c] = "send" /\ Stuck(target[c])
              \/ pc[c] = "answer" /\ SessionOf(c) \in Sessions /\ Stuck(SessionOf(c))
NeedsLock(c) == pc[c] = "called" /\ Op(c) \in {"push", "pop", "list", "get"}

\* Every call is answered, unless its own session is stuck, or it is or waits
\* for a push that is stuck on a subscriber, with the lock held (main.go:52).
CallEnds ==
  \A c \in Calls : (pc[c] = "called") ~>
    \/ (pc[c] = "done" /\ c \notin marshaling) \/ raced # {}
    \/ StuckIn(c)
    \/ NeedsLock(c) /\ \E d \in lock : StuckIn(d)

\* The map keeps a session after its close handler only if one of its subscribes was
\* still to come when the handler was called (main.go:98 and 104, ws_server.go:66
\* and 111): whoever has subscribed before is taken out, by whatever goroutine.
CloseUnsubscribes ==
  \A s \in subs : status[s] = "closed" =>
    \E c \in late : SessionOf(c) = s /\ pc[c] \in {"answer", "done"}
=============================================================================
