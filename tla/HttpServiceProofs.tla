-------------------------- MODULE HttpServiceProofs --------------------------
(***************************************************************************)
(* Proofs about HttpService, for any requests, tokens, configurations,     *)
(* trees of actors and sizes of the cache.                                 *)
(***************************************************************************)
EXTENDS HttpService, SequenceTheorems, TLAPS

-----------------------------------------------------------------------------
(* The inductive invariant.                                                *)

Labels == {"idle", "others", "get", "check", "add", "route", "session",
           "callback", "done"}

\* What is known of a function whose values do not matter.
OnRequests(f) == f = [r \in Requests |-> f[r]]

StateOK ==
  /\ config \in AuthConfigs /\ now \in Nat
  /\ pc \in [Requests -> Labels] /\ arrived \in [Requests -> Nat]
  /\ fromCache \in [Requests -> BOOLEAN]
  /\ OnRequests(http) /\ OnRequests(decision) /\ OnRequests(outcome)
  /\ OnRequests(response) /\ OnRequests(returned)
  /\ \A r \in Requests : pc[r] # "idle" => http[r] \in Inputs

SignedTokens == {t \in Tokens : Claims[t].signed}

\* Nothing gets into the cache unsigned, twice, or beyond its size.
CacheOK ==
  /\ jwtCache \in Seq(Tokens) /\ Len(jwtCache) <= CacheCap
  /\ \A i \in 1 .. Len(jwtCache) : jwtCache[i] \in SignedTokens
  /\ \A i, j \in 1 .. Len(jwtCache) : i # j => jwtCache[i] # jwtCache[j]

\* What EntitledOnly says of one request.
Entitled(r) ==
  \/ ~config.on \/ OtherSchemes(r)
  \/ /\ config.jwt /\ http[r].scheme = "Bearer"
     /\ http[r].token \in SignedTokens /\ Claims[http[r].token].exp >= arrived[r]

\* How far jwtAuth has come with a request's token.
TokenOK(r) ==
  /\ arrived[r] <= now
  /\ pc[r] = "get" => config.jwt /\ http[r].scheme \in {"Bearer", "bare Bearer"}
  /\ pc[r] \in {"check", "add"} => /\ config.jwt /\ http[r].scheme = "Bearer"
                                   /\ http[r].token \in SignedTokens
  /\ pc[r] = "add" => Claims[http[r].token].exp >= arrived[r]
  /\ pc[r] \in {"route", "session", "callback"} => Entitled(r)
  /\ decision[r] # NoDecision => pc[r] \in {"callback", "done"} /\ Entitled(r)

\* The responses given without asking a callback.
Refusals == {Response("401", "none"), Response("400", "none"),
             Response("405", "none"), Response("500", "none"),
             Response("200", "invalid schema"),
             Response("200", "method not found"), Response("200", "none")}

\* The response is what H1Handler makes of what has happened, and what H1Client
\* returns is what it makes of the response.
ResponseOK(r) ==
  /\ pc[r] # "done" => response[r] = NoResponse /\ outcome[r] = NoOutcome
  /\ outcome[r] = NoOutcome =>
       \/ response[r] \in Refusals \cup {NoResponse}
       \/ /\ response[r] = Aborted
          /\ config.jwt /\ http[r].scheme = "bare Bearer"
  /\ outcome[r] # NoOutcome =>
       /\ outcome[r] \in Outcome
       /\ response[r] \in IF PanicsThrough(decision[r], outcome[r]) THEN {Aborted}
                          ELSE H1Response(wrapResult(outcome[r].what, http[r].body),
                                          http[r].body)
  /\ \/ returned[r] \in {"waiting", "timeout", "failed"}
     \/ /\ ByClient(r) /\ response[r] # NoResponse
        /\ returned[r] = Returns(r, response[r])

Inv == /\ StateOK /\ CacheOK
       /\ \A r \in Requests : TokenOK(r) /\ ResponseOK(r)

-----------------------------------------------------------------------------
(* The cache.                                                              *)

Distinct(s) == \A i, j \in 1 .. Len(s) : i # j => s[i] # s[j]

LEMMA OthersFacts ==
  ASSUME NEW s \in Seq(Tokens), Distinct(s), NEW t \in Tokens
  PROVE  /\ Others(s, t) \in Seq(Tokens) /\ Len(Others(s, t)) <= Len(s)
         /\ t \in ToSet(s) => Len(Others(s, t)) = Len(s) - 1
         /\ \A i \in 1 .. Len(Others(s, t)) :
              Others(s, t)[i] # t /\ \E j \in 1 .. Len(s) : Others(s, t)[i] = s[j]
         /\ Distinct(Others(s, t))
  <1>0. Len(s) \in Nat /\ DOMAIN s = 1 .. Len(s)
    OBVIOUS
  <1>1. CASE t \notin ToSet(s)
    <2>1. Others(s, t) = s
      BY <1>1 DEF Others
    <2>2. \A i \in 1 .. Len(s) : s[i] # t
      BY <1>0, <1>1 DEF ToSet
    <2> QED BY <1>1, <2>1, <2>2
  <1>2. CASE t \in ToSet(s)
    <2> DEFINE k == CHOOSE i \in DOMAIN s : s[i] = t
               a == SubSeq(s, 1, k - 1)
               b == SubSeq(s, k + 1, Len(s))
               At(i) == IF i < k THEN i ELSE i + 1
    <2>1. Others(s, t) = a \o b
      BY <1>2 DEF Others, RemoveAt
    <2>2. k \in 1 .. Len(s) /\ s[k] = t
      BY <1>0, <1>2 DEF ToSet
    <2> HIDE DEF k
    <2>3. /\ a \in Seq(Tokens) /\ Len(a) = k - 1
          /\ \A i \in 1 .. k - 1 : a[i] = s[i]
      BY <1>0, <2>2
    <2>4. /\ b \in Seq(Tokens) /\ Len(b) = Len(s) - k
          /\ \A i \in 1 .. Len(s) - k : b[i] = s[k + i]
      <3>0. /\ k + 1 \in Int /\ Len(s) \in Int
            /\ \A i \in k + 1 .. Len(s) : s[i] \in Tokens
        BY <1>0, <2>2
      <3>1. /\ Len(b) = IF k + 1 <= Len(s) THEN Len(s) - (k + 1) + 1 ELSE 0
            /\ \A i \in 1 .. Len(s) - (k + 1) + 1 : b[i] = s[(k + 1) + i - 1]
        BY <3>0, SubSeqProperties
      <3>2. b \in Seq(Tokens)
        BY <1>0, <2>2
      <3>3. Len(b) = Len(s) - k
        <4> HIDE DEF b
        <4>1. CASE k + 1 <= Len(s)
          BY <1>0, <2>2, <3>1, <4>1
        <4>2. CASE k = Len(s)
          BY <1>0, <2>2, <3>1, <4>2
        <4>3. k + 1 <= Len(s) \/ k = Len(s)
          <5>1. PICK n \in Nat : n = Len(s)
            BY <1>0
          <5>2. k \in 1 .. n
            BY <2>2, <5>1
          <5>3. k + 1 <= n \/ k = n
            BY <5>1, <5>2
          <5> QED BY <5>1, <5>3
        <4> QED BY <4>1, <4>2, <4>3
      <3>4. \A i \in 1 .. Len(s) - k : b[i] = s[k + i]
        <4> SUFFICES ASSUME NEW i \in 1 .. Len(s) - k PROVE b[i] = s[k + i]
          OBVIOUS
        <4>1. i \in 1 .. Len(s) - (k + 1) + 1 /\ (k + 1) + i - 1 = k + i
          BY <1>0, <2>2
        <4> HIDE DEF b
        <4> QED BY <3>1, <4>1
      <3> QED BY <3>2, <3>3, <3>4
    <2> HIDE DEF a, b
    <2>5. /\ a \o b \in Seq(Tokens) /\ Len(a \o b) = Len(a) + Len(b)
          /\ \A i \in 1 .. Len(a) + Len(b) :
               (a \o b)[i] = IF i <= Len(a) THEN a[i] ELSE b[i - Len(a)]
      BY <2>3, <2>4, ConcatProperties
    <2>6. Len(a \o b) = Len(s) - 1
      BY <1>0, <2>2, <2>3, <2>4, <2>5
    <2>7. \A i \in 1 .. Len(s) - 1 :
            /\ At(i) \in 1 .. Len(s) /\ At(i) # k /\ (a \o b)[i] = s[At(i)]
      <3> SUFFICES ASSUME NEW i \in 1 .. Len(s) - 1
                   PROVE  /\ At(i) \in 1 .. Len(s) /\ At(i) # k
                          /\ (a \o b)[i] = s[At(i)]
        OBVIOUS
      <3>1. i \in 1 .. Len(a) + Len(b)
        BY <1>0, <2>2, <2>3, <2>4
      <3>2. CASE i < k
        <4>1. i <= Len(a) /\ i \in 1 .. k - 1
          BY <1>0, <2>2, <2>3, <3>2
        <4> QED BY <1>0, <2>2, <2>3, <2>5, <3>1, <3>2, <4>1
      <3>3. CASE ~(i < k)
        <4>1. ~(i <= Len(a)) /\ i - Len(a) \in 1 .. Len(s) - k /\ k + (i - Len(a)) = i + 1
          BY <1>0, <2>2, <2>3, <3>3
        <4>2. (a \o b)[i] = b[i - Len(a)] /\ b[i - Len(a)] = s[k + (i - Len(a))]
          BY <2>4, <2>5, <3>1, <4>1
        <4> QED BY <1>0, <2>2, <3>3, <4>1, <4>2
      <3> QED BY <3>2, <3>3
    <2>8. \A i, j \in 1 .. Len(s) - 1 : i # j => At(i) # At(j)
      BY <1>0, <2>2
    <2> HIDE DEF At
    <2>9. \A i \in 1 .. Len(s) - 1 : (a \o b)[i] # t
      BY <2>2, <2>7 DEF Distinct
    <2>10. \A i, j \in 1 .. Len(s) - 1 : i # j => (a \o b)[i] # (a \o b)[j]
      BY <2>7, <2>8 DEF Distinct
    <2>11. PICK o : o = a \o b
      OBVIOUS
    <2>12. /\ o \in Seq(Tokens) /\ Len(o) = Len(s) - 1 /\ o = Others(s, t)
           /\ \A i \in 1 .. Len(s) - 1 :
                o[i] # t /\ \E j \in 1 .. Len(s) : o[i] = s[j]
           /\ \A i, j \in 1 .. Len(s) - 1 : i # j => o[i] # o[j]
      BY <2>1, <2>5, <2>6, <2>7, <2>9, <2>10, <2>11
    <2>13. Distinct(o) /\ Len(o) <= Len(s)
      BY <1>0, <2>12 DEF Distinct
    <2> QED BY <2>12, <2>13
  <1> QED BY <1>1, <1>2

LEMMA InFront ==
  ASSUME NEW s \in Seq(Tokens), Distinct(s), NEW t \in Tokens,
         \A i \in 1 .. Len(s) : s[i] # t
  PROVE  /\ <<t>> \o s \in Seq(Tokens) /\ Len(<<t>> \o s) = Len(s) + 1
         /\ \A i \in 1 .. Len(s) + 1 :
              (<<t>> \o s)[i] = t \/ \E j \in 1 .. Len(s) : (<<t>> \o s)[i] = s[j]
         /\ Distinct(<<t>> \o s)
  <1>1. Len(s) \in Nat
    OBVIOUS
  <1>2. /\ <<t>> \o s \in Seq(Tokens) /\ Len(<<t>> \o s) = 1 + Len(s)
        /\ \A i \in 1 .. 1 + Len(s) :
             (<<t>> \o s)[i] = IF i <= 1 THEN <<t>>[i] ELSE s[i - 1]
    <2>1. <<t>> \in Seq(Tokens) /\ Len(<<t>>) = 1
      OBVIOUS
    <2>2. PICK u \in Seq(Tokens) : u = <<t>>
      BY <2>1
    <2>3. /\ u \o s \in Seq(Tokens) /\ Len(u \o s) = Len(u) + Len(s)
          /\ \A i \in 1 .. Len(u) + Len(s) :
               (u \o s)[i] = IF i <= Len(u) THEN u[i] ELSE s[i - Len(u)]
      BY ConcatProperties
    <2>4. Len(u) = 1
      BY <2>1, <2>2
    <2>5. /\ u \o s \in Seq(Tokens) /\ Len(u \o s) = 1 + Len(s)
          /\ \A i \in 1 .. 1 + Len(s) : (u \o s)[i] = IF i <= 1 THEN u[i] ELSE s[i - 1]
      BY <2>3, <2>4
    <2> QED BY <2>2, <2>5
  <1>3. PICK u : u = <<t>> \o s
    OBVIOUS
  <1>4. /\ u \in Seq(Tokens) /\ Len(u) = Len(s) + 1 /\ u[1] = t
        /\ \A i \in 2 .. Len(s) + 1 : i - 1 \in 1 .. Len(s) /\ u[i] = s[i - 1]
    BY <1>1, <1>2, <1>3
  <1>5. \A i \in 1 .. Len(s) + 1 : i = 1 \/ i \in 2 .. Len(s) + 1
    BY <1>1
  <1>6. \A i, j \in 1 .. Len(s) + 1 : i # j => u[i] # u[j]
    <2> SUFFICES ASSUME NEW i \in 1 .. Len(s) + 1, NEW j \in 1 .. Len(s) + 1, i # j
                 PROVE  u[i] # u[j]
      OBVIOUS
    <2>1. CASE i = 1 \/ j = 1
      BY <1>4, <1>5, <2>1
    <2>2. CASE i # 1 /\ j # 1
      <3>1. i - 1 \in 1 .. Len(s) /\ j - 1 \in 1 .. Len(s) /\ i - 1 # j - 1
        BY <1>1, <2>2
      <3>2. s[i - 1] # s[j - 1]
        BY <3>1 DEF Distinct
      <3> QED BY <1>4, <1>5, <2>2, <3>2
    <2> QED BY <2>1, <2>2
  <1>7. Distinct(u)
    BY <1>4, <1>6 DEF Distinct
  <1>8. \A i \in 1 .. Len(s) + 1 : u[i] = t \/ \E j \in 1 .. Len(s) : u[i] = s[j]
    BY <1>4, <1>5
  <1> QED BY <1>3, <1>4, <1>7, <1>8

\* Whatever is cached is a signed token, whether it is touched, added, or gone.
LEMMA TouchKeeps ==
  ASSUME CacheOK, NEW t \in ToSet(jwtCache), LruTouch(t)
  PROVE  CacheOK'
  <1> DEFINE o == Others(jwtCache, t)
  <1>1. t \in SignedTokens /\ Distinct(jwtCache) /\ jwtCache \in Seq(Tokens) /\ t \in Tokens
    BY DEF CacheOK, ToSet, Distinct
  <1>2. /\ o \in Seq(Tokens) /\ Len(o) = Len(jwtCache) - 1 /\ Distinct(o)
        /\ \A i \in 1 .. Len(o) : o[i] # t /\ \E j \in 1 .. Len(jwtCache) : o[i] = jwtCache[j]
    BY <1>1, OthersFacts
  <1>3. jwtCache' = <<t>> \o o
    BY DEF LruTouch
  <1> HIDE DEF o
  <1>4. /\ jwtCache' \in Seq(Tokens) /\ Len(jwtCache') = Len(o) + 1
        /\ \A i \in 1 .. Len(o) + 1 :
             jwtCache'[i] = t \/ \E j \in 1 .. Len(o) : jwtCache'[i] = o[j]
        /\ Distinct(jwtCache')
    BY <1>1, <1>2, <1>3, InFront
  <1>5. Len(jwtCache') <= CacheCap
    BY <1>1, <1>2, <1>4, HttpAssumption DEF CacheOK
  <1>6. \A i \in 1 .. Len(jwtCache') : jwtCache'[i] \in SignedTokens
    <2>1. \A j \in 1 .. Len(jwtCache) : jwtCache[j] \in SignedTokens
      BY DEF CacheOK
    <2>2. \A i \in 1 .. Len(o) : o[i] \in SignedTokens
      BY ONLY <1>2, <2>1
    <2> QED BY ONLY <1>1, <1>4, <2>2
  <1> QED BY <1>4, <1>5, <1>6 DEF CacheOK, Distinct

LEMMA AddKeeps ==
  ASSUME CacheOK, NEW t \in Tokens, t \in SignedTokens, LruAdd(t)
  PROVE  CacheOK'
  <1> DEFINE o == Others(jwtCache, t)
             n == IF Len(o) < CacheCap THEN Len(o) + 1 ELSE CacheCap
  <1>1. Distinct(jwtCache) /\ jwtCache \in Seq(Tokens)
    BY DEF CacheOK, Distinct
  <1>2. /\ o \in Seq(Tokens) /\ Distinct(o)
        /\ \A i \in 1 .. Len(o) : o[i] # t /\ \E j \in 1 .. Len(jwtCache) : o[i] = jwtCache[j]
    BY <1>1, OthersFacts
  <1>3. jwtCache' = SubSeq(<<t>> \o o, 1, n)
    BY DEF LruAdd
  <1> HIDE DEF o
  <1>4. PICK u : u = <<t>> \o o
    OBVIOUS
  <1>5. /\ u \in Seq(Tokens) /\ Len(u) = Len(o) + 1
        /\ \A i \in 1 .. Len(o) + 1 : u[i] = t \/ \E j \in 1 .. Len(o) : u[i] = o[j]
        /\ Distinct(u)
    BY <1>2, <1>4, InFront
  <1>6. n \in Nat /\ n >= 1 /\ n <= CacheCap /\ n <= Len(u)
    BY <1>2, <1>5, HttpAssumption
  <1> HIDE DEF n
  <1>7. /\ jwtCache' \in Seq(Tokens) /\ Len(jwtCache') = n
        /\ \A i \in 1 .. n : jwtCache'[i] = u[i]
    BY <1>3, <1>4, <1>5, <1>6
  <1>8. \A i \in 1 .. n : i \in 1 .. Len(u)
    BY <1>5, <1>6
  <1>9. \A i \in 1 .. Len(jwtCache') : jwtCache'[i] \in SignedTokens
    <2>1. \A i \in 1 .. Len(u) : u[i] \in SignedTokens
      BY <1>2, <1>5 DEF CacheOK
    <2> QED BY <1>7, <1>8, <2>1
  <1>10. \A i, j \in 1 .. Len(jwtCache') : i # j => jwtCache'[i] # jwtCache'[j]
    BY <1>5, <1>7, <1>8 DEF Distinct
  <1> QED BY <1>6, <1>7, <1>9, <1>10 DEF CacheOK

LEMMA RemoveKeeps ==
  ASSUME CacheOK, NEW t \in Tokens, jwtCache' = Others(jwtCache, t)
  PROVE  CacheOK'
  <1>1. Distinct(jwtCache) /\ jwtCache \in Seq(Tokens)
    BY DEF CacheOK, Distinct
  <1>2. /\ jwtCache' \in Seq(Tokens) /\ Len(jwtCache') <= Len(jwtCache)
        /\ \A i \in 1 .. Len(jwtCache') :
             \E j \in 1 .. Len(jwtCache) : jwtCache'[i] = jwtCache[j]
        /\ Distinct(jwtCache')
    <2> DEFINE o == Others(jwtCache, t)
    <2>1. /\ o \in Seq(Tokens) /\ Len(o) <= Len(jwtCache) /\ Distinct(o)
          /\ \A i \in 1 .. Len(o) : o[i] # t /\ \E j \in 1 .. Len(jwtCache) : o[i] = jwtCache[j]
      BY <1>1, OthersFacts
    <2>2. jwtCache' = o
      OBVIOUS
    <2> HIDE DEF o
    <2> QED BY <2>1, <2>2
  <1>3. Len(jwtCache') <= CacheCap
    BY <1>1, <1>2, HttpAssumption DEF CacheOK
  <1> QED BY <1>2, <1>3 DEF CacheOK, Distinct

-----------------------------------------------------------------------------
(* A step concerns one request.                                            *)

\* Nothing of request q changes.
Same(q) ==
  /\ http'[q] = http[q] /\ pc'[q] = pc[q] /\ arrived'[q] = arrived[q]
  /\ decision'[q] = decision[q] /\ outcome'[q] = outcome[q]
  /\ response'[q] = response[q] /\ returned'[q] = returned[q]

LEMMA Frame ==
  ASSUME StateOK, NEW q \in Requests, TokenOK(q), ResponseOK(q), Same(q),
         config' = config, now' \in Nat, now <= now'
  PROVE  TokenOK(q)' /\ ResponseOK(q)'
  <1>1. TokenOK(q)'
    <2>1. arrived'[q] <= now'
      <3>1. arrived[q] \in Nat /\ now \in Nat
        BY DEF StateOK
      <3>2. arrived[q] <= now /\ arrived'[q] = arrived[q]
        BY DEF TokenOK, Same
      <3> QED BY <3>1, <3>2
    <2>2. Entitled(q) => Entitled(q)'
      BY DEF Entitled, OtherSchemes, Same, SignedTokens
    <2> QED BY <2>1, <2>2 DEF TokenOK, Same, SignedTokens, NoDecision
  <1>2. ResponseOK(q)'
    BY DEF ResponseOK, Same, ByClient, Streams, Returns
  <1> QED BY <1>1, <1>2

LEMMA Update ==
  ASSUME NEW f, OnRequests(f), NEW r \in Requests, NEW x
  PROVE  LET g == [f EXCEPT ![r] = x] IN
         OnRequests(g) /\ g[r] = x /\ \A q \in Requests : q # r => g[q] = f[q]
  BY DEF OnRequests

\* It is enough to look at the request whose step it is.
LEMMA OneRequest ==
  ASSUME Inv, NEW r \in Requests, StateOK', CacheOK', config' = config, now' = now,
         \A q \in Requests : q # r => Same(q), TokenOK(r)', ResponseOK(r)'
  PROVE  Inv'
  <1>1. now' \in Nat /\ now <= now'
    BY DEF Inv, StateOK
  <1>2. \A q \in Requests : q # r => TokenOK(q)' /\ ResponseOK(q)'
    BY <1>1, Frame DEF Inv
  <1>3. \A q \in Requests : TokenOK(q)' /\ ResponseOK(q)'
    BY <1>2
  <1> QED BY <1>3 DEF Inv

LEMMA ArriveStep ==
  ASSUME Inv, NEW r \in Requests, Arrive(r)
  PROVE  Inv'
  <1>1. PICK h \in Inputs :
          /\ http' = [http EXCEPT ![r] = h]
          /\ \E l \in {"route", "get", "others"} :
               /\ Goto(r, l)
               /\ l = "route" => ~config.on
               /\ l = "get" => config.jwt /\ h.scheme \in {"Bearer", "bare Bearer"}
    BY DEF Arrive
  <1>2. /\ pc[r] = "idle" /\ arrived' = [arrived EXCEPT ![r] = now]
        /\ UNCHANGED <<config, now, jwtCache, fromCache, decision, outcome, response, returned>>
    BY DEF Arrive, auth, work
  <1>3. StateOK /\ TokenOK(r) /\ ResponseOK(r)
    BY DEF Inv
  <1>4. PICK l \in {"route", "get", "others"} :
          /\ pc' = [pc EXCEPT ![r] = l]
          /\ l = "route" => ~config.on
          /\ l = "get" => config.jwt /\ h.scheme \in {"Bearer", "bare Bearer"}
    BY <1>1 DEF Goto
  <1>5. /\ http'[r] = h /\ pc'[r] = l /\ arrived'[r] = now
        /\ \A q \in Requests : q # r => Same(q)
    BY <1>1, <1>2, <1>3, <1>4 DEF StateOK, OnRequests, Same
  <1>6. StateOK'
    BY <1>1, <1>2, <1>3, <1>4 DEF StateOK, OnRequests, Labels
  <1>7. CacheOK'
    BY <1>2 DEF Inv, CacheOK
  <1>8. TokenOK(r)'
    <2>1. decision'[r] = NoDecision
      BY <1>2, <1>3 DEF TokenOK
    <2>2. now \in Nat
      BY <1>3 DEF StateOK
    <2>3. arrived'[r] <= now'
      BY <1>2, <1>5, <2>2
    <2>4. l = "route" => Entitled(r)'
      BY <1>2, <1>4 DEF Entitled
    <2> QED BY <1>2, <1>4, <1>5, <2>1, <2>3, <2>4 DEF TokenOK, NoDecision
  <1>9. ResponseOK(r)'
    <2>1. ~(response[r] # NoResponse)
      BY <1>2, <1>3 DEF ResponseOK
    <2> QED BY <1>2, <1>3, <1>4, <1>5, <2>1 DEF ResponseOK
  <1> QED BY <1>2, <1>5, <1>6, <1>7, <1>8, <1>9, OneRequest

\* What TryOthers does, whether the response changes or not.
LEMMA TryOthersCases ==
  ASSUME NEW r \in Requests, TryOthers(r)
  PROVE  \/ /\ pc' = [pc EXCEPT ![r] = "route"] /\ response' = response
            /\ OtherSchemes(r)
         \/ /\ pc' = [pc EXCEPT ![r] = "done"]
            /\ response' = [response EXCEPT ![r] = Response("401", "none")]
  BY DEF TryOthers, Respond, Goto

\* A step of AuthHandler for r: it goes on, is refused, or panics.
LEMMA AuthStep ==
  ASSUME Inv, NEW r \in Requests, pc[r] \in {"others", "get", "check", "add"},
         UNCHANGED <<config, now, http, arrived, decision, outcome, returned>>,
         fromCache' \in [Requests -> BOOLEAN], CacheOK',
         NEW l \in {"check", "add", "route", "done"}, pc' = [pc EXCEPT ![r] = l],
         NEW resp, response' = [response EXCEPT ![r] = resp],
         l # "done" => resp = NoResponse,
         \/ resp \in Refusals \cup {NoResponse}
         \/ resp = Aborted /\ config.jwt /\ http[r].scheme = "bare Bearer",
         l \in {"check", "add"} => /\ config.jwt /\ http[r].scheme = "Bearer"
                                  /\ http[r].token \in SignedTokens,
         l = "add" => Claims[http[r].token].exp >= arrived[r],
         l = "route" => Entitled(r)
  PROVE  Inv'
  <1>1. StateOK /\ TokenOK(r) /\ ResponseOK(r)
    BY DEF Inv
  <1>2. /\ pc'[r] = l /\ response'[r] = resp
        /\ \A q \in Requests : q # r => Same(q)
    BY <1>1 DEF StateOK, OnRequests, Same
  <1>3. StateOK'
    BY <1>1 DEF StateOK, OnRequests, Labels
  <1>4. TokenOK(r)'
    <2>1. decision'[r] = NoDecision
      BY <1>1 DEF TokenOK
    <2>2. arrived'[r] <= now'
      BY <1>1 DEF TokenOK
    <2>3. pc'[r] \in {"route", "session", "callback"} => Entitled(r)'
      BY <1>2 DEF Entitled, OtherSchemes
    <2>4. pc'[r] \in {"check", "add"} => http[r].token \in SignedTokens
      BY <1>2
    <2> QED BY <1>2, <2>1, <2>2, <2>3, <2>4 DEF TokenOK, NoDecision, SignedTokens
  <1>5. ResponseOK(r)'
    <2>1. outcome[r] = NoOutcome /\ response[r] = NoResponse
          /\ returned[r] \in {"waiting", "timeout", "failed"}
      BY <1>1 DEF ResponseOK
    <2> QED BY <1>2, <2>1 DEF ResponseOK, NoOutcome
  <1> QED BY <1>2, <1>3, <1>4, <1>5, OneRequest

\* A response that does not change, as an update.
LEMMA SameResponse ==
  ASSUME StateOK, NEW r \in Requests
  PROVE  response = [response EXCEPT ![r] = response[r]]
  BY DEF StateOK, OnRequests

LEMMA TryOthersStep ==
  ASSUME Inv, NEW r \in Requests, pc[r] \in {"others", "get", "check", "add"},
         UNCHANGED <<config, now, http, arrived, decision, outcome, returned>>,
         fromCache' \in [Requests -> BOOLEAN], CacheOK', TryOthers(r)
  PROVE  Inv'
  <1>1. StateOK /\ response[r] = NoResponse
    BY DEF Inv, ResponseOK
  <1>2. CASE /\ pc' = [pc EXCEPT ![r] = "route"] /\ response' = response
             /\ OtherSchemes(r)
    <2>1. response' = [response EXCEPT ![r] = NoResponse]
      BY <1>1, <1>2, SameResponse
    <2>2. Entitled(r)
      BY <1>2 DEF Entitled
    <2> QED BY <1>2, <2>1, <2>2, AuthStep
  <1>3. CASE /\ pc' = [pc EXCEPT ![r] = "done"]
             /\ response' = [response EXCEPT ![r] = Response("401", "none")]
    <2>1. Response("401", "none") \in Refusals
      BY DEF Refusals
    <2> HIDE DEF Refusals
    <2> QED BY <1>3, <2>1, AuthStep
  <1> QED BY <1>2, <1>3, TryOthersCases

LEMMA TryAuthStep ==
  ASSUME Inv, NEW r \in Requests, TryAuthWithoutJwt(r)
  PROVE  Inv'
  <1>1. /\ pc[r] = "others" /\ TryOthers(r)
        /\ UNCHANGED <<config, now, http, arrived, decision, outcome, returned,
                       jwtCache, fromCache>>
    BY DEF TryAuthWithoutJwt, auth, request, work
  <1>2. CacheOK' /\ fromCache' \in [Requests -> BOOLEAN]
    BY <1>1 DEF Inv, CacheOK, StateOK
  <1> QED BY <1>1, <1>2, TryOthersStep

LEMMA GetClaimsStep ==
  ASSUME Inv, NEW r \in Requests, GetClaims(r)
  PROVE  Inv'
  <1> DEFINE t == http[r].token
  <1>1. /\ pc[r] = "get"
        /\ UNCHANGED <<config, now, http, arrived, decision, outcome, returned>>
    BY DEF GetClaims, request, work
  <1>2. /\ StateOK /\ config.jwt /\ response[r] = NoResponse /\ CacheOK
        /\ http[r] \in Inputs /\ t \in Tokens
    <2>1. http[r] \in Inputs
      BY <1>1 DEF Inv, StateOK
    <2>2. t \in Tokens
      BY <2>1, HttpAssumption DEF HttpRequest
    <2> QED BY <1>1, <2>1, <2>2 DEF Inv, TokenOK, ResponseOK
  <1>3. CASE http[r].scheme = "bare Bearer" /\ Respond(r, Aborted) /\ UNCHANGED auth
    <2>1. CacheOK' /\ fromCache' \in [Requests -> BOOLEAN]
      BY <1>2, <1>3 DEF CacheOK, StateOK, auth
    <2>2. /\ pc' = [pc EXCEPT ![r] = "done"]
          /\ response' = [response EXCEPT ![r] = Aborted]
      BY <1>3 DEF Respond, Goto
    <2> QED BY <1>1, <1>2, <1>3, <2>1, <2>2, AuthStep
  <1>4. CASE http[r].scheme = "Bearer"
    <2>0. /\ fromCache' = [fromCache EXCEPT ![r] = t \in ToSet(jwtCache)]
          /\ IF t \in ToSet(jwtCache) THEN
               LruTouch(t) /\ Goto(r, "check") /\ UNCHANGED response
             ELSE /\ UNCHANGED jwtCache
                  /\ IF ParsesAt(t, now)
                       THEN Goto(r, "check") /\ UNCHANGED response
                       ELSE TryOthers(r)
      BY <1>4 DEF GetClaims
    <2>1. fromCache' \in [Requests -> BOOLEAN]
      <3>1. fromCache' = [fromCache EXCEPT ![r] = t \in ToSet(jwtCache)]
        BY <2>0
      <3>2. \A b \in BOOLEAN : [fromCache EXCEPT ![r] = b] \in [Requests -> BOOLEAN]
        BY <1>2 DEF StateOK
      <3>3. (t \in ToSet(jwtCache)) \in BOOLEAN
        OBVIOUS
      <3> QED BY <3>1, <3>2, <3>3, Zenon
    <2>2. CASE t \in ToSet(jwtCache)
      <3>1. LruTouch(t) /\ Goto(r, "check") /\ UNCHANGED response
        BY <2>0, <2>2
      <3>2. CacheOK'
        BY <1>2, <2>2, <3>1, TouchKeeps
      <3>3. t \in SignedTokens
        BY <1>2, <2>2 DEF CacheOK, ToSet
      <3>4. response' = [response EXCEPT ![r] = NoResponse]
        BY <1>2, <3>1, SameResponse
      <3> QED BY <1>1, <1>2, <1>4, <2>1, <3>1, <3>2, <3>3, <3>4, AuthStep DEF Goto
    <2>3. CASE t \notin ToSet(jwtCache) /\ ParsesAt(t, now)
      <3>1. UNCHANGED jwtCache /\ Goto(r, "check") /\ UNCHANGED response
        BY <2>0, <2>3
      <3>2. CacheOK'
        BY <1>2, <3>1 DEF CacheOK
      <3>3. t \in SignedTokens
        BY <1>2, <2>3 DEF ParsesAt, SignedTokens
      <3>4. response' = [response EXCEPT ![r] = NoResponse]
        BY <1>2, <3>1, SameResponse
      <3> QED BY <1>1, <1>2, <1>4, <2>1, <3>1, <3>2, <3>3, <3>4, AuthStep DEF Goto
    <2>4. CASE t \notin ToSet(jwtCache) /\ ~ParsesAt(t, now)
      <3>1. UNCHANGED jwtCache /\ TryOthers(r)
        BY <2>0, <2>4
      <3>2. CacheOK'
        BY <1>2, <3>1 DEF CacheOK
      <3> QED BY <1>1, <2>1, <3>1, <3>2, TryOthersStep
    <2> QED BY <2>2, <2>3, <2>4
  <1>5. \/ http[r].scheme = "bare Bearer" /\ Respond(r, Aborted) /\ UNCHANGED auth
        \/ http[r].scheme = "Bearer"
    BY DEF GetClaims
  <1> QED BY <1>3, <1>4, <1>5

LEMMA CheckExpiryStep ==
  ASSUME Inv, NEW r \in Requests, CheckExpiry(r)
  PROVE  Inv'
  <1> DEFINE t == http[r].token
  <1>1. /\ pc[r] = "check"
        /\ UNCHANGED <<config, now, http, arrived, decision, outcome, returned,
                       fromCache>>
    BY DEF CheckExpiry, request, work
  <1>2. /\ StateOK /\ config.jwt /\ response[r] = NoResponse /\ CacheOK
        /\ http[r].scheme = "Bearer" /\ t \in SignedTokens /\ arrived[r] <= now
        /\ fromCache' \in [Requests -> BOOLEAN]
    BY <1>1 DEF Inv, TokenOK, ResponseOK, StateOK
  <1>3. t \in Tokens /\ Claims[t].exp \in Nat /\ arrived[r] \in Nat /\ now \in Nat
    BY <1>2, HttpAssumption DEF SignedTokens, StateOK
  <1>4. CASE Expired(r)
    <2>1. TryOthers(r) /\ (UNCHANGED jwtCache \/ jwtCache' = Others(jwtCache, t))
      BY <1>4 DEF CheckExpiry
    <2>2. ASSUME jwtCache' = jwtCache PROVE CacheOK'
      BY <1>2, <2>2 DEF CacheOK
    <2>3. ASSUME jwtCache' = Others(jwtCache, t) PROVE CacheOK'
      BY <1>2, <1>3, <2>3, RemoveKeeps
    <2>4. CacheOK'
      BY <2>1, <2>2, <2>3
    <2>5. pc[r] \in {"others", "get", "check", "add"} /\ TryOthers(r)
          /\ fromCache' \in [Requests -> BOOLEAN]
      BY <1>1, <1>2, <2>1
    <2> QED BY <1>1, <2>4, <2>5, TryOthersStep
  <1>5. CASE ~Expired(r)
    <2>1. PICK l \in {"route", "add"} :
            Goto(r, l) /\ UNCHANGED <<jwtCache, response>>
      BY <1>5 DEF CheckExpiry
    <2>2. Claims[t].exp >= arrived[r]
      <3>1. ~(Claims[t].exp < now)
        BY <1>5 DEF Expired
      <3> QED BY <1>2, <1>3, <3>1
    <2>3. Entitled(r)
      BY <1>2, <2>2 DEF Entitled
    <2>4. CacheOK'
      BY <1>2, <2>1 DEF CacheOK
    <2>5. response' = [response EXCEPT ![r] = NoResponse]
      BY <1>2, <2>1, SameResponse
    <2> QED BY <1>1, <1>2, <2>1, <2>2, <2>3, <2>4, <2>5, AuthStep DEF Goto
  <1> QED BY <1>4, <1>5

LEMMA AddClaimsStep ==
  ASSUME Inv, NEW r \in Requests, AddClaims(r)
  PROVE  Inv'
  <1> DEFINE t == http[r].token
  <1>1. /\ pc[r] = "add" /\ LruAdd(t) /\ Goto(r, "route")
        /\ UNCHANGED <<config, now, http, arrived, decision, outcome, returned,
                       fromCache, response>>
    BY DEF AddClaims, request, work
  <1>2. /\ StateOK /\ config.jwt /\ response[r] = NoResponse /\ CacheOK
        /\ http[r].scheme = "Bearer" /\ t \in SignedTokens
        /\ Claims[t].exp >= arrived[r]
        /\ fromCache' \in [Requests -> BOOLEAN]
    BY <1>1 DEF Inv, TokenOK, ResponseOK, StateOK
  <1>3. CacheOK'
    BY <1>1, <1>2, AddKeeps DEF SignedTokens
  <1>4. Entitled(r)
    BY <1>2 DEF Entitled
  <1>5. response' = [response EXCEPT ![r] = NoResponse]
    BY <1>1, <1>2, SameResponse
  <1> QED BY <1>1, <1>2, <1>3, <1>4, <1>5, AuthStep DEF Goto

-----------------------------------------------------------------------------
(* GatewayHandler, H1Handler and H1Client.                                 *)

\* A step of r after it was let through.
LEMMA HandlerStep ==
  ASSUME Inv, NEW r \in Requests, pc[r] \in {"route", "session", "callback", "done"},
         UNCHANGED <<config, now, http, arrived, jwtCache, fromCache>>,
         NEW l \in {"session", "callback", "done"}, pc' = [pc EXCEPT ![r] = l],
         OnRequests(decision)', OnRequests(outcome)', OnRequests(response)',
         OnRequests(returned)',
         \A q \in Requests : q # r =>
           /\ decision'[q] = decision[q] /\ outcome'[q] = outcome[q]
           /\ response'[q] = response[q] /\ returned'[q] = returned[q],
         decision'[r] # NoDecision => Entitled(r) /\ l # "session",
         l # "done" => Entitled(r),
         ResponseOK(r)'
  PROVE  Inv'
  <1>1. StateOK /\ CacheOK /\ TokenOK(r)
    BY DEF Inv
  <1>2. pc'[r] = l /\ \A q \in Requests : q # r => Same(q)
    BY <1>1 DEF StateOK, Same
  <1>3. StateOK' /\ CacheOK'
    BY <1>1 DEF StateOK, OnRequests, Labels, CacheOK
  <1>4. TokenOK(r)'
    <2>1. Entitled(r) => Entitled(r)'
      BY DEF Entitled, OtherSchemes
    <2> QED BY <1>1, <1>2, <2>1 DEF TokenOK, NoDecision
  <1> QED BY <1>2, <1>3, <1>4, OneRequest

LEMMA EndSessionStep ==
  ASSUME Inv, NEW r \in Requests, EndSession(r)
  PROVE  Inv'
  <1>1. /\ pc[r] = "session" /\ pc' = [pc EXCEPT ![r] = "done"]
        /\ UNCHANGED <<config, now, http, arrived, jwtCache, fromCache, decision,
                       outcome, response, returned>>
    BY DEF EndSession, Goto, request, work, auth
  <1>2. StateOK /\ TokenOK(r) /\ ResponseOK(r)
    BY DEF Inv
  <1>3. ResponseOK(r)'
    <2>1. ByClient(r)' = ByClient(r) /\ Returns(r, response[r])' = Returns(r, response[r])
      BY <1>1 DEF ByClient, Streams, Returns
    <2> QED BY <1>1, <1>2, <2>1 DEF ResponseOK
  <1>4. OnRequests(decision)' /\ OnRequests(outcome)' /\ OnRequests(response)'
        /\ OnRequests(returned)'
    BY <1>1, <1>2 DEF StateOK, OnRequests
  <1>5. decision'[r] # NoDecision => Entitled(r)
    BY <1>1, <1>2 DEF TokenOK
  <1> QED BY <1>1, <1>3, <1>4, <1>5, HandlerStep

LEMMA StartSessionStep ==
  ASSUME Inv, NEW r \in Requests, StartSession(r)
  PROVE  Inv'
  <1>1. /\ pc[r] = "route"
        /\ UNCHANGED <<config, now, http, arrived, jwtCache, fromCache, decision,
                       outcome, returned>>
    BY DEF StartSession, request, work, auth
  <1>2. StateOK /\ TokenOK(r) /\ ResponseOK(r) /\ Entitled(r)
    BY <1>1 DEF Inv, TokenOK
  <1>3. /\ response[r] = NoResponse /\ outcome[r] = NoOutcome
        /\ decision[r] = NoDecision /\ returned[r] \in {"waiting", "timeout", "failed"}
    BY <1>1, <1>2 DEF ResponseOK, TokenOK
  <1>4. PICK l \in {"session", "done"}, resp \in {NoResponse, Response("400", "none")} :
          /\ pc' = [pc EXCEPT ![r] = l]
          /\ response' = [response EXCEPT ![r] = resp]
          /\ l = "session" => resp = NoResponse
    BY <1>2, <1>3, SameResponse DEF StartSession, Respond, Goto
  <1>5. OnRequests(decision)' /\ OnRequests(outcome)' /\ OnRequests(response)'
        /\ OnRequests(returned)'
    BY <1>1, <1>2, <1>4 DEF StateOK, OnRequests
  <1>6. /\ pc'[r] = l /\ response'[r] = resp
        /\ \A q \in Requests : q # r => response'[q] = response[q]
    BY <1>2, <1>4 DEF StateOK, OnRequests
  <1>7. ResponseOK(r)'
    BY <1>1, <1>3, <1>4, <1>6 DEF ResponseOK, Refusals, NoOutcome
  <1>8. decision'[r] = NoDecision
    BY <1>1, <1>3
  <1> QED BY <1>1, <1>2, <1>4, <1>5, <1>6, <1>7, <1>8, HandlerStep

LEMMA ServeHTTPStep ==
  ASSUME Inv, NEW r \in Requests, ServeHTTP(r)
  PROVE  Inv'
  <1>1. /\ pc[r] = "route"
        /\ UNCHANGED <<config, now, http, arrived, jwtCache, fromCache, outcome, returned>>
    BY DEF ServeHTTP, request, auth
  <1>2. StateOK /\ TokenOK(r) /\ ResponseOK(r) /\ Entitled(r)
    BY <1>1 DEF Inv, TokenOK
  <1>3. /\ response[r] = NoResponse /\ outcome[r] = NoOutcome
        /\ returned[r] \in {"waiting", "timeout", "failed"}
    BY <1>1, <1>2 DEF ResponseOK, TokenOK
  <1>4. \E d : decision' = [decision EXCEPT ![r] = d]
    <2>1. decision = [decision EXCEPT ![r] = decision[r]]
      BY <1>2 DEF StateOK, OnRequests
    <2>2. decision' = decision \/ \E d : decision' = [decision EXCEPT ![r] = d]
      BY DEF ServeHTTP
    <2> QED BY <2>1, <2>2
  <1>5. /\ H1Response(Pair("invalid schema", "nil"), http[r].body) \subseteq Refusals
        /\ H1Response(Pair("nil", "ErrorPos"), http[r].body) \subseteq Refusals
        /\ H1Response(Pair("method not found", "nil"), http[r].body) \subseteq Refusals
        /\ H1Response(Pair("nil", "nil"), http[r].body) \subseteq Refusals
    BY DEF H1Response, Pair, Refusals
  <1>6. Response("405", "none") \in Refusals /\ Response("400", "none") \in Refusals
    BY DEF Refusals
  <1>7. \/ Goto(r, "callback") /\ UNCHANGED response
        \/ \E resp \in Refusals : Respond(r, resp)
    <2> HIDE DEF Refusals
    <2> QED BY <1>5, <1>6 DEF ServeHTTP
  <1>8. PICK l \in {"callback", "done"}, resp \in Refusals \cup {NoResponse} :
          /\ pc' = [pc EXCEPT ![r] = l]
          /\ response' = [response EXCEPT ![r] = resp]
          /\ l = "callback" => resp = NoResponse
    <2> HIDE DEF Refusals
    <2> QED BY <1>2, <1>3, <1>7, SameResponse DEF Respond, Goto
  <1>9. /\ OnRequests(decision)'
        /\ \A q \in Requests : q # r => decision'[q] = decision[q]
    BY <1>2, <1>4 DEF StateOK, OnRequests
  <1>10. /\ OnRequests(response)' /\ response'[r] = resp
         /\ \A q \in Requests : q # r => response'[q] = response[q]
    BY <1>2, <1>8 DEF StateOK, OnRequests
  <1>11. pc'[r] = l /\ OnRequests(outcome)' /\ OnRequests(returned)'
    BY <1>1, <1>2, <1>8 DEF StateOK, OnRequests
  <1>12. ResponseOK(r)'
    <2> HIDE DEF Refusals
    <2> QED BY <1>1, <1>3, <1>8, <1>10, <1>11 DEF ResponseOK
  <1> QED BY <1>1, <1>2, <1>8, <1>9, <1>10, <1>11, <1>12, HandlerStep

LEMMA CallbackStep ==
  ASSUME Inv, NEW r \in Requests, CallbackReturns(r)
  PROVE  Inv'
  <1>1. /\ pc[r] = "callback"
        /\ UNCHANGED <<config, now, http, arrived, jwtCache, fromCache, decision, returned>>
    BY DEF CallbackReturns, request, auth
  <1>2. StateOK /\ TokenOK(r) /\ ResponseOK(r) /\ Entitled(r)
    BY <1>1 DEF Inv, TokenOK
  <1>3. returned[r] \in {"waiting", "timeout", "failed"}
    BY <1>1, <1>2 DEF ResponseOK
  <1>4. PICK o \in Outcomes :
          /\ outcome' = [outcome EXCEPT ![r] = o]
          /\ \E resp \in IF PanicsThrough(decision[r], o) THEN {Aborted}
                         ELSE H1Response(wrapResult(o.what, http[r].body), http[r].body) :
               Respond(r, resp)
    BY DEF CallbackReturns
  <1>5. PICK resp : /\ resp \in IF PanicsThrough(decision[r], o) THEN {Aborted}
                                ELSE H1Response(wrapResult(o.what, http[r].body),
                                                http[r].body)
                    /\ response' = [response EXCEPT ![r] = resp]
                    /\ pc' = [pc EXCEPT ![r] = "done"]
    BY <1>4 DEF Respond, Goto
  <1>6. o \in Outcome /\ o # NoOutcome
    BY HttpAssumption DEF Outcome, NoOutcome, Errors
  <1>7. /\ OnRequests(outcome)' /\ outcome'[r] = o
        /\ \A q \in Requests : q # r => outcome'[q] = outcome[q]
    BY <1>2, <1>4 DEF StateOK, OnRequests
  <1>8. /\ OnRequests(response)' /\ response'[r] = resp
        /\ \A q \in Requests : q # r => response'[q] = response[q]
    BY <1>2, <1>5 DEF StateOK, OnRequests
  <1>9. pc'[r] = "done" /\ OnRequests(decision)' /\ OnRequests(returned)'
    BY <1>1, <1>2, <1>5 DEF StateOK, OnRequests
  <1>10. ResponseOK(r)'
    BY <1>1, <1>3, <1>5, <1>6, <1>7, <1>8, <1>9 DEF ResponseOK
  <1> QED BY <1>1, <1>2, <1>5, <1>7, <1>8, <1>9, <1>10, HandlerStep

\* H1Client's steps only change what it returns.
LEMMA ClientStep ==
  ASSUME Inv, NEW r \in Requests, ClientReturns(r) \/ ClientGivesUp(r)
  PROVE  Inv'
  <1>1. UNCHANGED <<config, now, http, arrived, jwtCache, fromCache, pc, decision,
                    outcome, response>>
    BY DEF ClientReturns, ClientGivesUp, request, work, auth
  <1>2. StateOK /\ CacheOK /\ TokenOK(r) /\ ResponseOK(r)
    BY DEF Inv
  <1>3. PICK x : /\ returned' = [returned EXCEPT ![r] = x]
                 /\ \/ x \in {"timeout", "failed"}
                    \/ /\ ByClient(r) /\ response[r] # NoResponse
                       /\ x = Returns(r, response[r])
    BY DEF ClientReturns, ClientGivesUp
  <1>4. /\ OnRequests(returned)' /\ returned'[r] = x
        /\ \A q \in Requests : q # r => Same(q)
    BY <1>1, <1>2, <1>3 DEF StateOK, OnRequests, Same
  <1>5. StateOK' /\ CacheOK'
    BY <1>1, <1>2, <1>4 DEF StateOK, CacheOK, OnRequests
  <1>6. TokenOK(r)'
    BY <1>1, <1>2 DEF TokenOK, Entitled, OtherSchemes
  <1>7. ResponseOK(r)'
    <2>1. (ByClient(r) <=> ByClient(r)') /\ Returns(r, response[r])' = Returns(r, response[r])
      BY <1>1 DEF ByClient, Streams, Returns
    <2> QED BY <1>1, <1>2, <1>3, <1>4, <2>1 DEF ResponseOK
  <1> QED BY <1>1, <1>4, <1>5, <1>6, <1>7, OneRequest

-----------------------------------------------------------------------------
(* The theorems.                                                           *)

LEMMA InvInit == Init => Inv
  <1> SUFFICES ASSUME Init PROVE Inv
    OBVIOUS
  <1> USE DEF Init
  <1>1. StateOK
    BY DEF StateOK, OnRequests, Labels
  <1>2. CacheOK
    BY HttpAssumption DEF CacheOK
  <1>3. \A r \in Requests : TokenOK(r)
    BY DEF TokenOK
  <1>4. \A r \in Requests : ResponseOK(r)
    BY DEF ResponseOK
  <1> QED BY <1>1, <1>2, <1>3, <1>4 DEF Inv

\* The steps that concern no request.
LEMMA CommonStep ==
  ASSUME Inv, UNCHANGED vars \/ Prepare \/ ListenAndServe \/ Tick
  PROVE  Inv'
  <1>1. UNCHANGED <<config, jwtCache, fromCache, http, pc, arrived, decision, outcome,
                    response, returned>>
    BY DEF vars, auth, request, work, Prepare, ListenAndServe, Tick
  <1>2. now \in Nat /\ StateOK /\ CacheOK
    BY DEF Inv, StateOK
  <1>3. now' \in Nat /\ now <= now'
    <2>1. now' = now \/ now' = now + 1
      BY DEF vars, Prepare, ListenAndServe, Tick
    <2> QED BY <1>2, <2>1
  <1>4. StateOK' /\ CacheOK'
    BY <1>1, <1>2, <1>3 DEF StateOK, CacheOK, OnRequests
  <1>5. ASSUME NEW q \in Requests PROVE TokenOK(q)' /\ ResponseOK(q)'
    <2>1. Same(q) /\ TokenOK(q) /\ ResponseOK(q)
      BY <1>1 DEF Same, Inv
    <2> QED BY <1>1, <1>2, <1>3, <2>1, Frame
  <1> QED BY <1>4, <1>5 DEF Inv

LEMMA InvStep == Inv /\ [Next]_vars => Inv'
  <1> SUFFICES ASSUME Inv, [Next]_vars PROVE Inv'
    OBVIOUS
  <1>1. CASE UNCHANGED vars \/ Prepare \/ ListenAndServe \/ Tick
    BY <1>1, CommonStep
  <1>2. ASSUME NEW r \in Requests, Arrive(r) PROVE Inv'
    BY <1>2, ArriveStep
  <1>3. ASSUME NEW r \in Requests, Serve(r) PROVE Inv'
    BY <1>3, TryAuthStep, GetClaimsStep, CheckExpiryStep, AddClaimsStep,
       StartSessionStep, EndSessionStep, ServeHTTPStep, CallbackStep DEF Serve
  <1>4. ASSUME NEW r \in Requests, ClientReturns(r) \/ ClientGivesUp(r) PROVE Inv'
    BY <1>4, ClientStep
  <1> QED BY <1>1, <1>2, <1>3, <1>4 DEF Next

LEMMA InvAlways == Spec => []Inv
  BY InvInit, InvStep, PTL DEF Spec

\* AuthHandler.TryAuth and jwtAuth: who is let through was entitled when it came
\* in, whatever other requests do to the cache of claims meanwhile.
THEOREM OnlyEntitled == Spec => []EntitledOnly
  <1>1. Inv => EntitledOnly
    <2> SUFFICES ASSUME Inv, NEW r \in Requests,
                        \/ pc[r] \in {"route", "session", "callback"}
                        \/ decision[r] # NoDecision
                 PROVE  \/ ~config.on \/ OtherSchemes(r)
                        \/ /\ config.jwt /\ http[r].scheme = "Bearer"
                           /\ Claims[http[r].token].signed
                           /\ Claims[http[r].token].exp >= arrived[r]
      BY DEF EntitledOnly
    <2>1. Entitled(r)
      BY DEF Inv, TokenOK
    <2> QED BY <2>1 DEF Entitled, SignedTokens
  <1> QED BY <1>1, InvAlways, PTL

\* jwtCache, an lru.Cache of fixed size: it never holds more than that, nor a
\* token twice, nor claims whose signature was not checked.
THEOREM CacheBounded == Spec => []CacheOK
  <1>1. Inv => CacheOK
    BY DEF Inv
  <1> QED BY <1>1, InvAlways, PTL

LEMMA ResponseFields ==
  ASSUME NEW status, NEW body
  PROVE  Response(status, body).status = status /\ Response(status, body).body = body
  BY DEF Response

\* The response to a request, and to anything else, whose callback does not relay.
Tells(resp, w) ==
  \/ resp.body = w /\ w \in {"value", "RPCError"}
  \/ resp.body = "internal error" /\ w \in {"opaque", "error", "SimpleResponse"}

LEMMA RequestResponse ==
  ASSUME NEW msg, msg.type = "request",
         NEW w \in {"value", "opaque", "message"} \cup Errors,
         w \notin {"WrappedResponse", "message"},
         NEW resp \in H1Response(wrapResult(w, msg), msg)
  PROVE  resp.status = "200" /\ Tells(resp, w)
  <1> DEFINE y == wrapResult(w, msg)
  <1>1. \/ w = "RPCError" /\ y = Pair("RPCError", "nil")
        \/ w \in {"SimpleResponse", "error"} /\ y = Pair("internal error", "nil")
        \/ w \in {"value", "opaque"} /\ y = Pair(w, "nil")
    BY DEF wrapResult, ResultOrError, Errors
  <1> HIDE DEF y
  <1>2. resp \in H1Response(y, msg)
    BY DEF y
  <1>3. \/ w = "RPCError" /\ resp = Response("200", "RPCError")
        \/ w \in {"SimpleResponse", "error", "opaque"} /\ resp = Response("200", "internal error")
        \/ w = "value" /\ resp = Response("200", w)
    <2>1. CASE w = "RPCError" /\ y = Pair("RPCError", "nil")
      BY <1>2, <2>1 DEF H1Response, Pair
    <2>2. CASE w \in {"SimpleResponse", "error"} /\ y = Pair("internal error", "nil")
      BY <1>2, <2>2 DEF H1Response, Pair
    <2>3. CASE w \in {"value", "opaque"} /\ y = Pair(w, "nil")
      BY <1>2, <2>3 DEF H1Response, Pair, Unmarshalable
    <2> QED BY <1>1, <2>1, <2>2, <2>3
  <1>4. CASE w = "RPCError" /\ resp = Response("200", "RPCError")
    BY <1>4, ResponseFields DEF Tells
  <1>5. CASE w \in {"SimpleResponse", "error", "opaque"} /\ resp = Response("200", "internal error")
    <2>1. resp.status = "200" /\ resp.body = "internal error"
      BY <1>5, ResponseFields
    <2> QED BY <1>5, <2>1 DEF Tells
  <1>6. CASE w = "value" /\ resp = Response("200", w)
    BY <1>6, ResponseFields DEF Tells
  <1> QED BY <1>3, <1>4, <1>5, <1>6

LEMMA OtherResponse ==
  ASSUME NEW msg, msg.type # "request",
         NEW w \in {"value", "opaque", "message"} \cup Errors,
         w \notin {"WrappedResponse", "SimpleResponse"},
         NEW resp \in H1Response(wrapResult(w, msg), msg)
  PROVE  /\ resp.status \in {"200", "500"}
         /\ w \in Errors => resp.status = "500"
  <1> DEFINE y == wrapResult(w, msg)
  <1>1. \/ w \in Errors /\ y = Pair("nil", w)
        \/ w \notin Errors /\ y = Pair("nil", "nil")
    BY DEF wrapResult
  <1> HIDE DEF y
  <1>2. resp \in H1Response(y, msg)
    BY DEF y
  <1>3. \/ w \in Errors /\ resp = Response("500", "none")
        \/ w \notin Errors /\ resp = Response("200", "none")
    BY <1>1, <1>2 DEF H1Response, Pair, Errors
  <1> QED BY <1>3 DEF Response

\* H1Handler.ServeHTTP: besides a callback's own panic, and the response it relays,
\* only the Bearer header without a token makes the handler of a request panic.
THEOREM OnlyCallbacksPanic == Spec => []PanicsOnlyWithCallback
  <1>1. Inv => PanicsOnlyWithCallback
    <2> SUFFICES ASSUME Inv, NEW r \in Requests, response[r] = Aborted
                 PROVE  \/ /\ outcome[r] # NoOutcome
                           /\ PanicsThrough(decision[r], outcome[r]) \/ Relays(r)
                        \/ config.jwt /\ http[r].scheme = "bare Bearer"
      BY DEF PanicsOnlyWithCallback
    <2>1. ResponseOK(r)
      BY DEF Inv
    <2>2. Aborted \notin Refusals \cup {NoResponse}
      BY DEF Aborted, Refusals, NoResponse, Response
    <2>3. CASE outcome[r] = NoOutcome
      BY <2>1, <2>2, <2>3 DEF ResponseOK
    <2>4. CASE /\ outcome[r] # NoOutcome /\ ~Relays(r)
               /\ ~PanicsThrough(decision[r], outcome[r])
      <3> DEFINE w == outcome[r].what
                 z == H1Response(wrapResult(w, http[r].body), http[r].body)
      <3>1. outcome[r] \in Outcome /\ Aborted \in z
        BY <2>1, <2>4 DEF ResponseOK
      <3>2. w \in {"value", "opaque", "message"} \cup Errors
        BY <2>4, <3>1 DEF Outcome, PanicsThrough
      <3>3. CASE http[r].body.type = "request"
        <4>1. w \notin {"WrappedResponse", "message"}
          BY <2>4, <3>3 DEF Relays
        <4>2. \A resp \in z : resp.status = "200"
          BY <3>2, <3>3, <4>1, RequestResponse
        <4> QED BY <3>1, <4>2 DEF Aborted, Response
      <3>4. CASE http[r].body.type # "request"
        <4>1. w \notin {"WrappedResponse", "SimpleResponse"}
          BY <2>4, <3>4 DEF Relays
        <4>2. \A resp \in z : resp.status \in {"200", "500"}
          BY <3>2, <3>4, <4>1, OtherResponse
        <4> QED BY <3>1, <4>2 DEF Aborted, Response
      <3> QED BY <3>3, <3>4
    <2> QED BY <2>3, <2>4
  <1> QED BY <1>1, InvAlways, PTL

\* H1Client.Call and Send: what the caller is told is what has happened to its
\* message at the server.
THEOREM ToldWhatHappened == Spec => []TellsWhatHappened
  <1>1. Inv => TellsWhatHappened
    <2> SUFFICES ASSUME Inv, NEW r \in Requests
                 PROVE  LET o == outcome[r] IN
    \/ Relays(r)
    \/ /\ returned[r] \in {"400", "401", "405", "method not found", "invalid schema"}
            => o = NoOutcome
       /\ returned[r] \in {"value", "RPCError"} => o.what = returned[r]
       /\ returned[r] = "internal error" => o.what \in {"opaque", "error", "SimpleResponse"}
       /\ returned[r] = "sent" /\ o # NoOutcome => o.what \notin Errors
      BY DEF TellsWhatHappened
    <2>1. ResponseOK(r)
      BY DEF Inv
    <2>2. CASE returned[r] \in {"waiting", "timeout", "failed"}
      BY <2>2
    <2>3. CASE /\ ByClient(r) /\ response[r] # NoResponse
               /\ returned[r] = Returns(r, response[r])
      <3>1. CASE response[r] = Aborted
        <4>1. returned[r] = "failed"
          BY <2>3, <3>1 DEF Returns, Aborted, Response
        <4> QED BY <2>2, <4>1
      <3>2. CASE outcome[r] = NoOutcome /\ response[r] # Aborted
        <4>1. response[r] \in Refusals
          BY <2>1, <2>3, <3>2 DEF ResponseOK
        <4>2. returned[r] \in {"401", "400", "405", "500", "invalid schema",
                               "method not found", "failed", "sent"}
          <5>1. CASE response[r] \in {Response("401", "none"), Response("400", "none"),
                                      Response("405", "none"), Response("500", "none")}
            <6>1. PICK code \in {"401", "400", "405", "500"} : response[r].status = code
              BY <5>1 DEF Response
            <6>2. returned[r] = code
              BY <2>3, <6>1 DEF Returns
            <6> QED BY <6>2
          <5>2. CASE response[r] \in {Response("200", "invalid schema"),
                                      Response("200", "method not found"),
                                      Response("200", "none")}
            <6>1. PICK b \in {"invalid schema", "method not found", "none"} :
                    response[r] = Response("200", b)
              BY <5>2
            <6>2. response[r].status = "200" /\ response[r].body = b
              <7>1. Response("200", b).status = "200" /\ Response("200", b).body = b
                BY ONLY ResponseFields
              <7> QED BY ONLY <6>1, <7>1
            <6>3. returned[r] = IF http[r].body.type # "request" THEN "sent"
                                ELSE IF b = "none" THEN "failed" ELSE b
              <7>1. returned[r] = Returns(r, response[r])
                BY ONLY <2>3
              <7> QED BY ONLY <6>2, <7>1 DEF Returns
            <6> QED BY <6>3
          <5> QED BY <4>1, <5>1, <5>2 DEF Refusals
        <4> QED BY <3>2, <4>2
      <3>3. CASE outcome[r] # NoOutcome /\ response[r] # Aborted /\ ~Relays(r)
        <4> DEFINE w == outcome[r].what
        <4>1. /\ outcome[r] \in Outcome /\ ~PanicsThrough(decision[r], outcome[r])
              /\ response[r] \in H1Response(wrapResult(w, http[r].body), http[r].body)
          BY <2>1, <3>3 DEF ResponseOK
        <4>2. w \in {"value", "opaque", "message"} \cup Errors
          BY <4>1 DEF Outcome, PanicsThrough
        <4>3. CASE http[r].body.type = "request"
          <5>1. w \notin {"WrappedResponse", "message"}
            BY <3>3, <4>3 DEF Relays
          <5>2. response[r].status = "200" /\ Tells(response[r], w)
            BY <4>1, <4>2, <4>3, <5>1, RequestResponse
          <5>3. returned[r] = response[r].body
            <6>1. response[r].body # "none"
              BY <5>2 DEF Tells
            <6> QED BY <2>3, <4>3, <5>2, <6>1 DEF Returns
          <5> QED BY <3>3, <5>2, <5>3 DEF Tells
        <4>4. CASE http[r].body.type = "notify"
          <5>1. w \notin {"WrappedResponse", "SimpleResponse"}
            BY <3>3, <4>4 DEF Relays
          <5>2. /\ response[r].status \in {"200", "500"}
                /\ w \in Errors => response[r].status = "500"
            BY <4>1, <4>2, <4>4, <5>1, OtherResponse
          <5>3. returned[r] = IF response[r].status = "200" THEN "sent" ELSE "500"
            BY <2>3, <4>4, <5>2 DEF Returns
          <5> QED BY <3>3, <5>2, <5>3
        <4> QED BY <2>3, <4>3, <4>4 DEF ByClient
      <3> QED BY <3>1, <3>2, <3>3
    <2> QED BY <2>1, <2>2, <2>3 DEF ResponseOK
  <1> QED BY <1>1, InvAlways, PTL
=============================================================================
