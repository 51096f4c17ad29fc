------------------------------- MODULE Messages -------------------------------
(***************************************************************************)
(* JSON-RPC messages: how they are made (messageimpl.go), what they look   *)
(* like on the wire, and what a reader makes of that (parse.go).           *)
(*                                                                         *)
(* Of a value only its nature counts: nil, an atom (whatever JSON gives    *)
(* back as it was: a string, an object, ...), a slice of interface{} or a  *)
(* slice of another type, which JSON gives back as the former.             *)
(***************************************************************************)
EXTENDS Naturals, Sequences

Values == {"nil", "atom", "slice", "typed slice"}

\* An id's type, and a number that tells ids apart; "other" is a float, a
\* boolean or an object.
NoId == [type |-> "none", val |-> 0]
Ids == {NoId} \cup [type : {"int", "int64", "string", "other"}, val : {1, 2}]

\* Params as given to the constructors: a []interface{} or another value.
Params(list, of) == [list |-> list, of |-> of]
IsParams(params) == \/ params \in [list : {TRUE}, of : Seq(Values)]
                    \/ params \in [list : {FALSE}, of : {<<v>> : v \in Values \ {"slice"}}]

\* One record for all kinds; body is a result or says whether there is an error.
Make(kind, id, method, params, body, trace) ==
  [kind |-> kind, id |-> id, method |-> method, params |-> params,
   body |-> body, trace |-> trace]

NoParams == Params(TRUE, <<>>)
Panic == Make("panic", NoId, "", NoParams, "nil", "")
Failure == Make("failure", NoId, "", NoParams, "nil", "")
NoMessage == Make("none", NoId, "", NoParams, "nil", "")

-----------------------------------------------------------------------------
(* Constructors.  Nil params become an empty list.                         *)

NewRequestMessage(id, method, params) ==
  IF id = NoId \/ method = "" THEN Panic
  ELSE Make("request", id, method, params, "nil", "")

NewNotifyMessage(method, params) ==
  IF method = "" THEN Panic ELSE Make("notify", NoId, method, params, "nil", "")

rawResultMessage(id, result) == Make("result", id, "", NoParams, result, "")
rawErrorMessage(id, errbody) == Make("error", id, "", NoParams, errbody, "")

SetTraceId(msg, trace) == [msg EXCEPT !.trace = trace]

MustId(msg) == msg.id

NewResultMessage(req, result) == SetTraceId(rawResultMessage(MustId(req), result), req.trace)

\* Mutant: the trace id is forgotten.
ErrorWithoutTrace(req, errbody) == rawErrorMessage(MustId(req), errbody)

NewErrorMessage(req, errbody) == SetTraceId(rawErrorMessage(MustId(req), errbody), req.trace)

\* Mutant: the list of the clone is wrapped once more.
CloneWraps(msg, id) ==
  SetTraceId(NewRequestMessage(id, msg.method, Params(TRUE, <<"slice">>)), msg.trace)

\* Clone gives the constructor the Params field, a []interface{} always: that
\* the params were another value is forgotten.
Clone(msg, id) ==
  SetTraceId(NewRequestMessage(id, msg.method, Params(TRUE, msg.params.of)), msg.trace)

ReplaceId(msg, id) ==
  CASE msg.kind = "request" -> Clone(msg, id)
    [] msg.kind = "result" -> SetTraceId(rawResultMessage(id, msg.body), msg.trace)
    [] msg.kind = "error" -> SetTraceId(rawErrorMessage(id, msg.body), msg.trace)
    [] OTHER -> Panic

-----------------------------------------------------------------------------
(* On the wire.  A field that is absent and one that is null are the same  *)
(* to a reader; an array comes with the nature of its items.               *)

Null == [json |-> "null", items |-> <<>>]
Json(v) == [json  |-> CASE v = "nil" -> "null" [] v = "atom" -> "atom" [] OTHER -> "array",
            items |-> IF v \in {"slice", "typed slice"} THEN <<"atom">> ELSE <<>>]
GoValue(json) == CASE json = "null" -> "nil" [] json = "atom" -> "atom" [] OTHER -> "slice"

Union(id, method, params, result, error, trace) ==
  [id |-> id, method |-> method, params |-> params, result |-> result,
   error |-> error, trace |-> trace]

\* Mutant: one value goes out as itself, whatever it was.
UnwrapsOne(params) ==
  IF Len(params.of) # 1
  THEN [json |-> "array", items |-> [i \in 1 .. Len(params.of) |-> Json(params.of[i]).json]]
  ELSE Json(params.of[1])

ParamsField(params) ==
  IF params.list \/ params.of = <<>>
  THEN [json |-> "array", items |-> [i \in 1 .. Len(params.of) |-> Json(params.of[i]).json]]
  ELSE Json(params.of[1])

IdField(id) == IF id.type = "int64" THEN [id EXCEPT !.type = "int"] ELSE id

Interface(msg) ==
  LET Fields(params, result, error) ==
        Union(IdField(msg.id), msg.method, params, result, error, msg.trace) IN
  CASE msg.kind \in {"request", "notify"} -> Fields(ParamsField(msg.params), Null, "null")
    [] msg.kind = "result" -> Fields(Null, Json(msg.body), "null")
    [] msg.kind = "error" -> Fields(Null, Null, msg.body)

-----------------------------------------------------------------------------
(* Read from the wire.                                                     *)

\* What a peer may have sent: an id that is a number is read as an int.
Natures == {"null", "atom", "array"}
IsField(field) == \/ field = Null
                  \/ field \in [json : Natures \ {"null"}, items : Seq(Natures)]
ReadIds == {id \in Ids : id.type # "int64"}
IsUnion(un) ==
  /\ un = Union(un.id, un.method, un.params, un.result, un.error, un.trace)
  /\ un.id \in ReadIds /\ IsField(un.params) /\ IsField(un.result)
  /\ un.error \in {"null", "error", "bad"}

\* decodeId fails for these.
BadId(un) == un.id.type = "other"
decodeId(un) == un.id

NoParamsField(un) == un.params = Null

decodeParams(un) ==
  IF un.params.json = "array" THEN Params(TRUE, [i \in DOMAIN un.params.items |-> GoValue(un.params.items[i])])
  ELSE Params(FALSE, <<GoValue(un.params.json)>>)

\* error is "null", "error", or "bad" if it is not an error object.  What has
\* neither an error nor a result nor a method, but an id, is a null result.
DecodeMessage(un) ==
  LET id == decodeId(un)
      Traced(msg) == SetTraceId(msg, un.trace)
  IN
  CASE un.error # "null" ->
         IF un.result # Null \/ un.error = "bad" \/ BadId(un) THEN Failure
         ELSE Traced(rawErrorMessage(id, un.error))
    [] un.error = "null" /\ un.result # Null ->
         IF BadId(un) THEN Failure ELSE Traced(rawResultMessage(id, GoValue(un.result.json)))
    [] un.error = "null" /\ un.result = Null /\ un.method # "" ->
         IF NoParamsField(un) \/ BadId(un) THEN Failure
         ELSE IF id # NoId THEN Traced(NewRequestMessage(id, un.method, decodeParams(un)))
         ELSE Traced(NewNotifyMessage(un.method, decodeParams(un)))
    [] OTHER ->
         IF id = NoId \/ BadId(un) THEN Failure ELSE Traced(rawResultMessage(id, "nil"))

OverTheWire(msg) == DecodeMessage(Interface(msg))
=============================================================================
