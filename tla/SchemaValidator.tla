--------------------------- MODULE SchemaValidator ---------------------------
(***************************************************************************)
(* Validation of data against a schema: SchemaValidator.Scan               *)
(* (schema/validator.go) and the Scan method of each kind of schema        *)
(* (schema/schema.go), which call each other recursively.  The recursion   *)
(* is a stack of calls here, a step for each call and each return, so that *)
(* the validator's own stack, the path it reports errors at, can be        *)
(* compared with it.                                                       *)
(*                                                                         *)
(* Schemas and data are trees; their nodes are constants.                  *)
(***************************************************************************)
EXTENDS Integers, Sequences, FiniteSets, SequencesExt, Functions

CONSTANTS
  Schemas, Shape,  \* Shape[s]: what the schema s is
  Datas, Value,    \* Value[d]: what the value d is
  Props,           \* names of properties; "params" and "result" among them
  Nothing,         \* no bound, no schema: nil
  MaxScans         \* how often the validator is used

Kinds == {"any", "null", "bool", "number", "integer", "string", "anyOf",
          "allOf", "not", "list", "tuple", "method", "object"}
OptSchema == Schemas \cup {Nothing}
Bound == Int \cup {Nothing}

\* sub: choices, the child of a not, the item of a list, children, or params;
\* extra: the schema of additional items, params or properties.
IsShape(sh) ==
  /\ sh.kind \in Kinds /\ {sh.min, sh.max} \subseteq Bound
  /\ {sh.exmin, sh.exmax} \subseteq BOOLEAN \cup {Nothing}
  /\ TRUE \in {sh.exmin, sh.exmax} => sh.kind \in {"number", "integer"}
  /\ sh.sub \in Seq(Schemas) /\ {sh.extra, sh.returns} \subseteq OptSchema
  /\ sh.kind \in {"list", "not"} => Len(sh.sub) = 1
  /\ sh.requires \subseteq DOMAIN sh.props /\ DOMAIN sh.props \subseteq Props
  /\ IsFiniteSet(DOMAIN sh.props)
  /\ Range(sh.props) \subseteq Schemas

\* num: a number, or the length of a string.  A number is of kind "float" if
\* Int64 does not take it.
IsValue(v) ==
  /\ v.kind \in {"null", "bool", "integer", "float", "string", "list", "object"}
  /\ v.num \in Int /\ v.items \in Seq(Datas)
  /\ DOMAIN v.fields \subseteq Props /\ IsFiniteSet(DOMAIN v.fields)
  /\ Range(v.fields) \subseteq Datas

ASSUME ValidatorAssumption ==
  /\ \A s \in Schemas : IsShape(Shape[s])
  /\ \A d \in Datas : IsValue(Value[d])
  /\ Nothing \notin Schemas /\ MaxScans \in Nat

VARIABLES
  subject,  \* the schema and the value being validated
  stack,    \* the calls under way, the innermost last
  paths,    \* SchemaValidator.paths
  result,   \* what the innermost call returns, if it has come to that
  panicked, \* popPath has found another path on the stack
  scans     \* how often Validate was called
vars == <<subject, stack, paths, result, panicked, scans>>

\* A step of a path is a sequence of at most one element: pushPath and popPath
\* leave the stack alone when the path is "".
Item(i) == <<[item |-> i]>>
Field(p) == <<[field |-> p]>>
NoPath == <<>>

\* The calls: Scan of a schema, ScanParams, and the errors reported after a push
\* of their own ("absent") or at the end of ScanParams ("overlong").
Call(what, s, path, d) == [what |-> what, schema |-> s, path |-> path, data |-> d]
Scan(s, path, d) == Call("scan", s, path, d)

Ok == [done |-> TRUE, ok |-> TRUE, at |-> <<>>]
ErrorPos == [done |-> TRUE, ok |-> FALSE, at |-> paths]
Running == [done |-> FALSE, ok |-> TRUE, at |-> <<>>]

Init ==
  /\ subject = CHOOSE x \in Schemas \X Datas : TRUE \* of no use yet
  /\ stack = <<>> /\ paths = <<>> /\ result = Running
  /\ panicked = FALSE /\ scans = 0

KindOf(c) == IF c.what = "scan" THEN Shape[c.schema].kind ELSE c.what

-----------------------------------------------------------------------------
(* What a call finds wrong by itself, and which calls it makes.            *)

\* Mutant: an exclusive maximum is reached.
InclusiveRange(sh, v) ==
  \/ sh.max # Nothing /\ sh.max < v
  \/ sh.min # Nothing /\ (IF sh.exmin = TRUE THEN sh.min >= v ELSE sh.min > v)

\* checkRange of NumberSchema and IntegerSchema.
OutOfRange(sh, v) ==
  \/ sh.max # Nothing /\ (IF sh.exmax = TRUE THEN sh.max <= v ELSE sh.max < v)
  \/ sh.min # Nothing /\ (IF sh.exmin = TRUE THEN sh.min >= v ELSE sh.min > v)

\* The length of a tuple.
Uncovered(sh, n) == \/ n < Len(sh.sub)
                    \/ n > Len(sh.sub) /\ sh.extra = Nothing

WrongLength(sh, n) == \/ sh.max # Nothing /\ n > sh.max
                      \/ sh.min # Nothing /\ n < sh.min

ParamsOf(d) == IF "params" \in DOMAIN Value[d].fields
                 THEN Value[d].fields["params"] ELSE Nothing
IsList(d) == d # Nothing /\ Value[d].kind = "list"

\* The call fails before it calls anything.
Refuses(c) ==
  LET sh == Shape[c.schema]
      v == Value[c.data]
  IN CASE c.what \in {"absent", "overlong"} -> TRUE
       [] c.what = "params" -> Len(v.items) < Len(sh.sub)
       [] OTHER ->
         CASE sh.kind \in {"any", "anyOf", "allOf", "not"} -> FALSE
           [] sh.kind \in {"null", "bool"} -> v.kind # sh.kind
           [] sh.kind = "number" -> \/ v.kind \notin {"integer", "float"}
                                    \/ OutOfRange(sh, v.num)
           [] sh.kind = "integer" -> v.kind # "integer" \/ OutOfRange(sh, v.num)
           [] sh.kind = "string" -> v.kind # "string" \/ WrongLength(sh, v.num)
           [] sh.kind = "list" -> \/ v.kind # "list"
                                  \/ WrongLength(sh, Len(v.items))
           [] sh.kind = "tuple" -> \/ v.kind # "list"
                                   \/ Uncovered(sh, Len(v.items))
           [] sh.kind = "method" ->
                \/ v.kind # "object"
                \/ ~IsList(ParamsOf(c.data)) /\ "result" \notin DOMAIN v.fields
           [] sh.kind = "object" -> v.kind # "object"

\* The items of a tuple, or params: those that have a schema, then the others.
ItemCalls(sh, items) ==
  [i \in 1 .. Len(items) |->
     IF i <= Len(sh.sub) THEN Scan(sh.sub[i], Item(i - 1), items[i])
     ELSE Scan(sh.extra, Item(i - 1), items[i])]

ParamsCalls(s, d) ==
  LET sh == Shape[s]
      items == Value[d].items
  IN IF Len(items) > Len(sh.sub) /\ sh.extra = Nothing
     THEN ItemCalls(sh, SubSeq(items, 1, Len(sh.sub)))
            \o <<Call("overlong", s, NoPath, d)>>
     ELSE ItemCalls(sh, items)

\* The properties of the schema that are present or required, and the others if
\* there is a schema for them.
Known(s, d) == {p \in DOMAIN Shape[s].props :
                  p \in DOMAIN Value[d].fields \cup Shape[s].requires}
Other(s, d) == IF Shape[s].extra = Nothing THEN {}
               ELSE DOMAIN Value[d].fields \ DOMAIN Shape[s].props

PropCall(s, d, p) ==
  LET sh == Shape[s] IN
  IF p \notin DOMAIN Value[d].fields THEN Call("absent", s, Field(p), d)
  ELSE Scan(IF p \in DOMAIN sh.props THEN sh.props[p] ELSE sh.extra,
            Field(p), Value[d].fields[p])

Orders(S) == {o \in [1 .. Cardinality(S) -> S] : IsInjective(o)}
PropCalls(s, d, order) == [i \in DOMAIN order |-> PropCall(s, d, order[i])]

\* The sequences of calls a call may make: ranging over a map has no order.
Calls(c) ==
  LET s == c.schema
      d == c.data
      sh == Shape[s]
      v == Value[d]
      kind == KindOf(c)
  IN CASE kind = "params" -> {ParamsCalls(s, d)}
       [] kind \in {"anyOf", "allOf", "not"} ->
            {[i \in DOMAIN sh.sub |-> Scan(sh.sub[i], NoPath, d)]}
       [] kind = "list" ->
            {[i \in DOMAIN v.items |-> Scan(sh.sub[1], Item(i - 1), v.items[i])]}
       [] kind = "tuple" -> {ItemCalls(sh, v.items)}
       [] kind = "method" ->
            IF IsList(ParamsOf(d))
            THEN {<<Call("params", s, Field("params"), ParamsOf(d))>>}
            ELSE IF sh.returns = Nothing THEN {<<>>}
            ELSE {<<Scan(sh.returns, Field("result"), v.fields["result"])>>}
       [] kind = "object" ->
            {PropCalls(s, d, o1) \o PropCalls(s, d, o2) :
               o1 \in Orders(Known(s, d)), o2 \in Orders(Other(s, d))}
       [] OTHER -> {<<>>}

-----------------------------------------------------------------------------
(* The recursion.                                                          *)

Top == stack[Len(stack)]
Frame(c) == [call |-> c, started |-> FALSE, todo |-> <<>>]

\* Validate, with a validator that may have been used before.
Validate(s) ==
  /\ stack = <<>> /\ ~panicked /\ scans < MaxScans
  /\ \E d \in Datas :
       /\ subject' = <<s, d>>
       /\ stack' = <<Frame(Scan(s, NoPath, d))>>
  /\ result' = Running /\ scans' = scans + 1
  /\ UNCHANGED <<paths, panicked>>

\* The innermost call looks at its data.
Look ==
  /\ stack # <<>> /\ ~panicked /\ ~result.done /\ ~Top.started
  /\ IF Refuses(Top.call) THEN result' = ErrorPos /\ UNCHANGED stack
     ELSE /\ \E calls \in Calls(Top.call) :
               stack' = [stack EXCEPT ![Len(stack)].started = TRUE,
                                      ![Len(stack)].todo = calls]
          /\ UNCHANGED result
  /\ UNCHANGED <<subject, paths, panicked, scans>>

\* It makes its next call, with pushPath.
Descend ==
  /\ stack # <<>> /\ ~panicked /\ ~result.done /\ Top.started /\ Top.todo # <<>>
  /\ stack' = Append([stack EXCEPT ![Len(stack)].todo = Tail(@)],
                     Frame(Head(Top.todo)))
  /\ paths' = paths \o Head(Top.todo).path
  /\ UNCHANGED <<subject, result, panicked, scans>>

\* It has made all its calls.
Finish ==
  /\ stack # <<>> /\ ~panicked /\ ~result.done /\ Top.started /\ Top.todo = <<>>
  /\ result' = IF KindOf(Top.call) = "anyOf" THEN ErrorPos ELSE Ok
  /\ UNCHANGED <<subject, stack, paths, panicked, scans>>

\* Mutant: an error is returned without popPath.
PopUnlessError(path) == IF result.ok THEN SubSeq(paths, 1, Len(paths) - Len(path)) ELSE paths

Pop(path) == SubSeq(paths, 1, Len(paths) - Len(path))

\* It returns: popPath, then the caller goes on or returns in its turn.  An anyOf
\* goes on after an error, others after a success; a not turns the result over.
Return ==
  LET rest == Front(stack)
      path == Top.call.path
      caller == IF rest = <<>> THEN "nobody" ELSE KindOf(Last(rest).call)
  IN
  /\ stack # <<>> /\ ~panicked /\ result.done
  /\ panicked' = ~IsSuffix(path, paths)
  /\ stack' = rest
  /\ paths' = IF panicked' THEN paths ELSE Pop(path)
  /\ result' = CASE caller = "anyOf" /\ ~result.ok -> Running
                 [] caller = "not" -> IF result.ok THEN [ErrorPos EXCEPT !.at = paths'] ELSE Ok
                 [] caller \notin {"anyOf", "not", "nobody"} /\ result.ok -> Running
                 [] OTHER -> result
  /\ UNCHANGED <<subject, scans>>

Next == (\E s \in Schemas : Validate(s)) \/ Look \/ Descend \/ Finish \/ Return

Spec == Init /\ [][Next]_vars

-----------------------------------------------------------------------------
(* Properties.                                                             *)

\* Where a value does not fit a schema, as paths: nowhere if it fits.
Here(wrong) == IF wrong THEN {<<>>} ELSE {}
Below(path, places) == {path \o p : p \in places}

Outside(sh, n) ==
  \/ sh.max # Nothing /\ (n > sh.max \/ (sh.exmax = TRUE /\ n = sh.max))
  \/ sh.min # Nothing /\ (n < sh.min \/ (sh.exmin = TRUE /\ n = sh.min))

\* Given the faults of the schemas inside sh: those of a tuple's items or of params,
Cover(sh, i) == IF i <= Len(sh.sub) THEN sh.sub[i] ELSE sh.extra
FaultsOfItems(faults, sh, items) ==
  LET n == Len(items) IN
  Here(n < Len(sh.sub) \/ (n > Len(sh.sub) /\ sh.extra = Nothing))
    \cup UNION {Below(Item(i - 1), faults[<<Cover(sh, i), items[i]>>]) :
                  i \in {j \in 1 .. n : Cover(sh, j) # Nothing}}

\* of an object's properties,
FaultsOfFields(faults, sh, fields) ==
  {Field(p) : p \in sh.requires \ DOMAIN fields}
    \cup (UNION {Below(Field(p), faults[<<sh.props[p], fields[p]>>]) :
                   p \in DOMAIN sh.props \cap DOMAIN fields})
    \cup (IF sh.extra = Nothing THEN {}
          ELSE UNION {Below(Field(p), faults[<<sh.extra, fields[p]>>]) :
                        p \in DOMAIN fields \ DOMAIN sh.props})

\* of a message,
FaultsOfMessage(faults, sh, d) ==
  LET fields == Value[d].fields IN
  IF IsList(ParamsOf(d))
    THEN Below(Field("params"), FaultsOfItems(faults, sh, Value[ParamsOf(d)].items))
  ELSE IF "result" \notin DOMAIN fields THEN {<<>>}
  ELSE IF sh.returns = Nothing THEN {}
  ELSE Below(Field("result"), faults[<<sh.returns, fields["result"]>>])

\* and of any value.
FaultsOf(faults, sh, d) ==
  LET v == Value[d] IN
  CASE sh.kind = "any" -> {}
    [] sh.kind = "anyOf" -> Here(\A i \in DOMAIN sh.sub : faults[<<sh.sub[i], d>>] # {})
    [] sh.kind = "allOf" -> UNION {faults[<<sh.sub[i], d>>] : i \in DOMAIN sh.sub}
    [] sh.kind = "not" -> Here(faults[<<sh.sub[1], d>>] = {})
    [] sh.kind = "number" /\ v.kind \in {"integer", "float"} -> Here(Outside(sh, v.num))
    [] sh.kind \in {"integer", "string"} /\ v.kind = sh.kind -> Here(Outside(sh, v.num))
    [] sh.kind = "list" /\ v.kind = "list" ->
         Here(Outside(sh, Len(v.items)))
           \cup UNION {Below(Item(i - 1), faults[<<sh.sub[1], v.items[i]>>]) :
                         i \in DOMAIN v.items}
    [] sh.kind = "tuple" /\ v.kind = "list" -> FaultsOfItems(faults, sh, v.items)
    [] sh.kind = "object" /\ v.kind = "object" -> FaultsOfFields(faults, sh, v.fields)
    [] sh.kind = "method" /\ v.kind = "object" -> FaultsOfMessage(faults, sh, d)
    [] OTHER -> Here(sh.kind # v.kind)
FaultsBy(faults, s, d) == FaultsOf(faults, Shape[s], d)

Faults ==
  LET faults[x \in Schemas \X Datas] == FaultsBy(faults, x[1], x[2]) IN faults

Over == scans > 0 /\ stack = <<>>

\* The paths are those of the calls under way, so popPath (which panics if not)
\* finds its own, and the next validation begins with an empty stack.
PathsBalanced ==
  /\ paths = FlattenSeq([i \in DOMAIN stack |-> stack[i].call.path])
  /\ ~panicked

\* Validate accepts a value if and only if it fits the schema, whatever errors of
\* choices it has met and dropped on the way, and the path of its error is the
\* place of a fault.
VerdictRight ==
  Over => IF Faults[subject] = {} THEN result.ok
          ELSE ~result.ok /\ result.at \in Faults[subject]
=============================================================================
