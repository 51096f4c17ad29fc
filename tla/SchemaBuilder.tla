---------------------------- MODULE SchemaBuilder ----------------------------
(***************************************************************************)
(* How a schema is built from a JSON document (schema/builder.go and       *)
(* schema/convert.go), what document it shows of itself (Map, by way of    *)
(* SchemaToString), and the validation (SchemaValidator) of data against   *)
(* what was built.                                                         *)
(*                                                                         *)
(* Names and descriptions of schemas are left out, but for the check that  *)
(* they are strings.                                                       *)
(*                                                                         *)
(* Building and Map are recursive; the methods that call buildNode or Map  *)
(* take the function that does the recursion as their first argument.      *)
(***************************************************************************)
EXTENDS SchemaValidator

CONSTANTS
  Documents, \* what a program may read
  Json       \* these, what is inside them, and what schemas show of themselves

\* A document: a string, an int, a frac (a number that is no integer), a flag (a
\* boolean), a map or a list.
Document(is, text, num, items, attrs) ==
  [is |-> is, text |-> text, num |-> num, items |-> items, attrs |-> attrs]
None == [attr \in {} |-> 0]
String(text) == Document("string", text, 0, <<>>, None)
Int_(n) == Document("int", "", n, <<>>, None)
Frac(n) == Document("frac", "", n, <<>>, None)
Flag(b) == Document("flag", "", IF b THEN 1 ELSE 0, <<>>, None)
List_(items) == Document("list", "", 0, items, None)
Map_(attrs) == Document("map", "", 0, <<>>, attrs)

IsDocument(doc) ==
  /\ doc.is \in {"string", "int", "frac", "flag", "map", "list"}
  /\ doc.is # "string" => doc.text = ""
  /\ doc.num \in Int /\ doc.items \in Seq(Json) /\ Range(doc.attrs) \subseteq Json

\* Maps of attributes.
One(attr, doc) == [a \in {attr} |-> doc]
Merge(f, g) == [a \in DOMAIN f \cup DOMAIN g |-> IF a \in DOMAIN f THEN f[a] ELSE g[a]]

Plain(kind) == [kind |-> kind, min |-> Nothing, max |-> Nothing, exmin |-> Nothing,
                exmax |-> Nothing, sub |-> <<>>, extra |-> Nothing, returns |-> Nothing,
                props |-> None, requires |-> {}]
Failed == Plain("build error")

-----------------------------------------------------------------------------
(* Converters.  A document is looked at as a map of attributes, in which a *)
(* type that is missing is guessed.                                        *)

Guess == [params |-> "method", properties |-> "object", anyOf |-> "anyOf",
          allOf |-> "allOf", not |-> "not"]

Hints == <<"params", "properties", "anyOf", "allOf", "not">>

\* Mutant: a not is not recognized.
HintsButNot(attrs) == {i \in 1 .. 4 : Hints[i] \in DOMAIN attrs}

HintsIn(attrs) == {i \in 1 .. 5 : Hints[i] \in DOMAIN attrs}

Typed(attrs) ==
  IF "type" \in DOMAIN attrs \/ HintsIn(attrs) = {} THEN attrs
  ELSE Merge(attrs, One("type", String(Guess[Hints[Min(HintsIn(attrs))]])))

\* convertTypeMap succeeds, and what it returns.
Converts(doc) ==
  \/ doc.is = "map"
  \/ doc.is = "string" /\ doc.text \in {"string", "number", "integer", "bool", "null"}
TypeMap(doc) == IF doc.is = "map" THEN Typed(doc.attrs) ELSE [type |-> doc]

Is(node, attr, what) == attr \in DOMAIN node /\ node[attr].is \in what

\* A bound that is not a number is no bound.
AttrInt(node, attr) == IF Is(node, attr, {"int"}) THEN node[attr].num ELSE Nothing
AttrFloat(node, attr) == IF Is(node, attr, {"int", "frac"}) THEN node[attr].num ELSE Nothing
AttrBool(node, attr) == IF Is(node, attr, {"flag"}) THEN node[attr].num = 1 ELSE Nothing
AttrLength(node, attr) ==
  IF Is(node, attr, {"int"}) /\ node[attr].num >= 0 THEN node[attr].num ELSE Nothing

ListOfMaps(node, attr) ==
  Is(node, attr, {"list"}) /\ \A i \in DOMAIN node[attr].items : Converts(node[attr].items[i])

\* convertAttrMapOfMap: what is no map counts as absent; the map itself is
\* converted, too, and may get a type.
Members(node) ==
  IF "properties" \in DOMAIN node /\ Converts(node["properties"])
  THEN TypeMap(node["properties"]) ELSE None

-----------------------------------------------------------------------------
(* Building.                                                               *)

\* No schema that a schema is built from has failed.
Whole(s) ==
  IF \/ \E i \in DOMAIN s.sub : s.sub[i] = Failed
     \/ \E p \in DOMAIN s.props : s.props[p] = Failed
     \/ Failed \in {s.extra, s.returns}
  THEN Failed ELSE s

\* buildMixin.
Mixin(node, s) ==
  IF \A attr \in {"name", "description"} \cap DOMAIN node : node[attr].is = "string"
  THEN s ELSE Failed

\* A number or an integer, whose bounds are read differently.
buildNumberSchema(node, maximum, minimum) ==
  [Plain(node["type"].text) EXCEPT
     !.max = maximum, !.min = minimum,
     !.exmax = AttrBool(node, "exclusiveMaximum"),
     !.exmin = AttrBool(node, "exclusiveMinimum")]

buildStringSchema(node) ==
  [Plain("string") EXCEPT !.max = AttrLength(node, "maxLength"),
                          !.min = AttrLength(node, "minLength")]

Additional(build, node, attr) == IF attr \in DOMAIN node THEN build[node[attr]] ELSE Nothing
Each(f, items) == [i \in DOMAIN items |-> f[items[i]]]

buildListSchema(build, node) ==
  CASE "items" \notin DOMAIN node -> Failed
    [] Is(node, "items", {"list"}) ->
         [Plain("tuple") EXCEPT !.sub = Each(build, node["items"].items),
                                !.extra = Additional(build, node, "additionalItems")]
    [] OTHER ->
         [Plain("list") EXCEPT !.sub = <<build[node["items"]]>>,
                               !.max = AttrLength(node, "maxItems"),
                               !.min = AttrLength(node, "minItems")]

\* anyOf and allOf.
buildChoices(build, node, attr) ==
  IF ListOfMaps(node, attr) THEN [Plain(attr) EXCEPT !.sub = Each(build, node[attr].items)]
  ELSE Failed

buildNotSchema(build, node) ==
  IF "not" \in DOMAIN node THEN [Plain("not") EXCEPT !.sub = <<build[node["not"]]>>]
  ELSE Failed

\* A result of which nothing is said may be anything.
buildReturns(build, node) ==
  CASE "returns" \notin DOMAIN node -> Plain("any")
    [] "returns" \in DOMAIN node /\ ~Converts(node["returns"]) -> Nothing
    [] OTHER -> IF "type" \in DOMAIN TypeMap(node["returns"]) THEN build[node["returns"]]
                ELSE Mixin(node["returns"].attrs, Plain("any"))

buildMethodSchema(build, node) ==
  IF ListOfMaps(node, "params")
  THEN [Plain("method") EXCEPT !.sub = Each(build, node["params"].items),
                               !.extra = Additional(build, node, "additionalParams"),
                               !.returns = buildReturns(build, node)]
  ELSE Failed

RequiredNames(node) ==
  IF "requires" \notin DOMAIN node THEN {}
  ELSE {node["requires"].items[i].text : i \in DOMAIN node["requires"].items}

buildObjectSchema(build, node) ==
  LET members == Members(node) IN
  IF \/ \E p \in DOMAIN members : ~Converts(members[p])
     \/ "requires" \in DOMAIN node /\
          \/ node["requires"].is # "list"
          \/ \E i \in DOMAIN node["requires"].items : node["requires"].items[i].is # "string"
     \/ ~RequiredNames(node) \subseteq DOMAIN members
  THEN Failed
  ELSE [Plain("object") EXCEPT
          !.props = [p \in DOMAIN members |-> build[members[p]]],
          !.requires = RequiredNames(node),
          !.extra = Additional(build, node, "additionalProperties")]

buildNodeMap(build, node) ==
  LET type == IF Is(node, "type", {"string"}) THEN node["type"].text ELSE "unknown"
      schema ==
        CASE type = "number" -> buildNumberSchema(node, AttrFloat(node, "maximum"), AttrFloat(node, "minimum"))
          [] type = "integer" -> buildNumberSchema(node, AttrInt(node, "maximum"), AttrInt(node, "minimum"))
          [] type \in {"bool", "any", "null"} -> Plain(type)
          [] type = "string" -> buildStringSchema(node)
          [] type \in {"anyOf", "allOf"} -> buildChoices(build, node, type)
          [] type = "not" -> buildNotSchema(build, node)
          [] type = "list" -> buildListSchema(build, node)
          [] type = "object" -> buildObjectSchema(build, node)
          [] type = "method" -> buildMethodSchema(build, node)
          [] OTHER -> Failed
  IN Mixin(node, Whole(schema))

Build(build, doc) == IF Converts(doc) THEN buildNodeMap(build, TypeMap(doc)) ELSE Failed
Builds(docs) == LET build[doc \in docs] == Build(build, doc) IN build
buildNode == Builds(Json)

\* Equal, of schemas of one kind, goes through all fields and down the tree.
Equal(s, other) == s = other

-----------------------------------------------------------------------------
(* Map, as JSON.  Of strings and lists the bounds are not shown, of tuples *)
(* the schema of additional items.                                         *)

\* An attribute that is shown if there is something to show.
Optional(attr, x, doc) == IF x = Nothing THEN None ELSE One(attr, doc)

\* Mutant: whether a limit is exclusive is not shown.
BareLimit(attr, bound, exattr, ex) == Optional(attr, bound, Int_(bound))

Limit(attr, bound, exattr, ex) ==
  IF bound = Nothing THEN None
  ELSE Merge(One(attr, Int_(bound)), Optional(exattr, ex, Flag(ex)))

Attributes(map, s) ==
  LET all == List_(Each(map, s.sub)) IN
  CASE s.kind \in {"number", "integer"} ->
         Merge(Limit("maximum", s.max, "exclusiveMaximum", s.exmax),
               Limit("minimum", s.min, "exclusiveMinimum", s.exmin))
    [] s.kind \in {"anyOf", "allOf"} -> One(s.kind, all)
    [] s.kind = "not" -> One("not", map[s.sub[1]])
    [] s.kind = "list" -> One("items", map[s.sub[1]])
    [] s.kind = "tuple" -> One("items", all)
    [] s.kind = "method" ->
         Merge(One("params", all),
               Merge(Optional("returns", s.returns, map[s.returns]),
                     Optional("additionalParams", s.extra, map[s.extra])))
    [] s.kind = "object" ->
         Merge([properties |-> Map_([p \in DOMAIN s.props |-> map[s.props[p]]]),
                requires |-> List_(SetToSeq({String(p) : p \in s.requires}))],
               Optional("additionalProperties", s.extra, map[s.extra]))
    [] OTHER -> None

Show(map, s) ==
  Map_(Merge(One("type", String(IF s.kind = "tuple" THEN "list" ELSE s.kind)),
             Attributes(map, s)))
Shows(schemas) == LET map[s \in schemas] == Show(map, s) IN map
Map == Shows(Schemas)

\* Schemas are what the documents describe, and what they show is a document.
ASSUME BuilderAssumption ==
  /\ Documents \subseteq Json /\ \A doc \in Json : IsDocument(doc)
  /\ Schemas = {buildNode[doc] : doc \in Json} \ {Failed}
  /\ Nothing \notin {Failed, Plain("any")}
  /\ \A s \in Schemas : Shape[s] = s /\ Map[s] \in Json

-----------------------------------------------------------------------------
(* A program reads a document, and validates data with what it has built.  *)

VARIABLE document

Read ==
  /\ stack = <<>>
  /\ document' \in Documents
  /\ UNCHANGED vars

ValidateBuilt ==
  LET s == buildNode[document] IN s # Failed /\ Validate(s) /\ UNCHANGED document

BuilderInit == Init /\ document \in Documents
BuilderNext ==
  \/ Read
  \/ ValidateBuilt
  \/ (Look \/ Descend \/ Finish \/ Return) /\ UNCHANGED document

BuilderSpec == BuilderInit /\ [][BuilderNext]_<<vars, document>>

-----------------------------------------------------------------------------
(* Properties.                                                             *)

\* Which documents describe a schema.
Named(attrs) == \A attr \in DOMAIN attrs \cap {"name", "description"} : attrs[attr].is = "string"

TypeOf(attrs) ==
  LET given == DOMAIN attrs IN
  CASE "type" \in given -> attrs["type"].text
    [] "type" \notin given /\ "params" \in given -> "method"
    [] "type" \notin given /\ given \cap DOMAIN Guess = {"not"} -> "not"
    [] "type" \notin given /\ {"params", "properties"} \cap given = {}
         /\ {"anyOf", "allOf"} \cap given # {} ->
         IF "anyOf" \in given THEN "anyOf" ELSE "allOf"
    [] "type" \notin given /\ given \cap DOMAIN Guess = {} -> "unknown"
    [] OTHER -> "object"

\* Given which documents inside it do:
AllGood(good, list) == list.is = "list" /\ \A i \in DOMAIN list.items : good[list.items[i]]
IfGiven(good, attrs, attr) == attr \in DOMAIN attrs => good[attrs[attr]]

DescribesList(good, attrs) ==
  /\ "items" \in DOMAIN attrs
  /\ \/ AllGood(good, attrs["items"]) /\ IfGiven(good, attrs, "additionalItems")
     \/ good[attrs["items"]]

\* returns counts for nothing, if it is no type.
DescribesMethod(good, attrs) ==
  /\ "params" \in DOMAIN attrs /\ AllGood(good, attrs["params"])
  /\ IfGiven(good, attrs, "additionalParams")
  /\ "returns" \in DOMAIN attrs =>
       LET what == attrs["returns"] IN
       \/ what.is # "map" \/ good[what]
       \/ Named(what.attrs) /\ DOMAIN what.attrs \cap (DOMAIN Guess \cup {"type"}) = {}

DescribesObject(good, attrs) ==
  LET props == IF "properties" \in DOMAIN attrs THEN attrs["properties"] ELSE Map_(None)
      names == IF props.is = "map" THEN DOMAIN props.attrs
               ELSE IF good[props] THEN {"type"} ELSE {}
      required == IF "requires" \in DOMAIN attrs THEN attrs["requires"] ELSE List_(<<>>)
  IN
  /\ props.is = "map" =>
       /\ \A p \in names : good[props.attrs[p]]
       /\ names \cap DOMAIN Guess # {} => "type" \in names
  /\ required.is = "list"
  /\ \A i \in DOMAIN required.items :
       required.items[i].is = "string" /\ required.items[i].text \in names
  /\ IfGiven(good, attrs, "additionalProperties")

WellFormedBy(good, doc) ==
  LET attrs == doc.attrs
      type == TypeOf(attrs)
  IN
  \/ doc.is = "string" /\ doc.text \in {"null", "bool", "integer", "number", "string"}
  \/ /\ doc.is = "map" /\ Named(attrs)
     /\ CASE type \in {"any", "null", "bool", "integer", "number", "string"} -> TRUE
          [] type \in {"anyOf", "allOf"} -> type \in DOMAIN attrs /\ AllGood(good, attrs[type])
          [] type = "not" -> "not" \in DOMAIN attrs /\ good[attrs["not"]]
          [] type = "list" -> DescribesList(good, attrs)
          [] type = "method" -> DescribesMethod(good, attrs)
          [] type = "object" -> DescribesObject(good, attrs)
          [] OTHER -> FALSE

WellFormed == LET good[doc \in Json] == WellFormedBy(good, doc) IN good

\* A document is refused if and only if it describes no schema: what is wrong
\* somewhere inside makes the whole fail, and guessed types are guessed alike
\* everywhere.  An object that has a property named params, properties, anyOf,
\* allOf or not, but none named type, is refused: the map of properties is taken
\* for a schema and given a type (convert.go:27).
RefusesIllFormed == buildNode[document] # Failed <=> WellFormed[document]

\* What Map does not show, given which schemas inside have such a part.
HidesBy(hides, s) ==
  \/ s.kind \in {"string", "list"} /\ {s.min, s.max} # {Nothing}
  \/ s.kind = "tuple" /\ s.extra # Nothing
  \/ s.kind = "method" /\ s.returns = Nothing \* which is read as any result
  \/ s.exmin # Nothing /\ s.min = Nothing
  \/ s.exmax # Nothing /\ s.max = Nothing
  \/ \E i \in DOMAIN s.sub : hides[s.sub[i]]
  \/ \E p \in DOMAIN s.props : hides[s.props[p]]
  \/ \E x \in {s.extra, s.returns} \ {Nothing} : hides[x]

Hides == LET hides[s \in Schemas] == HidesBy(hides, s) IN hides

\* From what a schema shows of itself an equal schema can be built again, if
\* nothing in it has a part that is not shown; and always some schema, of its kind.
ShownAsBuilt ==
  LET s == buildNode[document]
      again == buildNode[Map[s]]
  IN s # Failed => again.kind = s.kind /\ (Equal(again, s) <=> ~Hides[s])
=============================================================================
