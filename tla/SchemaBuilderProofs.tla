------------------------- MODULE SchemaBuilderProofs -------------------------
(***************************************************************************)
(* Proofs about SchemaBuilder, for any documents that are finite trees.    *)
(***************************************************************************)
EXTENDS SchemaBuilder, SchemaValidatorProofs

-----------------------------------------------------------------------------
(* Trees.                                                                  *)

\* What a document is made of, and what is read of it when a schema is built: two
\* levels of that.
Parts(doc) == Range(doc.items) \cup Range(doc.attrs)
Within(doc) == Parts(doc) \cup UNION {Parts(part) : part \in Parts(doc)}

\* A document is made of documents that were there before it.
DocumentsAreTrees ==
  \A D \in SUBSET Json : D # {} => \E doc \in D : Parts(doc) \cap D = {}

LEMMA PartsAre ==
  ASSUME NEW doc \in Json
  PROVE  /\ IsDocument(doc) /\ Parts(doc) \subseteq Json
         /\ \A i \in DOMAIN doc.items : doc.items[i] \in Parts(doc)
         /\ \A a \in DOMAIN doc.attrs : doc.attrs[a] \in Parts(doc)
<1>1. IsDocument(doc)
  BY BuilderAssumption
<1>2. Range(doc.items) \subseteq Json
  <2>1. doc.items \in Seq(Json) /\ DOMAIN doc.items = 1 .. Len(doc.items)
    BY <1>1, LenProperties DEF IsDocument
  <2>2. \A i \in 1 .. Len(doc.items) : doc.items[i] \in Json
    BY <2>1, ElementOfSeq
  <2>3. QED
    BY <2>1, <2>2 DEF Range
<1>3. QED
  BY <1>1, <1>2 DEF IsDocument, Parts, Range

LEMMA WithinAre ==
  ASSUME NEW doc \in Json
  PROVE  /\ Within(doc) \subseteq Json /\ Parts(doc) \subseteq Within(doc)
         /\ \A part \in Parts(doc) : Parts(part) \subseteq Within(doc)
<1>1. \A part \in Parts(doc) : Parts(part) \subseteq Json
  BY PartsAre
<1>2. QED
  BY <1>1, PartsAre DEF Within

LEMMA WithinTrees ==
  ASSUME DocumentsAreTrees, NEW D \in SUBSET Json, D # {}
  PROVE  \E doc \in D : Within(doc) \cap D = {}
<1> PICK E : E = D \cup {e \in Json : Parts(e) \cap D # {}}
  OBVIOUS
<1>1. PICK doc \in E : Parts(doc) \cap E = {}
  BY DEF DocumentsAreTrees
<1>2. doc \in D
  BY <1>1
<1>3. ASSUME NEW part \in Parts(doc) PROVE Parts(part) \cap D = {}
  <2>1. part \in Json
    BY <1>2, PartsAre
  <2>2. QED
    BY <1>1, <2>1
<1>4. QED
  BY <1>1, <1>2, <1>3 DEF Within

-----------------------------------------------------------------------------
(* What is looked at: a map of attributes.                                 *)

LEMMA MergeIs ==
  ASSUME NEW f, NEW g
  PROVE  /\ DOMAIN Merge(f, g) = DOMAIN f \cup DOMAIN g
         /\ \A a \in DOMAIN f : Merge(f, g)[a] = f[a]
         /\ \A a \in DOMAIN g : a \notin DOMAIN f => Merge(f, g)[a] = g[a]
  BY DEF Merge

LEMMA OneIs ==
  ASSUME NEW a, NEW doc
  PROVE  DOMAIN One(a, doc) = {a} /\ One(a, doc)[a] = doc
  BY DEF One

LEMMA OneMerge ==
  ASSUME NEW a, NEW doc, NEW f
  PROVE  a \in DOMAIN Merge(One(a, doc), f) /\ Merge(One(a, doc), f)[a] = doc
  BY DEF Merge, One

LEMMA StringIs ==
  ASSUME NEW text
  PROVE  String(text).is = "string" /\ String(text).text = text
  BY DEF String, Document

\* The first hint.
LEMMA FirstHint ==
  ASSUME NEW attrs, HintsIn(attrs) # {}
  PROVE  \E i \in HintsIn(attrs) : /\ i = Min(HintsIn(attrs))
                                   /\ \A j \in HintsIn(attrs) : i <= j
<1>1. HintsIn(attrs) \in SUBSET Nat
  BY DEF HintsIn
<1>2. PICK i \in HintsIn(attrs) : \A j \in HintsIn(attrs) : i <= j
  BY <1>1, LeastNatural
<1>3. QED
  BY <1>2 DEF Min

\* The type that is guessed: that of a schema made of others.
LEMMA GuessIs ==
  ASSUME NEW attrs, "type" \notin DOMAIN attrs, HintsIn(attrs) # {}
  PROVE  LET guess == Guess[Hints[Min(HintsIn(attrs))]] IN
         /\ guess \in {"method", "object", "anyOf", "allOf", "not"}
         /\ TypeOf(attrs) = guess
<1>1. PICK i \in HintsIn(attrs) : i = Min(HintsIn(attrs)) /\ \A j \in HintsIn(attrs) : i <= j
  BY FirstHint
<1>2. /\ Hints[1] = "params" /\ Hints[2] = "properties" /\ Hints[3] = "anyOf"
      /\ Hints[4] = "allOf" /\ Hints[5] = "not"
  BY DEF Hints
<1>3. \A j \in 1 .. 5 : j \in HintsIn(attrs) <=> Hints[j] \in DOMAIN attrs
  BY DEF HintsIn
<1>4. i \in 1 .. 5
  BY DEF HintsIn
<1>5. DOMAIN Guess = {"params", "properties", "anyOf", "allOf", "not"}
  BY DEF Guess
<1>6. CASE i = 1
  <2>1. "params" \in DOMAIN attrs /\ Guess[Hints[i]] = "method"
    BY <1>2, <1>3, <1>6 DEF Guess
  <2>2. QED
    BY <1>1, <1>5, <2>1 DEF TypeOf
<1>7. CASE i = 2
  <2>1. "params" \notin DOMAIN attrs
    <3>1. 1 \notin HintsIn(attrs)
      BY <1>1, <1>7
    <3>2. QED
      BY <1>2, <1>3, <3>1
  <2>2. "properties" \in DOMAIN attrs /\ Guess[Hints[i]] = "object"
    BY <1>2, <1>3, <1>7 DEF Guess
  <2>3. QED
    BY <1>1, <1>5, <2>1, <2>2 DEF TypeOf
<1>8. CASE i = 3
  <2>1. "params" \notin DOMAIN attrs /\ "properties" \notin DOMAIN attrs
    <3>1. 1 \notin HintsIn(attrs) /\ 2 \notin HintsIn(attrs)
      BY <1>1, <1>8
    <3>2. QED
      BY <1>2, <1>3, <3>1
  <2>2. "anyOf" \in DOMAIN attrs /\ Guess[Hints[i]] = "anyOf"
    BY <1>2, <1>3, <1>8 DEF Guess
  <2>3. QED
    BY <1>1, <1>5, <2>1, <2>2 DEF TypeOf
<1>9. CASE i = 4
  <2>1. "params" \notin DOMAIN attrs /\ "properties" \notin DOMAIN attrs /\ "anyOf" \notin DOMAIN attrs
    <3>1. 1 \notin HintsIn(attrs) /\ 2 \notin HintsIn(attrs) /\ 3 \notin HintsIn(attrs)
      BY <1>1, <1>9
    <3>2. QED
      BY <1>2, <1>3, <3>1
  <2>2. "allOf" \in DOMAIN attrs /\ Guess[Hints[i]] = "allOf"
    BY <1>2, <1>3, <1>9 DEF Guess
  <2>3. QED
    BY <1>1, <1>5, <2>1, <2>2 DEF TypeOf
<1>10. CASE i = 5
  <2>1. /\ "params" \notin DOMAIN attrs /\ "properties" \notin DOMAIN attrs
        /\ "anyOf" \notin DOMAIN attrs /\ "allOf" \notin DOMAIN attrs
    <3>1. /\ 1 \notin HintsIn(attrs) /\ 2 \notin HintsIn(attrs) /\ 3 \notin HintsIn(attrs)
          /\ 4 \notin HintsIn(attrs)
      BY <1>1, <1>10
    <3>2. QED
      BY <1>2, <1>3, <3>1
  <2>2. "not" \in DOMAIN attrs /\ Guess[Hints[i]] = "not"
    BY <1>2, <1>3, <1>10 DEF Guess
  <2>3. DOMAIN attrs \cap DOMAIN Guess = {"not"}
    BY <1>5, <2>1, <2>2
  <2>4. QED
    BY <1>1, <2>1, <2>2, <2>3 DEF TypeOf
<1>11. QED
  BY <1>4, <1>6, <1>7, <1>8, <1>9, <1>10

\* A map of attributes, with its type.
LEMMA TypedIs ==
  ASSUME NEW attrs
  PROVE  /\ DOMAIN attrs \subseteq DOMAIN Typed(attrs)
         /\ DOMAIN Typed(attrs) \subseteq DOMAIN attrs \cup {"type"}
         /\ \A a \in DOMAIN attrs : Typed(attrs)[a] = attrs[a]
         /\ "type" \in DOMAIN attrs \/ HintsIn(attrs) = {} => Typed(attrs) = attrs
         /\ "type" \notin DOMAIN attrs /\ HintsIn(attrs) # {} =>
              /\ DOMAIN Typed(attrs) = DOMAIN attrs \cup {"type"}
              /\ Typed(attrs)["type"] = String(Guess[Hints[Min(HintsIn(attrs))]])
<1>1. CASE "type" \in DOMAIN attrs \/ HintsIn(attrs) = {}
  <2>1. Typed(attrs) = attrs
    BY <1>1 DEF Typed
  <2>2. QED
    BY <1>1, <2>1
<1>2. CASE "type" \notin DOMAIN attrs /\ HintsIn(attrs) # {}
  <2> PICK type : type = String(Guess[Hints[Min(HintsIn(attrs))]])
    OBVIOUS
  <2>1. Typed(attrs) = Merge(attrs, One("type", type))
    BY <1>2 DEF Typed
  <2> PICK one : one = One("type", type)
    OBVIOUS
  <2>2. DOMAIN one = {"type"} /\ one["type"] = type
    BY OneIs
  <2>3. /\ DOMAIN Merge(attrs, one) = DOMAIN attrs \cup {"type"}
        /\ \A a \in DOMAIN attrs : Merge(attrs, one)[a] = attrs[a]
        /\ Merge(attrs, one)["type"] = type
    BY ONLY <1>2, <2>2 DEF Merge
  <2>4. Typed(attrs) = Merge(attrs, one)
    BY <2>1
  <2>5. QED
    BY ONLY <1>2, <2>3, <2>4, type = String(Guess[Hints[Min(HintsIn(attrs))]])
<1>3. QED
  BY <1>1, <1>2

LEMMA NodeIs ==
  ASSUME NEW doc \in Json, Converts(doc)
  PROVE  /\ doc.is \in {"map", "string"}
         /\ doc.is = "map" => TypeMap(doc) = Typed(doc.attrs)
         /\ doc.is = "string" =>
              TypeMap(doc) = [type |-> doc] /\ DOMAIN TypeMap(doc) = {"type"} /\ TypeMap(doc)["type"] = doc
         /\ \A a \in DOMAIN TypeMap(doc) : a # "type" =>
              /\ a \in DOMAIN doc.attrs /\ TypeMap(doc)[a] = doc.attrs[a]
              /\ TypeMap(doc)[a] \in Parts(doc)
<1>1. doc.is \in {"map", "string"}
  BY DEF Converts
<1>2. CASE doc.is = "map"
  <2>1. TypeMap(doc) = Typed(doc.attrs)
    BY <1>2 DEF TypeMap
  <2>2. \A a \in DOMAIN Typed(doc.attrs) : a # "type" =>
          a \in DOMAIN doc.attrs /\ Typed(doc.attrs)[a] = doc.attrs[a]
    <3> PICK given : given = doc.attrs
      OBVIOUS
    <3>1. DOMAIN Typed(given) \subseteq DOMAIN given \cup {"type"}
      BY ONLY TypedIs
    <3>2. \A a \in DOMAIN given : Typed(given)[a] = given[a]
      BY ONLY TypedIs
    <3>3. \A a \in DOMAIN Typed(given) : a # "type" =>
            a \in DOMAIN given /\ Typed(given)[a] = given[a]
      BY ONLY <3>1, <3>2
    <3>4. QED
      BY ONLY <3>3, given = doc.attrs
  <2>3. \A a \in DOMAIN doc.attrs : doc.attrs[a] \in Parts(doc)
    BY PartsAre
  <2>4. doc.is # "string"
    BY <1>2
  <2>5. QED
    BY ONLY <1>1, <1>2, <2>1, <2>2, <2>3, <2>4
<1>3. CASE doc.is = "string"
  BY <1>3 DEF TypeMap
<1>4. QED
  BY <1>1, <1>2, <1>3

\* Two functions are the same for all that a schema is built from.
SameFor(g, h, doc) == g[doc] = h[doc]
SameIn(g, h, doc) ==
  /\ \A i \in DOMAIN doc.items : g[doc.items[i]] = h[doc.items[i]]
  /\ \A a \in DOMAIN doc.attrs : g[doc.attrs[a]] = h[doc.attrs[a]]
Reads(g, h, node) ==
  \A a \in DOMAIN node : a # "type" => g[node[a]] = h[node[a]] /\ SameIn(g, h, node[a])

Same(g, h, doc) == \A part \in Within(doc) : g[part] = h[part]

LEMMA SameReads ==
  ASSUME NEW doc \in Json, NEW g, NEW h, Same(g, h, doc)
  PROVE  /\ \A part \in Parts(doc) : g[part] = h[part] /\ SameIn(g, h, part)
         /\ Converts(doc) => Reads(g, h, TypeMap(doc))
<1>1. ASSUME NEW part \in Parts(doc) PROVE g[part] = h[part] /\ SameIn(g, h, part)
  <2>1. part \in Json
    BY PartsAre
  <2>2. part \in Within(doc) /\ Parts(part) \subseteq Within(doc)
    BY WithinAre
  <2>3. QED
    BY <2>1, <2>2, PartsAre DEF Same, SameIn
<1>2. QED
  BY <1>1, NodeIs DEF Reads

LEMMA EachSame ==
  ASSUME NEW g, NEW h, NEW doc, SameIn(g, h, doc)
  PROVE  Each(g, doc.items) = Each(h, doc.items)
  BY DEF Each, SameIn

LEMMA AdditionalSame ==
  ASSUME NEW g, NEW h, NEW node, Reads(g, h, node), NEW attr, attr # "type"
  PROVE  Additional(g, node, attr) = Additional(h, node, attr)
  BY DEF Additional, Reads

LEMMA ListSame ==
  ASSUME NEW g, NEW h, NEW node, Reads(g, h, node)
  PROVE  buildListSchema(g, node) = buildListSchema(h, node)
<1>1. Additional(g, node, "additionalItems") = Additional(h, node, "additionalItems")
  BY AdditionalSame
<1>2. "items" \in DOMAIN node => /\ Each(g, node["items"].items) = Each(h, node["items"].items)
                                /\ g[node["items"]] = h[node["items"]]
  BY EachSame DEF Reads
<1>3. CASE "items" \notin DOMAIN node
  BY <1>3 DEF buildListSchema, Is
<1>4. CASE "items" \in DOMAIN node /\ Is(node, "items", {"list"})
  BY <1>1, <1>2, <1>4 DEF buildListSchema
<1>5. CASE "items" \in DOMAIN node /\ ~Is(node, "items", {"list"})
  BY <1>2, <1>5 DEF buildListSchema
<1>6. QED
  BY <1>3, <1>4, <1>5

LEMMA ChoicesSame ==
  ASSUME NEW g, NEW h, NEW node, Reads(g, h, node), NEW attr, attr # "type"
  PROVE  buildChoices(g, node, attr) = buildChoices(h, node, attr)
<1>1. attr \in DOMAIN node => Each(g, node[attr].items) = Each(h, node[attr].items)
  BY EachSame DEF Reads
<1>2. QED
  BY <1>1 DEF buildChoices, ListOfMaps, Is

LEMMA NotSame ==
  ASSUME NEW g, NEW h, NEW node, Reads(g, h, node)
  PROVE  buildNotSchema(g, node) = buildNotSchema(h, node)
  BY DEF buildNotSchema, Reads

LEMMA MethodSame ==
  ASSUME NEW g, NEW h, NEW node, Reads(g, h, node)
  PROVE  buildMethodSchema(g, node) = buildMethodSchema(h, node)
<1>1. Additional(g, node, "additionalParams") = Additional(h, node, "additionalParams")
  BY AdditionalSame
<1>2. "params" \in DOMAIN node => Each(g, node["params"].items) = Each(h, node["params"].items)
  BY EachSame DEF Reads
<1>3. buildReturns(g, node) = buildReturns(h, node)
  BY DEF buildReturns, Reads
<1>4. QED
  BY <1>1, <1>2, <1>3 DEF buildMethodSchema, ListOfMaps, Is

\* The members of an object, unless one is no schema.
AllConvert(members) == \A p \in DOMAIN members : Converts(members[p])
MembersForm(node, members) ==
  \/ /\ "properties" \in DOMAIN node /\ node["properties"].is = "map"
     /\ members = node["properties"].attrs
     /\ "type" \in DOMAIN members \/ HintsIn(members) = {}
  \/ /\ "properties" \in DOMAIN node /\ node["properties"].is = "string"
     /\ members = [type |-> node["properties"]]
  \/ members = None /\ ("properties" \in DOMAIN node => ~Converts(node["properties"]))

LEMMA MembersAre ==
  ASSUME NEW node, AllConvert(Members(node))
  PROVE  MembersForm(node, Members(node))
<1> PICK props : props = node["properties"]
  OBVIOUS
<1>1. CASE ~("properties" \in DOMAIN node /\ Converts(props))
  BY <1>1 DEF Members, MembersForm
<1>2. CASE "properties" \in DOMAIN node /\ Converts(props) /\ props.is = "map"
  <2>1. Members(node) = Typed(props.attrs)
    BY <1>2 DEF Members, TypeMap
  <2>2. "type" \in DOMAIN props.attrs \/ HintsIn(props.attrs) = {}
    <3>1. SUFFICES ASSUME "type" \notin DOMAIN props.attrs, HintsIn(props.attrs) # {} PROVE FALSE
      OBVIOUS
    <3> PICK guess : guess = Guess[Hints[Min(HintsIn(props.attrs))]]
      OBVIOUS
    <3>2. "type" \in DOMAIN Members(node) /\ Members(node)["type"] = String(guess)
      <4>1. /\ DOMAIN Typed(props.attrs) = DOMAIN props.attrs \cup {"type"}
            /\ Typed(props.attrs)["type"] = String(guess)
        BY <3>1, TypedIs
      <4>2. QED
        BY ONLY <2>1, <4>1
    <3>3. guess \in {"method", "object", "anyOf", "allOf", "not"}
      BY <3>1, GuessIs
    <3>4. ~Converts(String(guess))
      BY <3>3, StringIs DEF Converts
    <3>5. QED
      BY <3>2, <3>4 DEF AllConvert
  <2>3. Members(node) = props.attrs
    BY <2>1, <2>2, TypedIs
  <2>4. QED
    BY <1>2, <2>2, <2>3 DEF MembersForm
<1>3. CASE "properties" \in DOMAIN node /\ Converts(props) /\ props.is # "map"
  <2>1. props.is = "string" /\ Members(node) = [type |-> props]
    BY <1>3 DEF Members, TypeMap, Converts
  <2>2. QED
    BY <1>3, <2>1 DEF MembersForm
<1>4. QED
  BY <1>1, <1>2, <1>3

LEMMA ObjectSame ==
  ASSUME NEW g, NEW h, NEW node, Reads(g, h, node)
  PROVE  buildObjectSchema(g, node) = buildObjectSchema(h, node)
<1>1. Additional(g, node, "additionalProperties") = Additional(h, node, "additionalProperties")
  BY AdditionalSame
<1>2. CASE ~AllConvert(Members(node))
  BY <1>2 DEF buildObjectSchema, AllConvert
<1>3. CASE AllConvert(Members(node))
  <2>1. \A p \in DOMAIN Members(node) : g[Members(node)[p]] = h[Members(node)[p]]
    <3>1. CASE Members(node) = None
      BY <3>1 DEF None
    <3>2. CASE "properties" \in DOMAIN node /\ Members(node) = node["properties"].attrs
      BY <3>2 DEF Reads, SameIn
    <3>4. CASE "properties" \in DOMAIN node /\ Members(node) = [type |-> node["properties"]]
      <4>1. g[node["properties"]] = h[node["properties"]]
        BY <3>4 DEF Reads
      <4>2. DOMAIN Members(node) = {"type"} /\ Members(node)["type"] = node["properties"]
        BY ONLY <3>4
      <4>3. QED
        BY ONLY <4>1, <4>2
    <3>3. \/ Members(node) = None
          \/ "properties" \in DOMAIN node /\ Members(node) = node["properties"].attrs
          \/ "properties" \in DOMAIN node /\ Members(node) = [type |-> node["properties"]]
      BY <1>3, MembersAre DEF MembersForm
    <3>5. QED
      BY ONLY <3>1, <3>2, <3>3, <3>4
  <2>2. [p \in DOMAIN Members(node) |-> g[Members(node)[p]]]
          = [p \in DOMAIN Members(node) |-> h[Members(node)[p]]]
    BY <2>1
  <2>3. QED
    BY <1>1, <2>2 DEF buildObjectSchema
<1>4. QED
  BY <1>2, <1>3

LEMMA BuildSame ==
  ASSUME NEW doc \in Json, NEW g, NEW h, Same(g, h, doc)
  PROVE  Build(g, doc) = Build(h, doc)
<1>1. SUFFICES ASSUME Converts(doc) PROVE Build(g, doc) = Build(h, doc)
  BY DEF Build
<1> PICK node : node = TypeMap(doc)
  OBVIOUS
<1>2. Reads(g, h, node)
  BY <1>1, SameReads
<1>3. buildNodeMap(g, node) = buildNodeMap(h, node)
  <2>1. /\ buildListSchema(g, node) = buildListSchema(h, node)
        /\ buildNotSchema(g, node) = buildNotSchema(h, node)
        /\ buildMethodSchema(g, node) = buildMethodSchema(h, node)
        /\ buildObjectSchema(g, node) = buildObjectSchema(h, node)
        /\ buildChoices(g, node, "anyOf") = buildChoices(h, node, "anyOf")
        /\ buildChoices(g, node, "allOf") = buildChoices(h, node, "allOf")
    BY <1>2, ListSame, NotSame, MethodSame, ObjectSame, ChoicesSame
  <2>2. QED
    BY <2>1 DEF buildNodeMap
<1>4. QED
  BY <1>1, <1>3 DEF Build

-----------------------------------------------------------------------------
(* The same for the reference, for what is shown and for what is hidden.   *)

LEMMA ListWellSame ==
  ASSUME NEW g, NEW h, NEW attrs,
         \A a \in DOMAIN attrs : g[attrs[a]] = h[attrs[a]] /\ SameIn(g, h, attrs[a])
  PROVE  /\ \A a \in DOMAIN attrs : AllGood(g, attrs[a]) = AllGood(h, attrs[a])
         /\ \A a : IfGiven(g, attrs, a) = IfGiven(h, attrs, a)
         /\ DescribesList(g, attrs) = DescribesList(h, attrs)
         /\ DescribesMethod(g, attrs) = DescribesMethod(h, attrs)
<1>1. \A a \in DOMAIN attrs : AllGood(g, attrs[a]) = AllGood(h, attrs[a])
  BY DEF AllGood, SameIn
<1>2. \A a : IfGiven(g, attrs, a) = IfGiven(h, attrs, a)
  BY DEF IfGiven
<1>3. DescribesList(g, attrs) = DescribesList(h, attrs)
  BY <1>1, <1>2 DEF DescribesList
<1>4. DescribesMethod(g, attrs) = DescribesMethod(h, attrs)
  BY <1>1, <1>2 DEF DescribesMethod
<1>5. QED
  BY <1>1, <1>2, <1>3, <1>4

LEMMA ObjectWellSame ==
  ASSUME NEW g, NEW h, NEW attrs,
         \A a \in DOMAIN attrs : g[attrs[a]] = h[attrs[a]] /\ SameIn(g, h, attrs[a])
  PROVE  DescribesObject(g, attrs) = DescribesObject(h, attrs)
<1>1. IfGiven(g, attrs, "additionalProperties") = IfGiven(h, attrs, "additionalProperties")
  BY DEF IfGiven
<1> PICK props : props = IF "properties" \in DOMAIN attrs THEN attrs["properties"] ELSE Map_(None)
  OBVIOUS
<1>2. CASE "properties" \in DOMAIN attrs
  <2>1. g[props] = h[props] /\ \A p \in DOMAIN props.attrs : g[props.attrs[p]] = h[props.attrs[p]]
    BY <1>2 DEF SameIn
  <2>2. QED
    BY <1>1, <2>1 DEF DescribesObject
<1>3. CASE "properties" \notin DOMAIN attrs
  <2>1. props.is = "map" /\ DOMAIN props.attrs = {}
    BY <1>3 DEF Map_, Document, None
  <2>2. QED
    BY <1>1, <2>1 DEF DescribesObject
<1>4. QED
  BY <1>2, <1>3

LEMMA WellSame ==
  ASSUME NEW doc \in Json, NEW g, NEW h, Same(g, h, doc)
  PROVE  WellFormedBy(g, doc) = WellFormedBy(h, doc)
<1> PICK attrs : attrs = doc.attrs
  OBVIOUS
<1>1. \A a \in DOMAIN attrs : g[attrs[a]] = h[attrs[a]] /\ SameIn(g, h, attrs[a])
  BY SameReads, PartsAre
<1>2. /\ \A a \in DOMAIN attrs : AllGood(g, attrs[a]) = AllGood(h, attrs[a])
      /\ DescribesList(g, attrs) = DescribesList(h, attrs)
      /\ DescribesMethod(g, attrs) = DescribesMethod(h, attrs)
      /\ DescribesObject(g, attrs) = DescribesObject(h, attrs)
  BY <1>1, ListWellSame, ObjectWellSame
<1>3. QED
  BY <1>1, <1>2 DEF WellFormedBy

LEMMA OwnShape ==
  ASSUME NEW s \in Schemas
  PROVE  /\ IsShape(s) /\ Kids(s) \subseteq Schemas
         /\ DOMAIN s.sub = 1 .. Len(s.sub) /\ Len(s.sub) \in Nat
         /\ \A i \in DOMAIN s.sub : s.sub[i] \in Kids(s)
         /\ \A p \in DOMAIN s.props : s.props[p] \in Kids(s)
         /\ s.extra # Nothing => s.extra \in Kids(s)
         /\ s.returns # Nothing => s.returns \in Kids(s)
<1>1. Shape[s] = s
  BY BuilderAssumption
<1>2. IsShape(s)
  BY <1>1, ValidatorAssumption
<1>3. s.sub \in Seq(Schemas)
  BY <1>2 DEF IsShape
<1>4. DOMAIN s.sub = 1 .. Len(s.sub) /\ Len(s.sub) \in Nat
  BY <1>3, LenProperties
<1>5. QED
  BY <1>1, <1>2, <1>4, KidsOf

SameKids(g, h, s) == \A kid \in Kids(s) : g[kid] = h[kid]

LEMMA ShowSame ==
  ASSUME NEW s \in Schemas, NEW g, NEW h, SameKids(g, h, s)
  PROVE  Show(g, s) = Show(h, s)
<1>1. Each(g, s.sub) = Each(h, s.sub)
  BY OwnShape DEF Each, SameKids
<1>2. s.kind \in {"not", "list"} => g[s.sub[1]] = h[s.sub[1]]
  <2>1. s.kind \in {"not", "list"} => 1 \in DOMAIN s.sub
    <3>1. IsShape(s) /\ DOMAIN s.sub = 1 .. Len(s.sub)
      BY OwnShape
    <3>2. s.kind \in {"not", "list"} => Len(s.sub) = 1
      BY <3>1 DEF IsShape
    <3>3. 1 \in 1 .. 1
      OBVIOUS
    <3>4. QED
      BY <3>1, <3>2, <3>3, Zenon
  <2>2. QED
    BY <2>1, OwnShape DEF SameKids
<1>3. [p \in DOMAIN s.props |-> g[s.props[p]]] = [p \in DOMAIN s.props |-> h[s.props[p]]]
  BY OwnShape DEF SameKids
<1>4. \A attr : /\ Optional(attr, s.returns, g[s.returns]) = Optional(attr, s.returns, h[s.returns])
                /\ Optional(attr, s.extra, g[s.extra]) = Optional(attr, s.extra, h[s.extra])
  BY OwnShape DEF SameKids, Optional
<1>5. Attributes(g, s) = Attributes(h, s)
  BY <1>1, <1>2, <1>3, <1>4 DEF Attributes
<1>6. QED
  BY <1>5 DEF Show

LEMMA HidesSame ==
  ASSUME NEW s \in Schemas, NEW g, NEW h, SameKids(g, h, s)
  PROVE  HidesBy(g, s) = HidesBy(h, s)
<1>1. /\ (\E i \in DOMAIN s.sub : g[s.sub[i]]) = (\E i \in DOMAIN s.sub : h[s.sub[i]])
      /\ (\E p \in DOMAIN s.props : g[s.props[p]]) = (\E p \in DOMAIN s.props : h[s.props[p]])
      /\ (\E x \in {s.extra, s.returns} \ {Nothing} : g[x])
           = (\E x \in {s.extra, s.returns} \ {Nothing} : h[x])
  BY OwnShape DEF SameKids
<1>2. QED
  BY <1>1 DEF HidesBy

-----------------------------------------------------------------------------
(* The recursion.  There are four functions, each given by its values for  *)
(* what is inside; that they exist is one proof.                           *)

Space(what) == IF what \in {"build", "well"} THEN Json ELSE Schemas
Inner(what, x) == IF what \in {"build", "well"} THEN Within(x) ELSE Kids(x)
By(what, h, x) ==
  CASE what = "build" -> Build(h, x)
    [] what = "well" -> WellFormedBy(h, x)
    [] what = "map" -> Show(h, x)
    [] what = "hides" -> HidesBy(h, x)
Recursions == {"build", "well", "map", "hides"}

Founded(what) ==
  \A T \in SUBSET Space(what) : T # {} => \E x \in T : Inner(what, x) \cap T = {}

LEMMA InnerAre ==
  ASSUME NEW what \in Recursions, NEW x \in Space(what)
  PROVE  Inner(what, x) \subseteq Space(what)
  BY WithinAre, OwnShape DEF Recursions, Space, Inner

LEMMA BySame ==
  ASSUME NEW what \in Recursions, NEW x \in Space(what), NEW g, NEW h,
         \A y \in Inner(what, x) : g[y] = h[y]
  PROVE  By(what, g, x) = By(what, h, x)
<1>1. CASE what \in {"build", "well"}
  <2>1. x \in Json /\ Same(g, h, x)
    BY <1>1 DEF Space, Inner, Same
  <2>2. Build(g, x) = Build(h, x) /\ WellFormedBy(g, x) = WellFormedBy(h, x)
    BY <2>1, BuildSame, WellSame
  <2>3. QED
    BY <1>1, <2>2 DEF By
<1>2. CASE what \in {"map", "hides"}
  <2>1. x \in Schemas /\ SameKids(g, h, x)
    BY <1>2 DEF Space, Inner, SameKids
  <2>2. Show(g, x) = Show(h, x) /\ HidesBy(g, x) = HidesBy(h, x)
    BY <2>1, ShowSame, HidesSame
  <2>3. QED
    BY <1>2, <2>2 DEF By
<1>3. QED
  BY <1>1, <1>2 DEF Recursions

\* h is the function for D, which with a member has all inside it.
Piece(what, D, h) ==
  /\ D \in SUBSET Space(what) /\ h = [x \in D |-> h[x]]
  /\ \A x \in D : Inner(what, x) \subseteq D
  /\ \A x \in D : h[x] = By(what, h, x)

LEMMA PiecesAgree ==
  ASSUME NEW what \in Recursions, Founded(what), NEW D, NEW g, Piece(what, D, g),
         NEW E, NEW h, Piece(what, E, h)
  PROVE  \A x \in D \cap E : g[x] = h[x]
<1> PICK T : T = {x \in D \cap E : g[x] # h[x]}
  OBVIOUS
<1>1. SUFFICES ASSUME T # {} PROVE FALSE
  OBVIOUS
<1>2. T \in SUBSET Space(what)
  BY DEF Piece
<1>3. PICK x \in T : Inner(what, x) \cap T = {}
  BY <1>1, <1>2 DEF Founded
<1>4. x \in D /\ x \in E /\ x \in Space(what)
  BY <1>2
<1>5. Inner(what, x) \subseteq D \cap E
  BY <1>4 DEF Piece
<1>6. \A y \in Inner(what, x) : g[y] = h[y]
  BY <1>3, <1>5
<1>7. By(what, g, x) = By(what, h, x)
  BY <1>4, <1>6, BySame
<1>8. g[x] = By(what, g, x) /\ h[x] = By(what, h, x)
  BY <1>4 DEF Piece
<1>9. QED
  BY <1>7, <1>8

LEMMA PieceExists ==
  ASSUME NEW what \in Recursions, Founded(what)
  PROVE  \E h : Piece(what, Space(what), h)
<1> DEFINE At(x, v) == \E D, h : x \in D /\ Piece(what, D, h) /\ v = h[x]
<1> PICK Good : Good = {x \in Space(what) : \E D, h : x \in D /\ Piece(what, D, h)}
  OBVIOUS
<1> PICK g : g = [x \in Good |-> CHOOSE v : At(x, v)]
  OBVIOUS
<1>1. ASSUME NEW D, NEW h, Piece(what, D, h), NEW x \in D
      PROVE  x \in Good /\ g[x] = h[x]
  <2>1. x \in Good
    BY <1>1 DEF Piece
  <2>2. At(x, h[x])
    BY <1>1
  <2>3. g[x] = CHOOSE v : At(x, v)
    BY <2>1
  <2> HIDE DEF At
  <2>4. At(x, g[x])
    BY <2>2, <2>3
  <2> USE DEF At
  <2>5. PICK E, k : x \in E /\ Piece(what, E, k) /\ g[x] = k[x]
    BY <2>4
  <2>6. k[x] = h[x]
    BY <1>1, <2>5, PiecesAgree
  <2>7. QED
    BY <2>1, <2>5, <2>6
<1> HIDE DEF At
<1>2. Good \in SUBSET Space(what) /\ DOMAIN g = Good /\ g = [x \in Good |-> g[x]]
  OBVIOUS
<1>3. ASSUME NEW x \in Good
      PROVE  Inner(what, x) \subseteq Good /\ g[x] = By(what, g, x)
  <2>1. PICK D, h : x \in D /\ Piece(what, D, h)
    OBVIOUS
  <2>2. Inner(what, x) \subseteq D /\ h[x] = By(what, h, x) /\ x \in Space(what)
    BY <2>1 DEF Piece
  <2>3. \A y \in D : y \in Good /\ g[y] = h[y]
    BY <1>1, <2>1
  <2>4. By(what, g, x) = By(what, h, x)
    BY <2>2, <2>3, BySame
  <2>5. QED
    BY <2>1, <2>2, <2>3, <2>4
<1>4. Piece(what, Good, g)
  BY <1>2, <1>3 DEF Piece
<1>5. Good = Space(what)
  <2>1. SUFFICES ASSUME Space(what) \ Good # {} PROVE FALSE
    BY <1>2
  <2>2. PICK x \in Space(what) \ Good : Inner(what, x) \cap (Space(what) \ Good) = {}
    BY <2>1 DEF Founded
  <2>3. Inner(what, x) \subseteq Good
    BY <2>2, InnerAre
  <2> PICK D : D = Good \cup {x}
    OBVIOUS
  <2> PICK h : h = [y \in D |-> IF y = x THEN By(what, g, x) ELSE g[y]]
    OBVIOUS
  <2>4. \A y \in Good : h[y] = g[y]
    BY <2>2
  <2>5. ASSUME NEW y \in D
        PROVE  Inner(what, y) \subseteq D /\ y \in Space(what) /\ h[y] = By(what, h, y)
    <3>1. Inner(what, y) \subseteq Good /\ y \in Space(what)
      BY <1>2, <1>3, <2>2, <2>3
    <3>2. By(what, h, y) = By(what, g, y)
      <4>1. \A z \in Inner(what, y) : h[z] = g[z]
        BY <2>4, <3>1
      <4>2. QED
        BY ONLY <3>1, <4>1, BySame, what \in Recursions
    <3>3. h[y] = By(what, g, y)
      BY <1>3
    <3>4. QED
      BY <3>1, <3>2, <3>3
  <2>6. Piece(what, D, h)
    <3>1. D \in SUBSET Space(what) /\ h = [y \in D |-> h[y]]
      BY <1>2, <2>2
    <3>2. QED
      BY <2>5, <3>1 DEF Piece
  <2>7. x \in Good
    BY <1>1, <2>6
  <2>8. QED
    BY <2>2, <2>7
<1>6. QED
  BY <1>4, <1>5

LEMMA DocumentsFounded ==
  ASSUME DocumentsAreTrees
  PROVE  Founded("build") /\ Founded("well")
  BY WithinTrees DEF Founded, Space, Inner

LEMMA PieceIs ==
  ASSUME NEW what \in Recursions, NEW h, Piece(what, Space(what), h)
  PROVE  h = [x \in Space(what) |-> By(what, h, x)]
<1>1. h = [x \in Space(what) |-> h[x]] /\ \A x \in Space(what) : h[x] = By(what, h, x)
  BY DEF Piece
<1>2. [x \in Space(what) |-> h[x]] = [x \in Space(what) |-> By(what, h, x)]
  BY ONLY <1>1
<1>3. QED
  BY ONLY <1>1, <1>2

LEMMA BuildNodeIs ==
  ASSUME DocumentsAreTrees
  PROVE  \A doc \in Json : buildNode[doc] = Build(buildNode, doc)
<1> DEFINE P(f) == f = [doc \in Json |-> Build(f, doc)]
<1>1. PICK h : Piece("build", Space("build"), h)
  BY DocumentsFounded, PieceExists DEF Recursions
<1>2. P(h)
  BY <1>1, PieceIs DEF Recursions, Space, By
<1>3. buildNode = CHOOSE f : P(f)
  BY DEF buildNode, Builds
<1> HIDE DEF P
<1>4. P(buildNode)
  BY <1>2, <1>3
<1>5. QED
  BY <1>4 DEF P

LEMMA WellFormedIs ==
  ASSUME DocumentsAreTrees
  PROVE  \A doc \in Json : WellFormed[doc] = WellFormedBy(WellFormed, doc)
<1> DEFINE P(f) == f = [doc \in Json |-> WellFormedBy(f, doc)]
<1>1. PICK h : Piece("well", Space("well"), h)
  BY DocumentsFounded, PieceExists DEF Recursions
<1>2. P(h)
  BY <1>1, PieceIs DEF Recursions, Space, By
<1>3. WellFormed = CHOOSE f : P(f)
  BY DEF WellFormed
<1> HIDE DEF P
<1>4. P(WellFormed)
  BY <1>2, <1>3
<1>5. QED
  BY <1>4 DEF P

LEMMA MapIs ==
  ASSUME SchemasAreTrees
  PROVE  \A s \in Schemas : Map[s] = Show(Map, s)
<1> DEFINE P(f) == f = [s \in Schemas |-> Show(f, s)]
<1>1. PICK h : Piece("map", Space("map"), h)
  BY PieceExists DEF Recursions, SchemasAreTrees, Founded, Space, Inner
<1>2. P(h)
  BY <1>1, PieceIs DEF Recursions, Space, By
<1>3. Map = CHOOSE f : P(f)
  BY DEF Map, Shows
<1> HIDE DEF P
<1>4. P(Map)
  BY <1>2, <1>3
<1>5. QED
  BY <1>4 DEF P

LEMMA HidesIs ==
  ASSUME SchemasAreTrees
  PROVE  \A s \in Schemas : Hides[s] = HidesBy(Hides, s)
<1> DEFINE P(f) == f = [s \in Schemas |-> HidesBy(f, s)]
<1>1. PICK h : Piece("hides", Space("hides"), h)
  BY PieceExists DEF Recursions, SchemasAreTrees, Founded, Space, Inner
<1>2. P(h)
  BY <1>1, PieceIs DEF Recursions, Space, By
<1>3. Hides = CHOOSE f : P(f)
  BY DEF Hides
<1> HIDE DEF P
<1>4. P(Hides)
  BY <1>2, <1>3
<1>5. QED
  BY <1>4 DEF P

-----------------------------------------------------------------------------
(* What is refused.                                                        *)

\* What was made of a document fits what the reference says of it.
Fits(b, w, doc) ==
  /\ b[doc] # Failed <=> w[doc]
  /\ ~Converts(doc) => b[doc] = Failed
  /\ doc.is = "string" /\ Converts(doc) => w[doc]
  /\ doc.is = "map" /\ w[doc] => Named(doc.attrs)

FitsIn(b, w, doc) ==
  /\ \A i \in DOMAIN doc.items : Fits(b, w, doc.items[i])
  /\ \A a \in DOMAIN doc.attrs : Fits(b, w, doc.attrs[a])
FitsBelow(b, w, attrs) ==
  \A a \in DOMAIN attrs : Fits(b, w, attrs[a]) /\ FitsIn(b, w, attrs[a])

\* node is attrs, with a type.
NodeOf(node, attrs) ==
  \A a : a # "type" => /\ a \in DOMAIN node <=> a \in DOMAIN attrs
                       /\ a \in DOMAIN attrs => node[a] = attrs[a]

LEMMA TypedNode ==
  ASSUME NEW attrs
  PROVE  NodeOf(Typed(attrs), attrs)
<1> PICK node : node = Typed(attrs)
  OBVIOUS
<1>1. /\ DOMAIN attrs \subseteq DOMAIN node /\ DOMAIN node \subseteq DOMAIN attrs \cup {"type"}
      /\ \A a \in DOMAIN attrs : node[a] = attrs[a]
  BY TypedIs
<1>2. NodeOf(node, attrs)
  BY ONLY <1>1 DEF NodeOf
<1>3. QED
  BY <1>2

LEMMA NoHints ==
  ASSUME NEW attrs
  PROVE  HintsIn(attrs) = {} <=> DOMAIN attrs \cap DOMAIN Guess = {}
<1>1. /\ Hints[1] = "params" /\ Hints[2] = "properties" /\ Hints[3] = "anyOf"
      /\ Hints[4] = "allOf" /\ Hints[5] = "not"
  BY DEF Hints
<1>2. DOMAIN Guess = {"params", "properties", "anyOf", "allOf", "not"}
  BY DEF Guess
<1>3. 1 \in 1 .. 5 /\ 2 \in 1 .. 5 /\ 3 \in 1 .. 5 /\ 4 \in 1 .. 5 /\ 5 \in 1 .. 5
  OBVIOUS
<1>4. \A j \in 1 .. 5 : j \in {1, 2, 3, 4, 5}
  OBVIOUS
<1>5. HintsIn(attrs) = {} <=> \A j \in 1 .. 5 : Hints[j] \notin DOMAIN attrs
  BY DEF HintsIn
<1>6. QED
  BY <1>1, <1>2, <1>3, <1>4, <1>5

LEMMA PlainIs ==
  ASSUME NEW kind
  PROVE  /\ Plain(kind).kind = kind /\ DOMAIN Plain(kind).sub = {} /\ DOMAIN Plain(kind).props = {}
         /\ Plain(kind).extra = Nothing /\ Plain(kind).returns = Nothing
         /\ Nothing # Failed /\ Failed.kind = "build error" /\ Whole(Failed) = Failed
<1>1. DOMAIN Plain(kind).sub = {} /\ DOMAIN Plain(kind).props = {}
  BY DEF Plain, None
<1>2. Nothing # Failed
  BY BuilderAssumption
<1>3. Whole(Failed) = Failed
  BY DEF Whole
<1>4. QED
  BY <1>1, <1>2, <1>3 DEF Plain, Failed

\* A schema is whole if all that is inside it is.
LEMMA WholeIs ==
  ASSUME NEW s, s.kind # "build error"
  PROVE  /\ Whole(s) # Failed <=> /\ \A i \in DOMAIN s.sub : s.sub[i] # Failed
                                  /\ \A p \in DOMAIN s.props : s.props[p] # Failed
                                  /\ s.extra # Failed /\ s.returns # Failed
         /\ Whole(s) # Failed => Whole(s) = s
<1>1. s # Failed
  BY PlainIs
<1>2. QED
  BY <1>1 DEF Whole

LEMMA WholeOf ==
  ASSUME NEW s, s.kind # "build error", DOMAIN s.props = {}, s.extra = Nothing, s.returns = Nothing
  PROVE  Whole(s) # Failed <=> \A i \in DOMAIN s.sub : s.sub[i] # Failed
<1>1. s.extra # Failed /\ s.returns # Failed
  BY PlainIs
<1>2. QED
  BY <1>1, WholeIs

LEMMA ScalarWell ==
  ASSUME NEW node, NEW x, NEW y
  PROVE  /\ \A kind : kind # "build error" => Whole(Plain(kind)) # Failed
         /\ Whole(buildStringSchema(node)) # Failed
         /\ node["type"].text \in {"number", "integer"} => Whole(buildNumberSchema(node, x, y)) # Failed
<1>1. ASSUME NEW s, s.kind # "build error", DOMAIN s.sub = {}, DOMAIN s.props = {},
             s.extra = Nothing, s.returns = Nothing
      PROVE  Whole(s) # Failed
  BY <1>1, PlainIs, WholeIs
<1>2. \A kind : kind # "build error" => Whole(Plain(kind)) # Failed
  BY <1>1, PlainIs
<1>3. Whole(buildStringSchema(node)) # Failed
  <2> PICK s : s = buildStringSchema(node)
    OBVIOUS
  <2>1. s.kind = "string" /\ s.sub = <<>> /\ s.props = None /\ s.extra = Nothing /\ s.returns = Nothing
    BY DEF buildStringSchema, Plain
  <2>2. DOMAIN s.sub = {} /\ DOMAIN s.props = {}
    BY <2>1 DEF None
  <2>3. QED
    BY <1>1, <2>1, <2>2
<1>4. ASSUME node["type"].text \in {"number", "integer"}
      PROVE  Whole(buildNumberSchema(node, x, y)) # Failed
  <2> PICK s : s = buildNumberSchema(node, x, y)
    OBVIOUS
  <2>1. s.kind = node["type"].text /\ s.sub = <<>> /\ s.props = None /\ s.extra = Nothing /\ s.returns = Nothing
    BY DEF buildNumberSchema, Plain
  <2>2. DOMAIN s.sub = {} /\ DOMAIN s.props = {}
    BY <2>1 DEF None
  <2>3. QED
    BY <1>1, <1>4, <2>1, <2>2
<1>5. QED
  BY <1>2, <1>3, <1>4

LEMMA EachWell ==
  ASSUME NEW b, NEW w, NEW doc, FitsIn(b, w, doc)
  PROVE  /\ DOMAIN Each(b, doc.items) = DOMAIN doc.items
         /\ (\A i \in DOMAIN Each(b, doc.items) : Each(b, doc.items)[i] # Failed)
              <=> \A i \in DOMAIN doc.items : w[doc.items[i]]
         /\ (\A i \in DOMAIN doc.items : w[doc.items[i]]) =>
              \A i \in DOMAIN doc.items : Converts(doc.items[i])
  BY DEF Each, FitsIn, Fits

LEMMA AdditionalWell ==
  ASSUME NEW b, NEW w, NEW attrs, FitsBelow(b, w, attrs), NEW node, NodeOf(node, attrs),
         NEW attr, attr # "type"
  PROVE  Additional(b, node, attr) # Failed <=> IfGiven(w, attrs, attr)
  BY PlainIs DEF Additional, IfGiven, NodeOf, FitsBelow, Fits

LEMMA ChoicesWell ==
  ASSUME NEW b, NEW w, NEW attrs, FitsBelow(b, w, attrs), NEW node, NodeOf(node, attrs),
         NEW attr \in {"anyOf", "allOf"}
  PROVE  Whole(buildChoices(b, node, attr)) # Failed
           <=> attr \in DOMAIN attrs /\ AllGood(w, attrs[attr])
<1>1. CASE attr \notin DOMAIN attrs
  BY <1>1, PlainIs DEF buildChoices, ListOfMaps, Is, NodeOf
<1>2. CASE attr \in DOMAIN attrs
  <2> PICK list : list = attrs[attr]
    OBVIOUS
  <2>1. attr \in DOMAIN node /\ node[attr] = list /\ FitsIn(b, w, list)
    BY <1>2 DEF NodeOf, FitsBelow
  <2>2. ListOfMaps(node, attr) <=> list.is = "list" /\ \A i \in DOMAIN list.items : Converts(list.items[i])
    BY <2>1 DEF ListOfMaps, Is
  <2> PICK s : s = [Plain(attr) EXCEPT !.sub = Each(b, list.items)]
    OBVIOUS
  <2>3. /\ s.kind = attr /\ s.sub = Each(b, list.items) /\ s.props = None
        /\ s.extra = Nothing /\ s.returns = Nothing
    BY DEF Plain
  <2>4. Whole(s) # Failed <=> \A i \in DOMAIN list.items : w[list.items[i]]
    <3>1. DOMAIN s.props = {} /\ s.kind # "build error"
      BY <2>3 DEF None
    <3>2. Whole(s) # Failed <=> \A i \in DOMAIN s.sub : s.sub[i] # Failed
      BY <2>3, <3>1, WholeOf
    <3>3. QED
      BY <2>1, <2>3, <3>2, EachWell
  <2>5. CASE ListOfMaps(node, attr)
    <3>1. buildChoices(b, node, attr) = s
      BY <2>1, <2>5 DEF buildChoices
    <3>2. QED
      BY <1>2, <2>2, <2>4, <2>5, <3>1 DEF AllGood
  <2>6. CASE ~ListOfMaps(node, attr)
    <3>1. buildChoices(b, node, attr) = Failed
      BY <2>6 DEF buildChoices
    <3>2. ~AllGood(w, list)
      BY <2>1, <2>2, <2>6, EachWell DEF AllGood
    <3>3. QED
      BY <3>1, <3>2, PlainIs
  <2>7. QED
    BY <2>5, <2>6
<1>3. QED
  BY <1>1, <1>2

LEMMA NotWell ==
  ASSUME NEW b, NEW w, NEW attrs, FitsBelow(b, w, attrs), NEW node, NodeOf(node, attrs)
  PROVE  Whole(buildNotSchema(b, node)) # Failed <=> "not" \in DOMAIN attrs /\ w[attrs["not"]]
<1>1. CASE "not" \notin DOMAIN attrs
  BY <1>1, PlainIs DEF buildNotSchema, NodeOf
<1>2. CASE "not" \in DOMAIN attrs
  <2> PICK s : s = buildNotSchema(b, node)
    OBVIOUS
  <2>1. "not" \in DOMAIN node /\ node["not"] = attrs["not"]
    BY <1>2 DEF NodeOf
  <2>2. /\ s.kind = "not" /\ s.sub = <<b[attrs["not"]]>> /\ s.props = None
        /\ s.extra = Nothing /\ s.returns = Nothing
    BY <2>1 DEF buildNotSchema, Plain
  <2>3. DOMAIN s.sub = {1} /\ s.sub[1] = b[attrs["not"]] /\ DOMAIN s.props = {}
    BY <2>2 DEF None
  <2>4. Whole(s) # Failed <=> b[attrs["not"]] # Failed
    <3>1. s.kind # "build error"
      BY <2>2
    <3>2. Whole(s) # Failed <=> \A i \in DOMAIN s.sub : s.sub[i] # Failed
      BY <2>2, <2>3, <3>1, WholeOf
    <3>3. QED
      BY ONLY <2>3, <3>2
  <2>5. QED
    BY <1>2, <2>4 DEF FitsBelow, Fits
<1>3. QED
  BY <1>1, <1>2

LEMMA ListWell ==
  ASSUME NEW b, NEW w, NEW attrs, FitsBelow(b, w, attrs), NEW node, NodeOf(node, attrs),
         \A a \in DOMAIN attrs : attrs[a].is = "list" => b[attrs[a]] = Failed
  PROVE  Whole(buildListSchema(b, node)) # Failed <=> DescribesList(w, attrs)
<1>1. CASE "items" \notin DOMAIN attrs
  <2>1. buildListSchema(b, node) = Failed
    BY <1>1 DEF buildListSchema, Is, NodeOf
  <2>2. QED
    BY <1>1, <2>1, PlainIs DEF DescribesList
<1>2. CASE "items" \in DOMAIN attrs /\ attrs["items"].is = "list"
  <2> PICK list : list = attrs["items"]
    OBVIOUS
  <2> PICK s : s = buildListSchema(b, node)
    OBVIOUS
  <2> PICK extra : extra = Additional(b, node, "additionalItems")
    OBVIOUS
  <2>1. "items" \in DOMAIN node /\ node["items"] = list /\ FitsIn(b, w, list) /\ Fits(b, w, list)
    BY <1>2 DEF NodeOf, FitsBelow
  <2>2. s = [Plain("tuple") EXCEPT !.sub = Each(b, list.items), !.extra = extra]
    BY <1>2, <2>1 DEF buildListSchema, Is
  <2>3. /\ s.kind = "tuple" /\ s.sub = Each(b, list.items) /\ s.props = None
        /\ s.extra = extra /\ s.returns = Nothing
    BY <2>2 DEF Plain
  <2>4. DOMAIN s.props = {} /\ s.kind # "build error" /\ s.returns # Failed
    BY <2>3, PlainIs DEF None
  <2>5. Whole(s) # Failed <=> (\A i \in DOMAIN s.sub : s.sub[i] # Failed) /\ extra # Failed
    BY <2>3, <2>4, WholeIs
  <2>6. (\A i \in DOMAIN s.sub : s.sub[i] # Failed) <=> \A i \in DOMAIN list.items : w[list.items[i]]
    BY <2>1, <2>3, EachWell
  <2>7. extra # Failed <=> IfGiven(w, attrs, "additionalItems")
    BY AdditionalWell
  <2>8. ~w[list]
    BY <1>2, <2>1 DEF Fits
  <2>9. DescribesList(w, attrs) <=>
          (\A i \in DOMAIN list.items : w[list.items[i]]) /\ IfGiven(w, attrs, "additionalItems")
    BY <1>2, <2>8 DEF DescribesList, AllGood
  <2>10. QED
    BY <2>5, <2>6, <2>7, <2>9
<1>3. CASE "items" \in DOMAIN attrs /\ attrs["items"].is # "list"
  <2> PICK item : item = attrs["items"]
    OBVIOUS
  <2> PICK s : s = buildListSchema(b, node)
    OBVIOUS
  <2>1. "items" \in DOMAIN node /\ node["items"] = item /\ Fits(b, w, item)
    BY <1>3 DEF NodeOf, FitsBelow
  <2>2. s = [Plain("list") EXCEPT !.sub = <<b[item]>>, !.max = AttrLength(node, "maxItems"),
                                  !.min = AttrLength(node, "minItems")]
    BY <1>3, <2>1 DEF buildListSchema, Is
  <2>3. /\ s.kind = "list" /\ s.sub = <<b[item]>> /\ s.props = None
        /\ s.extra = Nothing /\ s.returns = Nothing
    BY <2>2 DEF Plain
  <2>4. DOMAIN s.props = {} /\ s.kind # "build error" /\ DOMAIN s.sub = {1} /\ s.sub[1] = b[item]
    BY <2>3 DEF None
  <2>5. Whole(s) # Failed <=> \A i \in DOMAIN s.sub : s.sub[i] # Failed
    BY <2>3, <2>4, WholeOf
  <2>6. Whole(s) # Failed <=> b[item] # Failed
    BY ONLY <2>4, <2>5
  <2>7. DescribesList(w, attrs) <=> w[item]
    BY <1>3 DEF DescribesList, AllGood
  <2>8. QED
    BY <2>1, <2>6, <2>7 DEF Fits
<1>4. QED
  BY <1>1, <1>2, <1>3

\* What is said of the result.
ReturnsGood(w, attrs) ==
  "returns" \in DOMAIN attrs =>
    LET what == attrs["returns"] IN
    \/ what.is # "map" \/ w[what]
    \/ Named(what.attrs) /\ DOMAIN what.attrs \cap (DOMAIN Guess \cup {"type"}) = {}

LEMMA MixinIs ==
  ASSUME NEW node, NEW attrs, NodeOf(node, attrs), NEW s
  PROVE  Mixin(node, s) = IF Named(attrs) THEN s ELSE Failed
  BY DEF Mixin, Named, NodeOf

LEMMA ReturnsWell ==
  ASSUME NEW b, NEW w, NEW attrs, FitsBelow(b, w, attrs), NEW node, NodeOf(node, attrs)
  PROVE  buildReturns(b, node) # Failed <=> ReturnsGood(w, attrs)
<1>1. Plain("any") # Failed
  BY PlainIs
<1>2. CASE "returns" \notin DOMAIN attrs
  BY <1>1, <1>2 DEF buildReturns, ReturnsGood, NodeOf
<1>3. CASE "returns" \in DOMAIN attrs
  <2> PICK what : what = attrs["returns"]
    OBVIOUS
  <2>1. "returns" \in DOMAIN node /\ node["returns"] = what /\ Fits(b, w, what)
    BY <1>3 DEF NodeOf, FitsBelow
  <2>2. ReturnsGood(w, attrs) <=>
          \/ what.is # "map" \/ w[what]
          \/ Named(what.attrs) /\ DOMAIN what.attrs \cap (DOMAIN Guess \cup {"type"}) = {}
    BY <1>3 DEF ReturnsGood
  <2>3. CASE ~Converts(what)
    <3>1. buildReturns(b, node) = Nothing /\ what.is # "map"
      BY <2>1, <2>3 DEF buildReturns, Converts
    <3>2. QED
      BY <2>2, <3>1, PlainIs
  <2>4. CASE Converts(what) /\ what.is # "map"
    <3>1. what.is = "string" /\ "type" \in DOMAIN TypeMap(what)
      BY <2>4 DEF Converts, TypeMap
    <3>2. buildReturns(b, node) = b[what]
      BY <2>1, <2>4, <3>1 DEF buildReturns
    <3>3. QED
      BY <2>1, <2>2, <2>4, <3>1, <3>2 DEF Fits
  <2>5. CASE what.is = "map" /\ ("type" \in DOMAIN what.attrs \/ HintsIn(what.attrs) # {})
    <3>1. Converts(what) /\ TypeMap(what) = Typed(what.attrs)
      BY <2>5 DEF Converts, TypeMap
    <3>2. "type" \in DOMAIN TypeMap(what)
      <4> PICK given : given = what.attrs
        OBVIOUS
      <4>1. "type" \in DOMAIN Typed(given)
        <5>1. CASE "type" \in DOMAIN given
          BY ONLY <5>1, TypedIs
        <5>2. CASE "type" \notin DOMAIN given
          <6>1. HintsIn(given) # {}
            BY <2>5, <5>2
          <6>2. DOMAIN Typed(given) = DOMAIN given \cup {"type"}
            BY ONLY <5>2, <6>1, TypedIs
          <6>3. QED
            BY ONLY <6>2
        <5>3. QED
          BY ONLY <5>1, <5>2
      <4>2. QED
        BY <3>1, <4>1
    <3>3. buildReturns(b, node) = b[what]
      BY <2>1, <3>1, <3>2 DEF buildReturns
    <3>4. ~(DOMAIN what.attrs \cap (DOMAIN Guess \cup {"type"}) = {})
      BY <2>5, NoHints
    <3>5. QED
      BY <2>1, <2>2, <2>5, <3>3, <3>4 DEF Fits
  <2>6. CASE what.is = "map" /\ "type" \notin DOMAIN what.attrs /\ HintsIn(what.attrs) = {}
    <3>1. Converts(what) /\ TypeMap(what) = what.attrs
      BY <2>6, TypedIs DEF Converts, TypeMap
    <3>2. buildReturns(b, node) = Mixin(what.attrs, Plain("any"))
      BY <2>1, <2>6, <3>1 DEF buildReturns
    <3>3. Mixin(what.attrs, Plain("any")) = IF Named(what.attrs) THEN Plain("any") ELSE Failed
      BY MixinIs DEF NodeOf
    <3>4. DOMAIN what.attrs \cap (DOMAIN Guess \cup {"type"}) = {}
      BY <2>6, NoHints
    <3>5. w[what] => Named(what.attrs)
      BY <2>1, <2>6 DEF Fits
    <3>6. QED
      BY <1>1, <2>2, <2>6, <3>2, <3>3, <3>4, <3>5
  <2>7. QED
    BY <2>3, <2>4, <2>5, <2>6
<1>4. QED
  BY <1>2, <1>3

LEMMA MethodWell ==
  ASSUME NEW b, NEW w, NEW attrs, FitsBelow(b, w, attrs), NEW node, NodeOf(node, attrs)
  PROVE  Whole(buildMethodSchema(b, node)) # Failed <=> DescribesMethod(w, attrs)
<1>1. DescribesMethod(w, attrs) <=>
        /\ "params" \in DOMAIN attrs /\ AllGood(w, attrs["params"])
        /\ IfGiven(w, attrs, "additionalParams") /\ ReturnsGood(w, attrs)
  BY DEF DescribesMethod, ReturnsGood
<1>2. CASE "params" \notin DOMAIN attrs
  BY <1>1, <1>2, PlainIs DEF buildMethodSchema, ListOfMaps, Is, NodeOf
<1>3. CASE "params" \in DOMAIN attrs
  <2> PICK list : list = attrs["params"]
    OBVIOUS
  <2> PICK extra : extra = Additional(b, node, "additionalParams")
    OBVIOUS
  <2> PICK returns : returns = buildReturns(b, node)
    OBVIOUS
  <2>1. "params" \in DOMAIN node /\ node["params"] = list /\ FitsIn(b, w, list)
    BY <1>3 DEF NodeOf, FitsBelow
  <2>2. ListOfMaps(node, "params") <=>
          list.is = "list" /\ \A i \in DOMAIN list.items : Converts(list.items[i])
    BY <2>1 DEF ListOfMaps, Is
  <2> PICK s : s = [Plain("method") EXCEPT !.sub = Each(b, list.items), !.extra = extra,
                                           !.returns = returns]
    OBVIOUS
  <2>3. /\ s.kind = "method" /\ s.sub = Each(b, list.items) /\ s.props = None
        /\ s.extra = extra /\ s.returns = returns
    BY DEF Plain
  <2>4. DOMAIN s.props = {} /\ s.kind # "build error"
    BY <2>3 DEF None
  <2>5. Whole(s) # Failed <=>
          (\A i \in DOMAIN s.sub : s.sub[i] # Failed) /\ extra # Failed /\ returns # Failed
    BY <2>3, <2>4, WholeIs
  <2>6. (\A i \in DOMAIN s.sub : s.sub[i] # Failed) <=> \A i \in DOMAIN list.items : w[list.items[i]]
    BY <2>1, <2>3, EachWell
  <2>7. extra # Failed <=> IfGiven(w, attrs, "additionalParams")
    BY AdditionalWell
  <2>8. returns # Failed <=> ReturnsGood(w, attrs)
    BY ReturnsWell
  <2>9. CASE ListOfMaps(node, "params")
    <3>1. buildMethodSchema(b, node) = s
      BY <2>1, <2>9 DEF buildMethodSchema
    <3>2. AllGood(w, list) <=> \A i \in DOMAIN list.items : w[list.items[i]]
      BY <2>2, <2>9 DEF AllGood
    <3>3. QED
      BY <1>1, <1>3, <2>5, <2>6, <2>7, <2>8, <3>1, <3>2
  <2>10. CASE ~ListOfMaps(node, "params")
    <3>1. buildMethodSchema(b, node) = Failed
      BY <2>10 DEF buildMethodSchema
    <3>2. ~AllGood(w, list)
      BY <2>1, <2>2, <2>10, EachWell DEF AllGood
    <3>3. QED
      BY <1>1, <3>1, <3>2, PlainIs
  <2>11. QED
    BY <2>9, <2>10
<1>4. QED
  BY <1>2, <1>3

\* The properties of an object, as the reference sees them.
PropsOf(attrs) == IF "properties" \in DOMAIN attrs THEN attrs["properties"] ELSE Map_(None)
NamesOf(w, attrs) ==
  IF PropsOf(attrs).is = "map" THEN DOMAIN PropsOf(attrs).attrs
  ELSE IF w[PropsOf(attrs)] THEN {"type"} ELSE {}
PropsGood(w, attrs) ==
  PropsOf(attrs).is = "map" =>
    /\ \A p \in NamesOf(w, attrs) : w[PropsOf(attrs).attrs[p]]
    /\ NamesOf(w, attrs) \cap DOMAIN Guess # {} => "type" \in NamesOf(w, attrs)

MembersGood(b, members) ==
  AllConvert(members) /\ \A p \in DOMAIN members : b[members[p]] # Failed

LEMMA MembersWell ==
  ASSUME NEW b, NEW w, NEW attrs, FitsBelow(b, w, attrs), NEW node, NodeOf(node, attrs),
         \A a \in DOMAIN attrs : w[attrs[a]] => Converts(attrs[a])
  PROVE  /\ MembersGood(b, Members(node)) <=> PropsGood(w, attrs)
         /\ MembersGood(b, Members(node)) => DOMAIN Members(node) = NamesOf(w, attrs)
<1> PICK members : members = Members(node)
  OBVIOUS
<1>1. CASE "properties" \notin DOMAIN attrs
  <2>1. members = None
    BY <1>1 DEF Members, NodeOf
  <2>2. PropsOf(attrs).is = "map" /\ DOMAIN PropsOf(attrs).attrs = {}
    BY <1>1 DEF PropsOf, Map_, Document, None
  <2>3. DOMAIN members = {} /\ NamesOf(w, attrs) = {}
    BY <2>1, <2>2 DEF NamesOf, None
  <2>4. MembersGood(b, members) /\ PropsGood(w, attrs)
    BY <2>3 DEF MembersGood, AllConvert, PropsGood
  <2>5. QED
    BY <2>3, <2>4
<1>2. CASE "properties" \in DOMAIN attrs
  <2> PICK props : props = attrs["properties"]
    OBVIOUS
  <2>1. /\ "properties" \in DOMAIN node /\ node["properties"] = props /\ PropsOf(attrs) = props
        /\ Fits(b, w, props) /\ FitsIn(b, w, props)
    BY <1>2 DEF NodeOf, FitsBelow, PropsOf
  <2>2. CASE props.is = "map"
    <3>1. members = Typed(props.attrs)
      BY <2>1, <2>2 DEF Members, Converts, TypeMap
    <3>2. NamesOf(w, attrs) = DOMAIN props.attrs
      BY <2>1, <2>2 DEF NamesOf
    <3>3. PropsGood(w, attrs) <=>
            /\ \A p \in DOMAIN props.attrs : w[props.attrs[p]]
            /\ "type" \in DOMAIN props.attrs \/ HintsIn(props.attrs) = {}
      BY <2>1, <2>2, <3>2, NoHints DEF PropsGood
    <3>4. ASSUME MembersGood(b, members)
          PROVE  PropsGood(w, attrs) /\ DOMAIN members = NamesOf(w, attrs)
      <4>1. MembersForm(node, members)
        BY <3>4, MembersAre DEF MembersGood
      <4>2. Converts(props)
        BY <2>2 DEF Converts
      <4>3. members = props.attrs /\ ("type" \in DOMAIN members \/ HintsIn(members) = {})
        BY <2>1, <2>2, <4>1, <4>2 DEF MembersForm
      <4>4. \A p \in DOMAIN props.attrs : w[props.attrs[p]]
        BY <2>1, <3>4, <4>3 DEF MembersGood, FitsIn, Fits
      <4>5. QED
        BY <3>2, <3>3, <4>3, <4>4
    <3>5. ASSUME PropsGood(w, attrs) PROVE MembersGood(b, members)
      <4>1. members = props.attrs
        BY <3>1, <3>3, <3>5, TypedIs
      <4>2. \A p \in DOMAIN members : b[members[p]] # Failed /\ Converts(members[p])
        BY <2>1, <3>3, <3>5, <4>1 DEF FitsIn, Fits
      <4>3. QED
        BY <4>2 DEF MembersGood, AllConvert
    <3>6. QED
      BY <3>4, <3>5
  <2>3. CASE props.is # "map"
    <3>1. PropsGood(w, attrs)
      BY <2>1, <2>3 DEF PropsGood
    <3>2. NamesOf(w, attrs) = IF w[props] THEN {"type"} ELSE {}
      BY <2>1, <2>3 DEF NamesOf
    <3>3. CASE Converts(props)
      <4>1. props.is = "string" /\ w[props] /\ b[props] # Failed
        BY <2>1, <2>3, <3>3 DEF Converts, Fits
      <4>2. members = [type |-> props]
        BY <2>1, <2>3, <3>3 DEF Members, TypeMap
      <4>3. DOMAIN members = {"type"} /\ members["type"] = props
        BY ONLY <4>2
      <4>4. MembersGood(b, members)
        BY <3>3, <4>1, <4>3 DEF MembersGood, AllConvert
      <4>5. QED
        BY <3>1, <3>2, <4>1, <4>3, <4>4
    <3>4. CASE ~Converts(props)
      <4>1. members = None /\ ~w[props]
        BY <1>2, <2>1, <3>4 DEF Members
      <4>2. DOMAIN members = {}
        BY <4>1 DEF None
      <4>3. QED
        BY <3>1, <3>2, <4>1, <4>2 DEF MembersGood, AllConvert
    <3>5. QED
      BY <3>3, <3>4
  <2>4. QED
    BY <2>2, <2>3
<1>3. QED
  BY <1>1, <1>2

\* The list of required names, as the reference sees it.
RequiredOf(attrs) == IF "requires" \in DOMAIN attrs THEN attrs["requires"] ELSE List_(<<>>)
RequiresGood(attrs, names) ==
  /\ RequiredOf(attrs).is = "list"
  /\ \A i \in DOMAIN RequiredOf(attrs).items :
       RequiredOf(attrs).items[i].is = "string" /\ RequiredOf(attrs).items[i].text \in names

RequiresBad(node, names) ==
  \/ "requires" \in DOMAIN node /\
       \/ node["requires"].is # "list"
       \/ \E i \in DOMAIN node["requires"].items : node["requires"].items[i].is # "string"
  \/ ~RequiredNames(node) \subseteq names

LEMMA RequiresWell ==
  ASSUME NEW attrs, NEW node, NodeOf(node, attrs), NEW names
  PROVE  RequiresBad(node, names) <=> ~RequiresGood(attrs, names)
<1>1. CASE "requires" \notin DOMAIN attrs
  <2>1. "requires" \notin DOMAIN node
    BY <1>1 DEF NodeOf
  <2>2. RequiredOf(attrs).is = "list" /\ DOMAIN RequiredOf(attrs).items = {}
    BY <1>1 DEF RequiredOf, List_, Document
  <2>3. QED
    BY <2>1, <2>2 DEF RequiresBad, RequiresGood, RequiredNames
<1>2. CASE "requires" \in DOMAIN attrs
  <2>1. "requires" \in DOMAIN node /\ node["requires"] = attrs["requires"]
    BY <1>2 DEF NodeOf
  <2>2. QED
    BY <1>2, <2>1 DEF RequiresBad, RequiresGood, RequiredNames, RequiredOf
<1>3. QED
  BY <1>1, <1>2

LEMMA ObjectIs ==
  ASSUME NEW b, NEW node
  PROVE  LET members == Members(node) IN
         buildObjectSchema(b, node) =
           IF ~AllConvert(members) \/ RequiresBad(node, DOMAIN members) THEN Failed
           ELSE [Plain("object") EXCEPT
                   !.props = [p \in DOMAIN members |-> b[members[p]]],
                   !.requires = RequiredNames(node),
                   !.extra = Additional(b, node, "additionalProperties")]
  BY DEF buildObjectSchema, AllConvert, RequiresBad

LEMMA ObjectWell ==
  ASSUME NEW b, NEW w, NEW attrs, FitsBelow(b, w, attrs), NEW node, NodeOf(node, attrs),
         \A a \in DOMAIN attrs : w[attrs[a]] => Converts(attrs[a])
  PROVE  Whole(buildObjectSchema(b, node)) # Failed <=> DescribesObject(w, attrs)
<1> PICK members : members = Members(node)
  OBVIOUS
<1> PICK extra : extra = Additional(b, node, "additionalProperties")
  OBVIOUS
<1> PICK names : names = NamesOf(w, attrs)
  OBVIOUS
<1>1. DescribesObject(w, attrs) <=>
        /\ PropsGood(w, attrs) /\ RequiresGood(attrs, names)
        /\ IfGiven(w, attrs, "additionalProperties")
  BY DEF DescribesObject, PropsGood, RequiresGood, RequiredOf, PropsOf, NamesOf
<1>2. extra # Failed <=> IfGiven(w, attrs, "additionalProperties")
  BY AdditionalWell
<1>3. /\ MembersGood(b, members) <=> PropsGood(w, attrs)
      /\ MembersGood(b, members) => DOMAIN members = names
  BY MembersWell
<1> PICK s : s = [Plain("object") EXCEPT !.props = [p \in DOMAIN members |-> b[members[p]]],
                                         !.requires = RequiredNames(node), !.extra = extra]
  OBVIOUS
<1>4. buildObjectSchema(b, node) =
        IF ~AllConvert(members) \/ RequiresBad(node, DOMAIN members) THEN Failed ELSE s
  BY ObjectIs
<1>5. /\ s.kind = "object" /\ s.sub = <<>> /\ s.props = [p \in DOMAIN members |-> b[members[p]]]
      /\ s.extra = extra /\ s.returns = Nothing
  BY DEF Plain
<1>6. Whole(s) # Failed <=> (\A p \in DOMAIN members : b[members[p]] # Failed) /\ extra # Failed
  <2> PICK kind : kind = s.kind
    OBVIOUS
  <2>1. s.kind # "build error" /\ DOMAIN s.sub = {} /\ s.returns # Failed
    <3>1. kind = "object" /\ s.sub = <<>> /\ s.returns = Nothing
      BY <1>5
    <3>2. s.kind # "build error"
      BY ONLY <3>1, kind = s.kind
    <3>3. DOMAIN s.sub = {}
      BY ONLY <3>1
    <3>4. QED
      BY <3>1, <3>2, <3>3, PlainIs
  <2>2. Whole(s) # Failed <=> (\A p \in DOMAIN s.props : s.props[p] # Failed) /\ extra # Failed
    <3>1. s.extra = extra
      BY ONLY <1>5
    <3>2. Whole(s) # Failed <=> /\ \A i \in DOMAIN s.sub : s.sub[i] # Failed
                                /\ \A p \in DOMAIN s.props : s.props[p] # Failed
                                /\ s.extra # Failed /\ s.returns # Failed
      BY ONLY <2>1, WholeIs
    <3>3. QED
      BY ONLY <2>1, <3>1, <3>2
  <2>3. DOMAIN s.props = DOMAIN members /\ \A p \in DOMAIN members : s.props[p] = b[members[p]]
    BY ONLY <1>5
  <2>4. QED
    BY ONLY <2>2, <2>3
<1>7. RequiresBad(node, DOMAIN members) <=> ~RequiresGood(attrs, DOMAIN members)
  BY RequiresWell
<1>8. CASE ~AllConvert(members) \/ RequiresBad(node, DOMAIN members)
  <2>1. Whole(buildObjectSchema(b, node)) = Failed
    BY <1>4, <1>8, PlainIs
  <2>2. ~DescribesObject(w, attrs)
    BY <1>1, <1>3, <1>7, <1>8 DEF MembersGood
  <2>3. QED
    BY <2>1, <2>2
<1>9. CASE AllConvert(members) /\ ~RequiresBad(node, DOMAIN members)
  <2>1. Whole(buildObjectSchema(b, node)) # Failed <=> MembersGood(b, members) /\ extra # Failed
    BY <1>4, <1>6, <1>9 DEF MembersGood
  <2>2. MembersGood(b, members) => RequiresGood(attrs, names)
    BY <1>3, <1>7, <1>9
  <2>3. QED
    BY <1>1, <1>2, <1>3, <2>1, <2>2
<1>10. QED
  BY <1>8, <1>9

\* The type by which a node is built.
TypeIn(node) == IF Is(node, "type", {"string"}) THEN node["type"].text ELSE "unknown"

Schema(b, node) ==
  LET type == TypeIn(node) IN
  CASE type = "number" -> buildNumberSchema(node, AttrFloat(node, "maximum"), AttrFloat(node, "minimum"))
    [] type = "integer" -> buildNumberSchema(node, AttrInt(node, "maximum"), AttrInt(node, "minimum"))
    [] type \in {"bool", "any", "null"} -> Plain(type)
    [] type = "string" -> buildStringSchema(node)
    [] type \in {"anyOf", "allOf"} -> buildChoices(b, node, type)
    [] type = "not" -> buildNotSchema(b, node)
    [] type = "list" -> buildListSchema(b, node)
    [] type = "object" -> buildObjectSchema(b, node)
    [] type = "method" -> buildMethodSchema(b, node)
    [] OTHER -> Failed

LEMMA NodeMapIs ==
  ASSUME NEW b, NEW node
  PROVE  buildNodeMap(b, node) = Mixin(node, Whole(Schema(b, node)))
  BY DEF buildNodeMap, Schema, TypeIn

LEMMA TypeInIs ==
  ASSUME NEW doc \in Json, doc.is = "map"
  PROVE  LET type == TypeIn(Typed(doc.attrs)) IN
         \/ type = TypeOf(doc.attrs)
         \/ type = "unknown" /\ TypeOf(doc.attrs) = ""
<1> PICK attrs : attrs = doc.attrs
  OBVIOUS
<1>1. CASE "type" \in DOMAIN attrs
  <2>1. Typed(attrs) = attrs /\ TypeOf(attrs) = attrs["type"].text
    BY <1>1, TypedIs DEF TypeOf
  <2>2. attrs["type"].is # "string" => attrs["type"].text = ""
    BY <1>1, PartsAre DEF IsDocument
  <2>3. QED
    BY <1>1, <2>1, <2>2 DEF TypeIn, Is
<1>2. CASE "type" \notin DOMAIN attrs /\ HintsIn(attrs) = {}
  <2>1. Typed(attrs) = attrs
    BY <1>2, TypedIs
  <2>2. DOMAIN attrs \cap DOMAIN Guess = {}
    BY <1>2, NoHints
  <2>3. TypeOf(attrs) = "unknown"
    BY <1>2, <2>2 DEF TypeOf, Guess
  <2>4. QED
    BY <1>2, <2>1, <2>3 DEF TypeIn, Is
<1>3. CASE "type" \notin DOMAIN attrs /\ HintsIn(attrs) # {}
  <2> PICK guess : guess = Guess[Hints[Min(HintsIn(attrs))]]
    OBVIOUS
  <2>1. TypeOf(attrs) = guess
    BY <1>3, GuessIs
  <2>2. "type" \in DOMAIN Typed(attrs) /\ Typed(attrs)["type"] = String(guess)
    <3>1. /\ DOMAIN Typed(attrs) = DOMAIN attrs \cup {"type"}
          /\ Typed(attrs)["type"] = String(Guess[Hints[Min(HintsIn(attrs))]])
      BY ONLY <1>3, TypedIs
    <3>2. QED
      BY ONLY <3>1, guess = Guess[Hints[Min(HintsIn(attrs))]]
  <2>3. TypeIn(Typed(attrs)) = guess
    BY <2>2, StringIs DEF TypeIn, Is
  <2>4. QED
    BY <2>1, <2>3
<1>4. QED
  BY <1>1, <1>2, <1>3

\* The text of a type string is one of a scalar.
LEMMA StringWell ==
  ASSUME NEW b, NEW w, NEW doc \in Json, doc.is = "string", Converts(doc)
  PROVE  Build(b, doc) # Failed /\ WellFormedBy(w, doc)
<1> PICK node : node = TypeMap(doc)
  OBVIOUS
<1>1. DOMAIN node = {"type"} /\ node["type"] = doc
  BY NodeIs
<1>2. doc.text \in {"string", "number", "integer", "bool", "null"}
  BY DEF Converts
<1>3. TypeIn(node) = doc.text
  BY <1>1 DEF TypeIn, Is
<1>4. Whole(Schema(b, node)) # Failed
  <2>1. CASE doc.text = "string"
    BY <1>3, <2>1, ScalarWell DEF Schema
  <2>2. CASE doc.text = "number"
    BY <1>1, <1>3, <2>2, ScalarWell DEF Schema
  <2>3. CASE doc.text = "integer"
    BY <1>1, <1>3, <2>3, ScalarWell DEF Schema
  <2>4. CASE doc.text = "bool"
    BY <1>3, <2>4, ScalarWell DEF Schema
  <2>5. CASE doc.text = "null"
    BY <1>3, <2>5, ScalarWell DEF Schema
  <2>6. QED
    BY <1>2, <2>1, <2>2, <2>3, <2>4, <2>5
<1>5. Mixin(node, Whole(Schema(b, node))) = Whole(Schema(b, node))
  BY <1>1 DEF Mixin
<1>6. Build(b, doc) # Failed
  BY <1>4, <1>5, NodeMapIs DEF Build
<1>7. WellFormedBy(w, doc)
  BY <1>2 DEF WellFormedBy
<1>8. QED
  BY <1>6, <1>7

\* What a map of some type must be.
Describes(w, attrs) ==
  LET type == TypeOf(attrs) IN
  CASE type \in {"any", "null", "bool", "integer", "number", "string"} -> TRUE
    [] type \in {"anyOf", "allOf"} -> type \in DOMAIN attrs /\ AllGood(w, attrs[type])
    [] type = "not" -> "not" \in DOMAIN attrs /\ w[attrs["not"]]
    [] type = "list" -> DescribesList(w, attrs)
    [] type = "method" -> DescribesMethod(w, attrs)
    [] type = "object" -> DescribesObject(w, attrs)
    [] OTHER -> FALSE

LEMMA SchemaWell ==
  ASSUME NEW b, NEW w, NEW doc \in Json, doc.is = "map", FitsBelow(b, w, doc.attrs),
         \A a \in DOMAIN doc.attrs : w[doc.attrs[a]] => Converts(doc.attrs[a]),
         \A a \in DOMAIN doc.attrs : doc.attrs[a].is = "list" => b[doc.attrs[a]] = Failed
  PROVE  Whole(Schema(b, Typed(doc.attrs))) # Failed <=> Describes(w, doc.attrs)
<1> PICK attrs : attrs = doc.attrs
  OBVIOUS
<1> PICK node : node = Typed(attrs)
  OBVIOUS
<1> PICK type : type = TypeOf(attrs)
  OBVIOUS
<1>1. NodeOf(node, attrs)
  BY TypedNode
<1>2. TypeIn(node) = type \/ (TypeIn(node) = "unknown" /\ type = "")
  BY TypeInIs
<1>3. type \in {"number", "integer"} => node["type"].text = type
  BY <1>2 DEF TypeIn
<1>4. CASE type \in {"any", "null", "bool", "integer", "number", "string"}
  <2>1. TypeIn(node) = type
    BY <1>2, <1>4
  <2>2. Describes(w, attrs)
    BY <1>4 DEF Describes
  <2>3. CASE type \in {"any", "null", "bool"}
    <3>1. Schema(b, node) = Plain(type)
      BY <2>1, <2>3 DEF Schema
    <3>2. QED
      BY <2>2, <2>3, <3>1, ScalarWell
  <2>4. CASE type = "string"
    BY <2>1, <2>2, <2>4, ScalarWell DEF Schema
  <2>5. CASE type \in {"integer", "number"}
    <3>1. Schema(b, node) \in {buildNumberSchema(node, AttrFloat(node, "maximum"), AttrFloat(node, "minimum")),
                               buildNumberSchema(node, AttrInt(node, "maximum"), AttrInt(node, "minimum"))}
      BY <2>1, <2>5 DEF Schema
    <3>2. QED
      BY <1>3, <2>2, <2>5, <3>1, ScalarWell
  <2>6. QED
    BY <1>4, <2>3, <2>4, <2>5
<1>5. CASE type \in {"anyOf", "allOf"}
  <2>1. Schema(b, node) = buildChoices(b, node, type)
    BY <1>2, <1>5 DEF Schema
  <2>2. Describes(w, attrs) <=> type \in DOMAIN attrs /\ AllGood(w, attrs[type])
    BY <1>5 DEF Describes
  <2>3. QED
    BY <1>1, <1>5, <2>1, <2>2, ChoicesWell
<1>6. CASE type = "not"
  <2>1. Schema(b, node) = buildNotSchema(b, node)
    BY <1>2, <1>6 DEF Schema
  <2>2. Describes(w, attrs) <=> "not" \in DOMAIN attrs /\ w[attrs["not"]]
    BY <1>6 DEF Describes
  <2>3. QED
    BY <1>1, <2>1, <2>2, NotWell
<1>7. CASE type = "list"
  <2>1. Schema(b, node) = buildListSchema(b, node)
    BY <1>2, <1>7 DEF Schema
  <2>2. Describes(w, attrs) <=> DescribesList(w, attrs)
    BY <1>7 DEF Describes
  <2>3. QED
    BY <1>1, <2>1, <2>2, ListWell
<1>8. CASE type = "method"
  <2>1. Schema(b, node) = buildMethodSchema(b, node)
    BY <1>2, <1>8 DEF Schema
  <2>2. Describes(w, attrs) <=> DescribesMethod(w, attrs)
    BY <1>8 DEF Describes
  <2>3. QED
    BY <1>1, <2>1, <2>2, MethodWell
<1>9. CASE type = "object"
  <2>1. Schema(b, node) = buildObjectSchema(b, node)
    BY <1>2, <1>9 DEF Schema
  <2>2. Describes(w, attrs) <=> DescribesObject(w, attrs)
    BY <1>9 DEF Describes
  <2>3. QED
    BY <1>1, <2>1, <2>2, ObjectWell
<1>10. CASE type \notin {"any", "null", "bool", "integer", "number", "string", "anyOf", "allOf",
                         "not", "list", "method", "object"}
  <2>1. Schema(b, node) = Failed
    BY <1>2, <1>10 DEF Schema
  <2>2. ~Describes(w, attrs)
    BY <1>10 DEF Describes
  <2>3. QED
    BY <2>1, <2>2, PlainIs
<1>11. QED
  BY <1>4, <1>5, <1>6, <1>7, <1>8, <1>9, <1>10

LEMMA RefusesStep ==
  ASSUME NEW b, NEW w, NEW doc \in Json, \A part \in Within(doc) : Fits(b, w, part),
         b[doc] = Build(b, doc), w[doc] = WellFormedBy(w, doc)
  PROVE  Fits(b, w, doc)
<1>1. ~Converts(doc) => b[doc] = Failed
  BY DEF Build
<1>2. doc.is = "string" /\ Converts(doc) => b[doc] # Failed /\ w[doc]
  BY StringWell
<1>3. doc.is = "map" /\ w[doc] => Named(doc.attrs)
  BY DEF WellFormedBy
<1>4. b[doc] # Failed <=> w[doc]
  <2>1. CASE ~Converts(doc)
    <3>1. doc.is # "map" /\ ~(doc.is = "string" /\ doc.text \in {"null", "bool", "integer", "number", "string"})
      BY <2>1 DEF Converts
    <3>2. ~w[doc]
      BY <3>1 DEF WellFormedBy
    <3>3. QED
      BY <1>1, <2>1, <3>2
  <2>2. CASE Converts(doc) /\ doc.is # "map"
    <3>1. doc.is = "string"
      BY <2>2 DEF Converts
    <3>2. QED
      BY <1>2, <2>2, <3>1
  <2>3. CASE doc.is = "map"
    <3> PICK attrs : attrs = doc.attrs
      OBVIOUS
    <3> PICK node : node = Typed(attrs)
      OBVIOUS
    <3>1. Converts(doc) /\ TypeMap(doc) = node
      BY <2>3 DEF Converts, TypeMap
    <3>2. ASSUME NEW a \in DOMAIN attrs PROVE Fits(b, w, attrs[a]) /\ FitsIn(b, w, attrs[a])
      <4>1. attrs[a] \in Parts(doc)
        BY PartsAre
      <4>2. attrs[a] \in Json /\ attrs[a] \in Within(doc) /\ Parts(attrs[a]) \subseteq Within(doc)
        BY <4>1, PartsAre, WithinAre
      <4>3. QED
        BY <4>2, PartsAre DEF FitsIn
    <3>3. FitsBelow(b, w, attrs)
      BY <3>2 DEF FitsBelow
    <3>4. /\ \A a \in DOMAIN attrs : w[attrs[a]] => Converts(attrs[a])
          /\ \A a \in DOMAIN attrs : attrs[a].is = "list" => b[attrs[a]] = Failed
      BY <3>2 DEF Fits, Converts
    <3>5. Whole(Schema(b, node)) # Failed <=> Describes(w, attrs)
      BY <2>3, <3>3, <3>4, SchemaWell
    <3>6. b[doc] = IF Named(attrs) THEN Whole(Schema(b, node)) ELSE Failed
      BY <3>1, NodeMapIs, TypedNode, MixinIs DEF Build
    <3>7. w[doc] <=> Named(attrs) /\ Describes(w, attrs)
      BY <2>3 DEF WellFormedBy, Describes
    <3>8. QED
      BY <3>5, <3>6, <3>7
  <2>4. QED
    BY <2>1, <2>2, <2>3
<1>5. QED
  BY <1>1, <1>2, <1>3, <1>4 DEF Fits

LEMMA AllFit ==
  ASSUME DocumentsAreTrees
  PROVE  \A doc \in Json : Fits(buildNode, WellFormed, doc)
<1> PICK D : D = {doc \in Json : ~Fits(buildNode, WellFormed, doc)}
  OBVIOUS
<1>1. SUFFICES ASSUME D # {} PROVE FALSE
  OBVIOUS
<1>2. PICK doc \in D : Within(doc) \cap D = {}
  BY <1>1, WithinTrees
<1>3. doc \in Json /\ Within(doc) \subseteq Json
  BY <1>2, WithinAre
<1>4. \A part \in Within(doc) : Fits(buildNode, WellFormed, part)
  BY <1>2, <1>3
<1>5. /\ buildNode[doc] = Build(buildNode, doc)
      /\ WellFormed[doc] = WellFormedBy(WellFormed, doc)
  BY <1>3, BuildNodeIs, WellFormedIs
<1>6. Fits(buildNode, WellFormed, doc)
  BY <1>3, <1>4, <1>5, RefusesStep
<1>7. QED
  BY <1>2, <1>6

-----------------------------------------------------------------------------
(* What is built, of what.                                                 *)

\* A schema has only the parts its kind has.
Form(s) ==
  /\ s = [kind |-> s.kind, min |-> s.min, max |-> s.max, exmin |-> s.exmin, exmax |-> s.exmax,
          sub |-> s.sub, extra |-> s.extra, returns |-> s.returns, props |-> s.props,
          requires |-> s.requires]
  /\ s.kind \notin {"number", "integer"} => s.exmin = Nothing /\ s.exmax = Nothing
  /\ s.kind \notin {"number", "integer", "string", "list"} => s.min = Nothing /\ s.max = Nothing
  /\ s.kind \notin {"anyOf", "allOf", "not", "list", "tuple", "method"} => s.sub = <<>>
  /\ s.kind \notin {"tuple", "method", "object"} => s.extra = Nothing
  /\ s.kind # "method" => s.returns = Nothing
  /\ s.kind # "object" => s.props = None /\ s.requires = {}

\* The names of properties are no hints, unless there is a type among them.
OwnNames(s) ==
  /\ "type" \in DOMAIN s.props \/ HintsIn(s.props) = {}
  /\ s.props = [p \in DOMAIN s.props |-> s.props[p]]

\* What a schema built from doc is made of.
Stock(b, doc) == {b[part] : part \in Within(doc)} \cup {Plain("any"), Nothing}
MadeOf(stock, s) ==
  /\ \A i \in DOMAIN s.sub : s.sub[i] \in stock
  /\ \A p \in DOMAIN s.props : s.props[p] \in stock
  /\ s.extra \in stock /\ s.returns \in stock

LEMMA PlainForm ==
  ASSUME NEW kind, NEW b, NEW doc
  PROVE  Form(Plain(kind)) /\ OwnNames(Plain(kind)) /\ MadeOf(Stock(b, doc), Plain(kind))
<1> PICK s : s = Plain(kind)
  OBVIOUS
<1>1. Form(s)
  BY DEF Form, Plain
<1>2. DOMAIN s.sub = {} /\ DOMAIN s.props = {} /\ s.extra = Nothing /\ s.returns = Nothing
  BY PlainIs
<1>3. MadeOf(Stock(b, doc), s)
  BY <1>2 DEF MadeOf, Stock
<1>4. OwnNames(s)
  <2>1. s.props = None
    BY DEF Plain
  <2>2. None = [p \in DOMAIN None |-> None[p]]
    BY ONLY DEF None
  <2>3. HintsIn(s.props) = {}
    BY <1>2 DEF HintsIn
  <2>4. QED
    BY <2>1, <2>2, <2>3 DEF OwnNames
<1>5. QED
  BY <1>1, <1>3, <1>4

LEMMA NoProps ==
  ASSUME NEW s, s.props = None
  PROVE  OwnNames(s) /\ DOMAIN s.props = {}
<1>1. DOMAIN None = {} /\ None = [p \in DOMAIN None |-> None[p]]
  BY ONLY DEF None
<1>2. HintsIn(None) = {}
  BY <1>1 DEF HintsIn
<1>3. QED
  BY <1>1, <1>2 DEF OwnNames

\* What is read of an attribute.
LEMMA StockOf ==
  ASSUME NEW b, NEW doc \in Json, Converts(doc), NEW a \in DOMAIN TypeMap(doc), a # "type"
  PROVE  LET x == TypeMap(doc)[a] IN
         /\ b[x] \in Stock(b, doc)
         /\ \A i \in DOMAIN Each(b, x.items) : Each(b, x.items)[i] \in Stock(b, doc)
         /\ \A p \in DOMAIN x.attrs : b[x.attrs[p]] \in Stock(b, doc)
<1> PICK x : x = TypeMap(doc)[a]
  OBVIOUS
<1>1. x \in Parts(doc)
  BY NodeIs
<1>2. x \in Json /\ x \in Within(doc) /\ Parts(x) \subseteq Within(doc)
  BY <1>1, PartsAre, WithinAre
<1>3. b[x] \in Stock(b, doc)
  BY <1>2 DEF Stock
<1>4. \A i \in DOMAIN x.items : b[x.items[i]] \in Stock(b, doc)
  BY <1>2, PartsAre DEF Stock
<1>5. \A p \in DOMAIN x.attrs : b[x.attrs[p]] \in Stock(b, doc)
  BY <1>2, PartsAre DEF Stock
<1>6. QED
  BY <1>3, <1>4, <1>5 DEF Each

LEMMA StockAdditional ==
  ASSUME NEW b, NEW doc \in Json, Converts(doc), NEW attr, attr # "type"
  PROVE  Additional(b, TypeMap(doc), attr) \in Stock(b, doc)
  BY StockOf DEF Additional, Stock

Made(b, doc, s) == Form(s) /\ OwnNames(s) /\ MadeOf(Stock(b, doc), s)

LEMMA ScalarMade ==
  ASSUME NEW b, NEW doc, NEW node, NEW x, NEW y
  PROVE  /\ \A kind : Made(b, doc, Plain(kind))
         /\ Made(b, doc, buildStringSchema(node)) /\ buildStringSchema(node).kind = "string"
         /\ node["type"].text \in {"number", "integer"} =>
              /\ Made(b, doc, buildNumberSchema(node, x, y))
              /\ buildNumberSchema(node, x, y).kind = node["type"].text
<1>1. \A kind : Made(b, doc, Plain(kind))
  BY PlainForm DEF Made
<1>2. Nothing \in Stock(b, doc)
  BY DEF Stock
<1>3. ASSUME NEW s, s.props = None, s.sub = <<>>, s.extra = Nothing, s.returns = Nothing, Form(s)
      PROVE  Made(b, doc, s)
  <2>1. DOMAIN s.sub = {} /\ DOMAIN s.props = {} /\ OwnNames(s)
    <3>1. DOMAIN s.sub = {}
      BY ONLY <1>3
    <3>2. QED
      BY <1>3, <3>1, NoProps
  <2>2. QED
    BY <1>2, <1>3, <2>1 DEF Made, MadeOf
<1>4. Made(b, doc, buildStringSchema(node)) /\ buildStringSchema(node).kind = "string"
  <2> PICK s : s = buildStringSchema(node)
    OBVIOUS
  <2>1. /\ s.kind = "string" /\ s.props = None /\ s.sub = <<>> /\ s.extra = Nothing
        /\ s.returns = Nothing /\ Form(s)
    BY DEF buildStringSchema, Plain, Form
  <2>2. QED
    BY <1>3, <2>1
<1>5. ASSUME node["type"].text \in {"number", "integer"}
      PROVE  /\ Made(b, doc, buildNumberSchema(node, x, y))
             /\ buildNumberSchema(node, x, y).kind = node["type"].text
  <2> PICK s : s = buildNumberSchema(node, x, y)
    OBVIOUS
  <2>1. /\ s.kind = node["type"].text /\ s.props = None /\ s.sub = <<>> /\ s.extra = Nothing
        /\ s.returns = Nothing
    BY DEF buildNumberSchema, Plain
  <2>2. Form(s)
    BY <1>5 DEF buildNumberSchema, Plain, Form
  <2>3. QED
    BY <1>3, <2>1, <2>2
<1>6. QED
  BY <1>1, <1>4, <1>5

LEMMA ChoicesMade ==
  ASSUME NEW b, NEW doc \in Json, Converts(doc), NEW attr \in {"anyOf", "allOf"},
         NEW s, s = buildChoices(b, TypeMap(doc), attr), s # Failed
  PROVE  Made(b, doc, s) /\ s.kind = attr
<1> PICK node : node = TypeMap(doc)
  OBVIOUS
<1> PICK sub : sub = Each(b, node[attr].items)
  OBVIOUS
<1>1. attr \in DOMAIN node /\ s = [Plain(attr) EXCEPT !.sub = sub]
  BY DEF buildChoices, ListOfMaps, Is
<1>2. \A i \in DOMAIN sub : sub[i] \in Stock(b, doc)
  BY <1>1, StockOf
<1>3. /\ s.kind = attr /\ s.sub = sub /\ s.props = None /\ s.extra = Nothing
      /\ s.returns = Nothing /\ Form(s)
  <2>1. /\ s.kind = attr /\ s.sub = sub /\ s.props = None /\ s.requires = {}
        /\ s.extra = Nothing /\ s.returns = Nothing /\ s.min = Nothing /\ s.max = Nothing
        /\ s.exmin = Nothing /\ s.exmax = Nothing
    BY ONLY <1>1 DEF Plain
  <2>2. s = [kind |-> s.kind, min |-> s.min, max |-> s.max, exmin |-> s.exmin,
             exmax |-> s.exmax, sub |-> s.sub, extra |-> s.extra, returns |-> s.returns,
             props |-> s.props, requires |-> s.requires]
    BY ONLY <1>1 DEF Plain
  <2>3. QED
    BY ONLY <2>1, <2>2, attr \in {"anyOf", "allOf"} DEF Form
<1>4. DOMAIN s.props = {} /\ OwnNames(s)
  BY <1>3, NoProps
<1>5. Nothing \in Stock(b, doc)
  BY DEF Stock
<1>6. MadeOf(Stock(b, doc), s)
  BY <1>2, <1>3, <1>4, <1>5 DEF MadeOf
<1>7. QED
  BY <1>3, <1>4, <1>6 DEF Made

LEMMA NotMade ==
  ASSUME NEW b, NEW doc \in Json, Converts(doc),
         NEW s, s = buildNotSchema(b, TypeMap(doc)), s # Failed
  PROVE  Made(b, doc, s) /\ s.kind = "not"
<1> PICK node : node = TypeMap(doc)
  OBVIOUS
<1> PICK kid : kid = b[node["not"]]
  OBVIOUS
<1>1. "not" \in DOMAIN node /\ s = [Plain("not") EXCEPT !.sub = <<kid>>]
  BY DEF buildNotSchema
<1>2. kid \in Stock(b, doc)
  BY <1>1, StockOf
<1>3. /\ s.kind = "not" /\ s.sub = <<kid>> /\ s.props = None /\ s.extra = Nothing
      /\ s.returns = Nothing /\ Form(s)
  BY <1>1 DEF Plain, Form
<1>4. DOMAIN s.props = {} /\ OwnNames(s)
  BY <1>3, NoProps
<1>5. \A i \in DOMAIN s.sub : s.sub[i] = kid
  BY ONLY <1>3
<1>6. Nothing \in Stock(b, doc)
  BY DEF Stock
<1>7. MadeOf(Stock(b, doc), s)
  BY <1>2, <1>3, <1>4, <1>5, <1>6 DEF MadeOf
<1>8. QED
  BY <1>3, <1>4, <1>7 DEF Made

LEMMA ListMade ==
  ASSUME NEW b, NEW doc \in Json, Converts(doc),
         NEW s, s = buildListSchema(b, TypeMap(doc)), s # Failed
  PROVE  Made(b, doc, s) /\ s.kind \in {"list", "tuple"}
<1> PICK node : node = TypeMap(doc)
  OBVIOUS
<1>1. "items" \in DOMAIN node
  BY DEF buildListSchema, Is
<1>2. Nothing \in Stock(b, doc)
  BY DEF Stock
<1>3. CASE node["items"].is = "list"
  <2> PICK sub : sub = Each(b, node["items"].items)
    OBVIOUS
  <2> PICK extra : extra = Additional(b, node, "additionalItems")
    OBVIOUS
  <2>1. s = [Plain("tuple") EXCEPT !.sub = sub, !.extra = extra]
    BY <1>1, <1>3 DEF buildListSchema, Is
  <2>2. (\A i \in DOMAIN sub : sub[i] \in Stock(b, doc)) /\ extra \in Stock(b, doc)
    BY <1>1, StockOf, StockAdditional
  <2>3. /\ s.kind = "tuple" /\ s.sub = sub /\ s.props = None /\ s.extra = extra
        /\ s.returns = Nothing /\ Form(s)
    BY <2>1 DEF Plain, Form
  <2>4. DOMAIN s.props = {} /\ OwnNames(s)
    BY <2>3, NoProps
  <2>5. MadeOf(Stock(b, doc), s)
    BY <1>2, <2>2, <2>3, <2>4 DEF MadeOf
  <2>6. QED
    BY <2>3, <2>4, <2>5 DEF Made
<1>4. CASE node["items"].is # "list"
  <2> PICK kid : kid = b[node["items"]]
    OBVIOUS
  <2> PICK max : max = AttrLength(node, "maxItems")
    OBVIOUS
  <2> PICK min : min = AttrLength(node, "minItems")
    OBVIOUS
  <2>1. s = [Plain("list") EXCEPT !.sub = <<kid>>, !.max = max, !.min = min]
    BY <1>1, <1>4 DEF buildListSchema, Is
  <2>2. kid \in Stock(b, doc)
    BY <1>1, StockOf
  <2>3. /\ s.kind = "list" /\ s.sub = <<kid>> /\ s.props = None /\ s.extra = Nothing
        /\ s.returns = Nothing /\ Form(s)
    BY <2>1 DEF Plain, Form
  <2>4. DOMAIN s.props = {} /\ OwnNames(s)
    BY <2>3, NoProps
  <2>5. \A i \in DOMAIN s.sub : s.sub[i] = kid
    BY ONLY <2>3
  <2>6. MadeOf(Stock(b, doc), s)
    BY <1>2, <2>2, <2>3, <2>4, <2>5 DEF MadeOf
  <2>7. QED
    BY <2>3, <2>4, <2>6 DEF Made
<1>5. QED
  BY <1>3, <1>4

LEMMA MethodMade ==
  ASSUME NEW b, NEW doc \in Json, Converts(doc),
         NEW s, s = buildMethodSchema(b, TypeMap(doc)), s # Failed, Whole(s) # Failed
  PROVE  Made(b, doc, s) /\ s.kind = "method"
<1> PICK node : node = TypeMap(doc)
  OBVIOUS
<1> PICK sub : sub = Each(b, node["params"].items)
  OBVIOUS
<1> PICK extra : extra = Additional(b, node, "additionalParams")
  OBVIOUS
<1> PICK returns : returns = buildReturns(b, node)
  OBVIOUS
<1>1. /\ "params" \in DOMAIN node
      /\ s = [Plain("method") EXCEPT !.sub = sub, !.extra = extra, !.returns = returns]
  BY DEF buildMethodSchema, ListOfMaps, Is
<1>2. (\A i \in DOMAIN sub : sub[i] \in Stock(b, doc)) /\ extra \in Stock(b, doc)
  BY <1>1, StockOf, StockAdditional
<1>3. /\ s.kind = "method" /\ s.sub = sub /\ s.props = None /\ s.extra = extra
      /\ s.returns = returns /\ Form(s)
  BY <1>1 DEF Plain, Form
<1>4. returns \in Stock(b, doc)
  <2>1. returns # Failed
    BY <1>3, WholeIs
  <2>2. returns \in {Plain("any"), Nothing, Failed}
        \/ ("returns" \in DOMAIN node /\ returns = b[node["returns"]])
    BY DEF buildReturns, Mixin
  <2>3. {Plain("any"), Nothing} \subseteq Stock(b, doc)
    BY DEF Stock
  <2>4. QED
    BY <2>1, <2>2, <2>3, StockOf
<1>5. DOMAIN s.props = {} /\ OwnNames(s)
  BY <1>3, NoProps
<1>6. MadeOf(Stock(b, doc), s)
  BY <1>2, <1>3, <1>4, <1>5 DEF MadeOf
<1>7. QED
  BY <1>3, <1>5, <1>6 DEF Made

LEMMA ObjectMade ==
  ASSUME NEW b, NEW doc \in Json, Converts(doc),
         NEW s, s = buildObjectSchema(b, TypeMap(doc)), s # Failed
  PROVE  Made(b, doc, s) /\ s.kind = "object"
<1> PICK node : node = TypeMap(doc)
  OBVIOUS
<1> PICK members : members = Members(node)
  OBVIOUS
<1> PICK props : props = [p \in DOMAIN members |-> b[members[p]]]
  OBVIOUS
<1> PICK extra : extra = Additional(b, node, "additionalProperties")
  OBVIOUS
<1>1. /\ AllConvert(members)
      /\ s = [Plain("object") EXCEPT !.props = props, !.requires = RequiredNames(node), !.extra = extra]
  BY ObjectIs
<1>2. /\ s.kind = "object" /\ s.sub = <<>> /\ s.props = props /\ s.extra = extra
      /\ s.returns = Nothing /\ Form(s)
  BY <1>1 DEF Plain, Form
<1>3. MembersForm(node, members)
  BY <1>1, MembersAre
<1>4. extra \in Stock(b, doc) /\ Nothing \in Stock(b, doc)
  BY StockAdditional DEF Stock
<1>5. (\A p \in DOMAIN members : b[members[p]] \in Stock(b, doc))
      /\ ("type" \in DOMAIN members \/ HintsIn(members) = {})
  <2>1. CASE members = None
    <3>1. DOMAIN members = {}
      BY <2>1 DEF None
    <3>2. QED
      BY <3>1 DEF HintsIn
  <2>2. CASE /\ "properties" \in DOMAIN node /\ members = node["properties"].attrs
             /\ "type" \in DOMAIN members \/ HintsIn(members) = {}
    BY <2>2, StockOf
  <2>3. CASE "properties" \in DOMAIN node /\ members = [type |-> node["properties"]]
    <3>1. b[node["properties"]] \in Stock(b, doc)
      BY <2>3, StockOf
    <3>2. DOMAIN members = {"type"} /\ members["type"] = node["properties"]
      BY ONLY <2>3
    <3>3. QED
      BY ONLY <3>1, <3>2
  <2>4. QED
    BY <1>3, <2>1, <2>2, <2>3 DEF MembersForm
<1>6. DOMAIN s.props = DOMAIN members /\ \A p \in DOMAIN members : s.props[p] = b[members[p]]
  BY ONLY <1>2, props = [p \in DOMAIN members |-> b[members[p]]]
<1>7. OwnNames(s)
  <2>1. "type" \in DOMAIN s.props \/ HintsIn(s.props) = {}
    BY <1>5, <1>6 DEF HintsIn
  <2>2. props = [p \in DOMAIN props |-> props[p]]
    BY ONLY props = [p \in DOMAIN members |-> b[members[p]]]
  <2>3. QED
    BY <1>2, <2>1, <2>2 DEF OwnNames
<1>8. DOMAIN s.sub = {}
  BY ONLY <1>2
<1>9. MadeOf(Stock(b, doc), s)
  BY <1>2, <1>4, <1>5, <1>6, <1>8 DEF MadeOf
<1>10. QED
  BY <1>2, <1>7, <1>9 DEF Made

LEMMA BuiltMade ==
  ASSUME NEW b, NEW doc \in Json, NEW s, s = Build(b, doc), s # Failed
  PROVE  Made(b, doc, s)
<1> PICK node : node = TypeMap(doc)
  OBVIOUS
<1> PICK type : type = TypeIn(node)
  OBVIOUS
<1>1. Converts(doc) /\ s = Mixin(node, Whole(Schema(b, node)))
  BY NodeMapIs DEF Build
<1>2. s = Schema(b, node) /\ Whole(s) # Failed
  <2>1. s = Whole(Schema(b, node))
    BY <1>1 DEF Mixin
  <2>2. s = Schema(b, node)
    BY <2>1 DEF Whole
  <2>3. QED
    BY <2>1, <2>2
<1>3. type \in {"number", "integer"} => node["type"].text = type
  BY DEF TypeIn
<1>4. CASE type \in {"number", "integer"}
  <2>1. s \in {buildNumberSchema(node, AttrFloat(node, "maximum"), AttrFloat(node, "minimum")),
               buildNumberSchema(node, AttrInt(node, "maximum"), AttrInt(node, "minimum"))}
    BY <1>2, <1>4 DEF Schema
  <2>2. QED
    BY <1>3, <1>4, <2>1, ScalarMade
<1>5. CASE type \in {"bool", "any", "null"}
  <2>1. s = Plain(type)
    BY <1>2, <1>5 DEF Schema
  <2>2. QED
    BY <2>1, ScalarMade
<1>6. CASE type = "string"
  <2>1. s = buildStringSchema(node)
    BY <1>2, <1>6 DEF Schema
  <2>2. QED
    BY <2>1, ScalarMade
<1>7. CASE type \in {"anyOf", "allOf"}
  <2>1. s = buildChoices(b, node, type)
    BY <1>2, <1>7 DEF Schema
  <2>2. QED
    BY <1>1, <1>7, <2>1, ChoicesMade
<1>8. CASE type = "not"
  <2>1. s = buildNotSchema(b, node)
    BY <1>2, <1>8 DEF Schema
  <2>2. QED
    BY <1>1, <2>1, NotMade
<1>9. CASE type = "list"
  <2>1. s = buildListSchema(b, node)
    BY <1>2, <1>9 DEF Schema
  <2>2. QED
    BY <1>1, <2>1, ListMade
<1>10. CASE type = "object"
  <2>1. s = buildObjectSchema(b, node)
    BY <1>2, <1>10 DEF Schema
  <2>2. QED
    BY <1>1, <2>1, ObjectMade
<1>11. CASE type = "method"
  <2>1. s = buildMethodSchema(b, node)
    BY <1>2, <1>11 DEF Schema
  <2>2. QED
    BY <1>1, <1>2, <2>1, MethodMade
<1>12. CASE type \notin {"number", "integer", "bool", "any", "null", "string", "anyOf", "allOf",
                         "not", "list", "object", "method"}
  <2>1. s = Failed
    BY <1>2, <1>12 DEF Schema
  <2>2. QED
    BY <2>1
<1>13. QED
  BY <1>4, <1>5, <1>6, <1>7, <1>8, <1>9, <1>10, <1>11, <1>12

\* Every schema was built from some document.
LEMMA SchemaOf ==
  ASSUME DocumentsAreTrees, NEW s \in Schemas
  PROVE  \E doc \in Json : s = buildNode[doc] /\ s # Failed /\ Made(buildNode, doc, s)
<1>1. PICK doc \in Json : s = buildNode[doc] /\ s # Failed
  BY BuilderAssumption
<1>2. s = Build(buildNode, doc)
  BY <1>1, BuildNodeIs
<1>3. Made(buildNode, doc, s)
  BY <1>1, <1>2, BuiltMade
<1>4. QED
  BY <1>1, <1>3

LEMMA KidsMade ==
  ASSUME NEW s \in Schemas, NEW stock, MadeOf(stock, s)
  PROVE  Kids(s) \subseteq stock
<1>1. Kids(s) = Range(s.sub) \cup Range(s.props) \cup ({s.extra, s.returns} \ {Nothing})
  BY BuilderAssumption DEF Kids
<1>2. QED
  BY <1>1 DEF MadeOf, Range

\* So schemas are trees, as the documents are.
LEMMA SchemasFollow ==
  ASSUME DocumentsAreTrees
  PROVE  SchemasAreTrees
<1> PICK any : any = Plain("any")
  OBVIOUS
<1>1. SUFFICES ASSUME NEW S \in SUBSET Schemas, S # {}
               PROVE  \E s \in S : Kids(s) \cap S = {}
  BY DEF SchemasAreTrees
<1>2. CASE any \in S
  <2>1. Kids(any) = {}
    <3>1. MadeOf({Nothing}, any)
      BY PlainIs DEF MadeOf
    <3>2. Kids(any) \subseteq {Nothing} /\ Kids(any) \subseteq Schemas
      BY <1>2, <3>1, KidsMade, OwnShape
    <3>3. QED
      BY <3>2, ValidatorAssumption
  <2>2. QED
    BY <1>2, <2>1
<1>3. CASE any \notin S
  <2> PICK D : D = {doc \in Json : buildNode[doc] \in S}
    OBVIOUS
  <2>1. D # {} /\ D \in SUBSET Json
    <3>1. PICK t \in S : t \in Schemas
      BY <1>1
    <3>2. \E doc \in Json : t = buildNode[doc]
      BY <3>1, SchemaOf
    <3>3. QED
      BY <3>1, <3>2
  <2>2. PICK doc \in D : Within(doc) \cap D = {}
    BY <2>1, WithinTrees
  <2> PICK s : s = buildNode[doc]
    OBVIOUS
  <2>3. s \in S /\ s \in Schemas /\ doc \in Json /\ s # Failed
    BY <2>2, BuilderAssumption
  <2>4. s = Build(buildNode, doc)
    BY <2>3, BuildNodeIs
  <2>5. MadeOf(Stock(buildNode, doc), s)
    BY <2>3, <2>4, BuiltMade DEF Made
  <2>6. Kids(s) \subseteq Stock(buildNode, doc)
    BY <2>3, <2>5, KidsMade
  <2>7. Stock(buildNode, doc) \cap S = {}
    <3>1. \A part \in Within(doc) : buildNode[part] \notin S
      BY <2>2, <2>3, WithinAre
    <3>2. Nothing \notin S
      BY ValidatorAssumption
    <3>3. QED
      BY <1>3, <3>1, <3>2 DEF Stock
  <2>8. QED
    BY <2>3, <2>6, <2>7
<1>4. QED
  BY <1>2, <1>3

-----------------------------------------------------------------------------
(* What is shown, and built again.                                         *)

\* From what is shown of s a schema can be built, and the same unless it hides
\* something.
Shown(map, b, hides, s) ==
  /\ map[s].is = "map" /\ "type" \in DOMAIN map[s].attrs
  /\ b[map[s]] # Failed /\ b[map[s]].kind = s.kind
  /\ b[map[s]] = s <=> ~hides[s]
KidsShown(map, b, hides, s) == \A kid \in Kids(s) : Shown(map, b, hides, kid)

Again(b, map, s) == Build(b, Show(map, s))
ShownAgain(b, map, hides, s) ==
  /\ Again(b, map, s) # Failed /\ Again(b, map, s).kind = s.kind
  /\ Again(b, map, s) = s <=> ~HidesBy(hides, s)

KindShown(s) == IF s.kind = "tuple" THEN "list" ELSE s.kind

LEMMA FormSame ==
  ASSUME NEW s, Form(s), NEW t, Form(t), s.kind = t.kind, s.min = t.min, s.max = t.max,
         s.exmin = t.exmin, s.exmax = t.exmax, s.sub = t.sub, s.extra = t.extra,
         s.returns = t.returns, s.props = t.props, s.requires = t.requires
  PROVE  s = t
  BY DEF Form

\* What is shown, as a node.
ShownNode(map, s) == Merge(One("type", String(KindShown(s))), Attributes(map, s))

LEMMA ShowIs ==
  ASSUME NEW map, NEW s
  PROVE  /\ Show(map, s).is = "map" /\ Show(map, s).attrs = ShownNode(map, s)
         /\ "type" \in DOMAIN ShownNode(map, s)
         /\ TypeIn(ShownNode(map, s)) = KindShown(s)
<1>2. "type" \in DOMAIN ShownNode(map, s) /\ ShownNode(map, s)["type"] = String(KindShown(s))
  BY OneMerge DEF ShownNode
<1>3. Show(map, s).is = "map" /\ Show(map, s).attrs = ShownNode(map, s)
  BY DEF Show, Map_, Document, ShownNode, KindShown
<1>4. TypeIn(ShownNode(map, s)) = KindShown(s)
  BY <1>2, StringIs DEF TypeIn, Is
<1>5. QED
  BY <1>2, <1>3, <1>4

\* What is read of the attributes a schema shows.
ReadsAgain(b, map, s, attrs) ==
  LET node == ShownNode(map, s) IN
  /\ Again(b, map, s) = Whole(Schema(b, node))
  /\ DOMAIN node = DOMAIN attrs \cup {"type"} /\ \A a \in DOMAIN attrs : node[a] = attrs[a]
  /\ node["type"].text = KindShown(s)

LEMMA AgainIs ==
  ASSUME NEW b, NEW map, NEW s, NEW attrs, attrs = Attributes(map, s), "type" \notin DOMAIN attrs,
         "name" \notin DOMAIN attrs, "description" \notin DOMAIN attrs
  PROVE  ReadsAgain(b, map, s, attrs)
<1> PICK node : node = ShownNode(map, s)
  OBVIOUS
<1> PICK one : one = One("type", String(KindShown(s)))
  OBVIOUS
<1>1. DOMAIN one = {"type"} /\ one["type"] = String(KindShown(s))
  BY OneIs
<1>2. node = Merge(one, attrs)
  BY DEF ShownNode
<1>3. DOMAIN node = DOMAIN attrs \cup {"type"} /\ \A a \in DOMAIN attrs : node[a] = attrs[a]
  BY ONLY <1>1, <1>2, "type" \notin DOMAIN attrs DEF Merge
<1>4. node["type"] = String(KindShown(s))
  BY OneMerge DEF ShownNode
<1>5. node["type"].text = KindShown(s)
  BY <1>4, StringIs
<1> PICK doc : doc = Show(map, s)
  OBVIOUS
<1>6. doc.is = "map" /\ doc.attrs = node
  BY ShowIs
<1>7. Converts(doc) /\ TypeMap(doc) = node
  <2>1. Typed(node) = node
    BY <1>3, TypedIs
  <2>2. QED
    BY <1>6, <2>1 DEF Converts, TypeMap
<1>8. Again(b, map, s) = Mixin(node, Whole(Schema(b, node)))
  BY <1>7, NodeMapIs DEF Again, Build
<1>9. {"name", "description"} \cap DOMAIN node = {}
  BY <1>3
<1>10. Again(b, map, s) = Whole(Schema(b, node))
  BY <1>8, <1>9 DEF Mixin
<1>11. QED
  BY <1>3, <1>5, <1>10 DEF ReadsAgain

\* What is hidden by the schema itself, and by what is inside.
HidesOwn(s) ==
  \/ s.kind \in {"string", "list"} /\ {s.min, s.max} # {Nothing}
  \/ s.kind = "tuple" /\ s.extra # Nothing
  \/ s.kind = "method" /\ s.returns = Nothing
  \/ s.exmin # Nothing /\ s.min = Nothing
  \/ s.exmax # Nothing /\ s.max = Nothing
HidesSub(hides, s) == \E i \in DOMAIN s.sub : hides[s.sub[i]]
HidesProps(hides, s) == \E p \in DOMAIN s.props : hides[s.props[p]]
HidesPart(hides, x) == x # Nothing /\ hides[x]

LEMMA HidesIn ==
  ASSUME NEW hides, NEW s
  PROVE  HidesBy(hides, s) <=>
           \/ HidesOwn(s) \/ HidesSub(hides, s) \/ HidesProps(hides, s)
           \/ HidesPart(hides, s.extra) \/ HidesPart(hides, s.returns)
  BY DEF HidesBy, HidesOwn, HidesSub, HidesProps, HidesPart

LEMMA HidesNone ==
  ASSUME NEW hides, NEW s, s.sub = <<>>, s.props = None, s.extra = Nothing, s.returns = Nothing
  PROVE  HidesBy(hides, s) <=> HidesOwn(s)
<1>1. DOMAIN s.sub = {} /\ DOMAIN s.props = {}
  <2>1. DOMAIN s.sub = {}
    BY ONLY s.sub = <<>>
  <2>2. QED
    BY <2>1 DEF None
<1>2. ~HidesSub(hides, s) /\ ~HidesProps(hides, s)
      /\ ~HidesPart(hides, s.extra) /\ ~HidesPart(hides, s.returns)
  BY <1>1 DEF HidesSub, HidesProps, HidesPart
<1>3. QED
  BY <1>2, HidesIn

LEMMA NoAttributes ==
  ASSUME NEW b, NEW map, NEW s, Attributes(map, s) = None
  PROVE  /\ Again(b, map, s) = Whole(Schema(b, ShownNode(map, s)))
         /\ DOMAIN ShownNode(map, s) = {"type"}
<1> PICK attrs : attrs = Attributes(map, s)
  OBVIOUS
<1>1. DOMAIN attrs = {}
  BY DEF None
<1>2. "type" \notin DOMAIN attrs /\ "name" \notin DOMAIN attrs /\ "description" \notin DOMAIN attrs
  BY ONLY <1>1
<1>3. ReadsAgain(b, map, s, attrs)
  BY ONLY <1>2, AgainIs, attrs = Attributes(map, s)
<1>4. QED
  BY ONLY <1>1, <1>3 DEF ReadsAgain

LEMMA PlainAgain ==
  ASSUME NEW b, NEW map, NEW hides, NEW s, Form(s), s.kind \in {"any", "null", "bool"}
  PROVE  ShownAgain(b, map, hides, s)
<1>1. Attributes(map, s) = None
  BY DEF Attributes
<1>2. Again(b, map, s) = Whole(Schema(b, ShownNode(map, s)))
  BY <1>1, NoAttributes
<1>3. TypeIn(ShownNode(map, s)) = s.kind
  BY ShowIs DEF KindShown
<1>4. Schema(b, ShownNode(map, s)) = Plain(s.kind)
  BY <1>3 DEF Schema
<1>5. s = Plain(s.kind)
  BY DEF Form, Plain
<1>6. Whole(Plain(s.kind)) # Failed
  BY ScalarWell
<1>7. Again(b, map, s) = s /\ s # Failed
  BY <1>2, <1>4, <1>5, <1>6 DEF Whole
<1>8. ~HidesOwn(s)
  BY DEF HidesOwn, Form
<1>9. ~HidesBy(hides, s)
  BY <1>8, HidesNone DEF Form
<1>10. QED
  BY <1>7, <1>9 DEF ShownAgain

LEMMA StringAgain ==
  ASSUME NEW b, NEW map, NEW hides, NEW s, Form(s), s.kind = "string"
  PROVE  ShownAgain(b, map, hides, s)
<1> PICK node : node = ShownNode(map, s)
  OBVIOUS
<1> PICK again : again = Again(b, map, s)
  OBVIOUS
<1>1. Attributes(map, s) = None
  BY DEF Attributes
<1>2. again = Whole(Schema(b, node)) /\ DOMAIN node = {"type"}
  BY <1>1, NoAttributes
<1>3. TypeIn(node) = "string"
  BY ShowIs DEF KindShown
<1>4. Schema(b, node) = buildStringSchema(node)
  BY <1>3 DEF Schema
<1>5. AttrLength(node, "maxLength") = Nothing /\ AttrLength(node, "minLength") = Nothing
  BY <1>2 DEF AttrLength, Is
<1>6. again # Failed /\ again = buildStringSchema(node)
  BY <1>2, <1>4, ScalarWell DEF Whole
<1>7. again = [Plain("string") EXCEPT !.max = Nothing, !.min = Nothing]
  BY <1>5, <1>6 DEF buildStringSchema
<1>8. again.kind = "string" /\ again.min = Nothing /\ again.max = Nothing
  BY <1>7 DEF Plain
<1>9. s.min = Nothing /\ s.max = Nothing => again = s
  BY <1>7 DEF Form, Plain
<1>10. HidesOwn(s) <=> ~(s.min = Nothing /\ s.max = Nothing)
  BY DEF HidesOwn, Form
<1>11. HidesBy(hides, s) <=> HidesOwn(s)
  BY HidesNone DEF Form
<1>12. QED
  BY <1>6, <1>8, <1>9, <1>10, <1>11 DEF ShownAgain

LEMMA LimitIs ==
  ASSUME NEW attr, NEW bound, NEW exattr, NEW ex, attr # exattr
  PROVE  LET limit == Limit(attr, bound, exattr, ex) IN
         /\ DOMAIN limit \subseteq {attr, exattr}
         /\ attr \in DOMAIN limit <=> bound # Nothing
         /\ exattr \in DOMAIN limit <=> bound # Nothing /\ ex # Nothing
         /\ attr \in DOMAIN limit => limit[attr] = Int_(bound)
         /\ exattr \in DOMAIN limit => limit[exattr] = Flag(ex)
<1> PICK limit : limit = Limit(attr, bound, exattr, ex)
  OBVIOUS
<1>1. CASE bound = Nothing
  <2>1. DOMAIN limit = {}
    BY <1>1 DEF Limit, None
  <2>2. QED
    BY <1>1, <2>1
<1>2. CASE bound # Nothing /\ ex = Nothing
  <2>1. limit = Merge(One(attr, Int_(bound)), None)
    BY <1>2 DEF Limit, Optional
  <2>2. DOMAIN limit = {attr} /\ limit[attr] = Int_(bound)
    BY <2>1 DEF Merge, One, None
  <2>3. QED
    BY <1>2, <2>2
<1>3. CASE bound # Nothing /\ ex # Nothing
  <2>1. limit = Merge(One(attr, Int_(bound)), One(exattr, Flag(ex)))
    BY <1>3 DEF Limit, Optional
  <2>2. DOMAIN limit = {attr, exattr} /\ limit[attr] = Int_(bound) /\ limit[exattr] = Flag(ex)
    BY <2>1 DEF Merge, One
  <2>3. QED
    BY <1>3, <2>2
<1>4. QED
  BY <1>1, <1>2, <1>3

LEMMA BoundRead ==
  ASSUME NEW node, NEW attr, NEW x, attr \in DOMAIN node <=> x # Nothing,
         attr \in DOMAIN node => node[attr] = Int_(x)
  PROVE  AttrFloat(node, attr) = x /\ AttrInt(node, attr) = x
<1>1. Int_(x).is = "int" /\ Int_(x).num = x
  BY DEF Int_, Document
<1>2. QED
  BY <1>1 DEF AttrFloat, AttrInt, Is

LEMMA FlagRead ==
  ASSUME NEW node, NEW attr, NEW bound, NEW ex \in BOOLEAN \cup {Nothing},
         attr \in DOMAIN node <=> bound # Nothing /\ ex # Nothing,
         attr \in DOMAIN node => node[attr] = Flag(ex)
  PROVE  AttrBool(node, attr) = IF bound = Nothing THEN Nothing ELSE ex
<1>1. CASE attr \notin DOMAIN node
  BY <1>1 DEF AttrBool, Is
<1>2. CASE attr \in DOMAIN node
  <2>1. ex \in BOOLEAN /\ bound # Nothing
    BY <1>2
  <2>2. node[attr].is = "flag" /\ node[attr].num = IF ex THEN 1 ELSE 0
    <3>1. Flag(ex).is = "flag" /\ Flag(ex).num = IF ex THEN 1 ELSE 0
      BY DEF Flag, Document
    <3>2. QED
      BY <1>2, <3>1
  <2>3. AttrBool(node, attr) = (node[attr].num = 1)
    BY <1>2, <2>2 DEF AttrBool, Is
  <2>4. CASE ex = TRUE
    BY <2>1, <2>2, <2>3, <2>4
  <2>5. CASE ex = FALSE
    BY <2>1, <2>2, <2>3, <2>5
  <2>6. QED
    BY <2>1, <2>4, <2>5
<1>3. QED
  BY <1>1, <1>2

LEMMA LimitsShown ==
  ASSUME NEW map, NEW s, s.kind \in {"number", "integer"}
  PROVE  LET attrs == Attributes(map, s) IN
         /\ DOMAIN attrs \subseteq {"maximum", "exclusiveMaximum", "minimum", "exclusiveMinimum"}
         /\ "maximum" \in DOMAIN attrs <=> s.max # Nothing
         /\ "exclusiveMaximum" \in DOMAIN attrs <=> s.max # Nothing /\ s.exmax # Nothing
         /\ "minimum" \in DOMAIN attrs <=> s.min # Nothing
         /\ "exclusiveMinimum" \in DOMAIN attrs <=> s.min # Nothing /\ s.exmin # Nothing
         /\ "maximum" \in DOMAIN attrs => attrs["maximum"] = Int_(s.max)
         /\ "exclusiveMaximum" \in DOMAIN attrs => attrs["exclusiveMaximum"] = Flag(s.exmax)
         /\ "minimum" \in DOMAIN attrs => attrs["minimum"] = Int_(s.min)
         /\ "exclusiveMinimum" \in DOMAIN attrs => attrs["exclusiveMinimum"] = Flag(s.exmin)
<1> PICK most : most = Limit("maximum", s.max, "exclusiveMaximum", s.exmax)
  OBVIOUS
<1> PICK least : least = Limit("minimum", s.min, "exclusiveMinimum", s.exmin)
  OBVIOUS
<1> PICK attrs : attrs = Merge(most, least)
  OBVIOUS
<1>1. Attributes(map, s) = attrs
  BY DEF Attributes
<1>2. /\ DOMAIN most \subseteq {"maximum", "exclusiveMaximum"}
      /\ "maximum" \in DOMAIN most <=> s.max # Nothing
      /\ "exclusiveMaximum" \in DOMAIN most <=> s.max # Nothing /\ s.exmax # Nothing
      /\ "maximum" \in DOMAIN most => most["maximum"] = Int_(s.max)
      /\ "exclusiveMaximum" \in DOMAIN most => most["exclusiveMaximum"] = Flag(s.exmax)
  BY LimitIs
<1>3. /\ DOMAIN least \subseteq {"minimum", "exclusiveMinimum"}
      /\ "minimum" \in DOMAIN least <=> s.min # Nothing
      /\ "exclusiveMinimum" \in DOMAIN least <=> s.min # Nothing /\ s.exmin # Nothing
      /\ "minimum" \in DOMAIN least => least["minimum"] = Int_(s.min)
      /\ "exclusiveMinimum" \in DOMAIN least => least["exclusiveMinimum"] = Flag(s.exmin)
  BY LimitIs
<1>4. /\ DOMAIN attrs = DOMAIN most \cup DOMAIN least
      /\ \A a \in DOMAIN most : attrs[a] = most[a]
      /\ \A a \in DOMAIN least : a \notin DOMAIN most => attrs[a] = least[a]
  BY ONLY attrs = Merge(most, least) DEF Merge
<1>5. "minimum" \notin DOMAIN most /\ "exclusiveMinimum" \notin DOMAIN most
      /\ "maximum" \notin DOMAIN least /\ "exclusiveMaximum" \notin DOMAIN least
  BY <1>2, <1>3
<1>6. DOMAIN attrs \subseteq {"maximum", "exclusiveMaximum", "minimum", "exclusiveMinimum"}
  BY <1>2, <1>3, <1>4
<1>7. /\ "maximum" \in DOMAIN attrs <=> s.max # Nothing
      /\ "exclusiveMaximum" \in DOMAIN attrs <=> s.max # Nothing /\ s.exmax # Nothing
      /\ "maximum" \in DOMAIN attrs => attrs["maximum"] = Int_(s.max)
      /\ "exclusiveMaximum" \in DOMAIN attrs => attrs["exclusiveMaximum"] = Flag(s.exmax)
  BY ONLY <1>2, <1>4, <1>5
<1>8. /\ "minimum" \in DOMAIN attrs <=> s.min # Nothing
      /\ "exclusiveMinimum" \in DOMAIN attrs <=> s.min # Nothing /\ s.exmin # Nothing
      /\ "minimum" \in DOMAIN attrs => attrs["minimum"] = Int_(s.min)
      /\ "exclusiveMinimum" \in DOMAIN attrs => attrs["exclusiveMinimum"] = Flag(s.exmin)
  BY ONLY <1>3, <1>4, <1>5
<1>9. QED
  BY <1>1, <1>6, <1>7, <1>8

LEMMA NumberAgain ==
  ASSUME NEW b, NEW map, NEW hides, NEW s \in Schemas, Form(s), s.kind \in {"number", "integer"}
  PROVE  ShownAgain(b, map, hides, s)
<1> PICK node : node = ShownNode(map, s)
  OBVIOUS
<1> PICK attrs : attrs = Attributes(map, s)
  OBVIOUS
<1> PICK again : again = Again(b, map, s)
  OBVIOUS
<1> PICK exmax : exmax = IF s.max = Nothing THEN Nothing ELSE s.exmax
  OBVIOUS
<1> PICK exmin : exmin = IF s.min = Nothing THEN Nothing ELSE s.exmin
  OBVIOUS
<1>1. /\ DOMAIN attrs \subseteq {"maximum", "exclusiveMaximum", "minimum", "exclusiveMinimum"}
      /\ "maximum" \in DOMAIN attrs <=> s.max # Nothing
      /\ "exclusiveMaximum" \in DOMAIN attrs <=> s.max # Nothing /\ s.exmax # Nothing
      /\ "minimum" \in DOMAIN attrs <=> s.min # Nothing
      /\ "exclusiveMinimum" \in DOMAIN attrs <=> s.min # Nothing /\ s.exmin # Nothing
      /\ "maximum" \in DOMAIN attrs => attrs["maximum"] = Int_(s.max)
      /\ "exclusiveMaximum" \in DOMAIN attrs => attrs["exclusiveMaximum"] = Flag(s.exmax)
      /\ "minimum" \in DOMAIN attrs => attrs["minimum"] = Int_(s.min)
      /\ "exclusiveMinimum" \in DOMAIN attrs => attrs["exclusiveMinimum"] = Flag(s.exmin)
  BY LimitsShown
<1>2. "type" \notin DOMAIN attrs /\ "name" \notin DOMAIN attrs /\ "description" \notin DOMAIN attrs
  BY ONLY <1>1
<1>3. /\ again = Whole(Schema(b, node)) /\ node["type"].text = s.kind
      /\ DOMAIN node = DOMAIN attrs \cup {"type"} /\ \A a \in DOMAIN attrs : node[a] = attrs[a]
  <2>1. KindShown(s) = s.kind
    BY DEF KindShown
  <2>2. ReadsAgain(b, map, s, attrs)
    BY ONLY <1>2, AgainIs, attrs = Attributes(map, s)
  <2>3. QED
    BY ONLY <2>1, <2>2, node = ShownNode(map, s), again = Again(b, map, s)
       DEF ReadsAgain
<1>4. /\ "maximum" \in DOMAIN node <=> s.max # Nothing
      /\ "exclusiveMaximum" \in DOMAIN node <=> s.max # Nothing /\ s.exmax # Nothing
      /\ "minimum" \in DOMAIN node <=> s.min # Nothing
      /\ "exclusiveMinimum" \in DOMAIN node <=> s.min # Nothing /\ s.exmin # Nothing
      /\ "maximum" \in DOMAIN node => node["maximum"] = Int_(s.max)
      /\ "exclusiveMaximum" \in DOMAIN node => node["exclusiveMaximum"] = Flag(s.exmax)
      /\ "minimum" \in DOMAIN node => node["minimum"] = Int_(s.min)
      /\ "exclusiveMinimum" \in DOMAIN node => node["exclusiveMinimum"] = Flag(s.exmin)
  BY ONLY <1>1, <1>3
<1>5. s.exmax \in BOOLEAN \cup {Nothing} /\ s.exmin \in BOOLEAN \cup {Nothing}
  BY OwnShape DEF IsShape
<1>6. /\ AttrFloat(node, "maximum") = s.max /\ AttrInt(node, "maximum") = s.max
      /\ AttrFloat(node, "minimum") = s.min /\ AttrInt(node, "minimum") = s.min
  BY <1>4, BoundRead
<1>7. AttrBool(node, "exclusiveMaximum") = exmax /\ AttrBool(node, "exclusiveMinimum") = exmin
  BY <1>4, <1>5, FlagRead
<1>8. TypeIn(node) = s.kind
  BY ShowIs DEF KindShown
<1>9. Schema(b, node) = buildNumberSchema(node, s.max, s.min)
  BY <1>6, <1>8 DEF Schema
<1>10. again # Failed /\ again = buildNumberSchema(node, s.max, s.min)
  <2> PICK built : built = buildNumberSchema(node, s.max, s.min)
    OBVIOUS
  <2>1. Whole(built) # Failed
    <3>1. node["type"].text \in {"number", "integer"}
      BY ONLY <1>3, s.kind \in {"number", "integer"}
    <3>2. Whole(buildNumberSchema(node, s.max, s.min)) # Failed
      BY ONLY <3>1, ScalarWell
    <3>3. QED
      BY <3>2
  <2>2. again = Whole(built)
    BY <1>3, <1>9
  <2>3. QED
    BY <2>1, <2>2 DEF Whole
<1>11. again = [Plain(s.kind) EXCEPT !.max = s.max, !.min = s.min, !.exmax = exmax, !.exmin = exmin]
  BY <1>3, <1>7, <1>10 DEF buildNumberSchema
<1>12. again.kind = s.kind /\ again.exmax = exmax /\ again.exmin = exmin
  BY <1>11 DEF Plain
<1>13. exmax = s.exmax /\ exmin = s.exmin => again = s
  BY <1>11 DEF Form, Plain
<1>14. HidesOwn(s) <=> ~(exmax = s.exmax /\ exmin = s.exmin)
  BY DEF HidesOwn
<1>15. HidesBy(hides, s) <=> HidesOwn(s)
  BY HidesNone DEF Form
<1>16. QED
  BY <1>10, <1>12, <1>13, <1>14, <1>15 DEF ShownAgain

LEMMA SubAgain ==
  ASSUME NEW b, NEW map, NEW hides, NEW s \in Schemas, KidsShown(map, b, hides, s),
         NEW sub, sub = Each(map, s.sub), NEW again, again = Each(b, sub)
  PROVE  /\ \A i \in DOMAIN sub : Converts(sub[i])
         /\ \A i \in DOMAIN again : again[i] # Failed
         /\ again = s.sub <=> ~HidesSub(hides, s)
<1>1. DOMAIN sub = DOMAIN s.sub /\ \A i \in DOMAIN s.sub : sub[i] = map[s.sub[i]]
  BY DEF Each
<1>2. DOMAIN again = DOMAIN s.sub /\ \A i \in DOMAIN s.sub : again[i] = b[map[s.sub[i]]]
  BY ONLY <1>1, again = Each(b, sub) DEF Each
<1>3. \A i \in DOMAIN s.sub : Shown(map, b, hides, s.sub[i])
  BY OwnShape DEF KidsShown
<1>4. \A i \in DOMAIN sub : Converts(sub[i])
  BY <1>1, <1>3 DEF Shown, Converts
<1>5. \A i \in DOMAIN again : again[i] # Failed
  BY <1>2, <1>3 DEF Shown
<1>6. s.sub = [i \in DOMAIN s.sub |-> s.sub[i]] /\ again = [i \in DOMAIN s.sub |-> again[i]]
  <2>1. s.sub \in Seq(Schemas)
    BY OwnShape DEF IsShape
  <2>2. again = [i \in DOMAIN sub |-> b[sub[i]]]
    BY DEF Each
  <2>3. again = [i \in DOMAIN s.sub |-> again[i]]
    BY ONLY <1>1, <1>2, <2>2
  <2>4. QED
    BY <2>1, <2>3
<1>7. again = s.sub <=> \A i \in DOMAIN s.sub : again[i] = s.sub[i]
  BY ONLY <1>6
<1>8. HidesSub(hides, s) <=> \E i \in DOMAIN s.sub : again[i] # s.sub[i]
  BY <1>2, <1>3 DEF HidesSub, Shown
<1>9. QED
  BY <1>4, <1>5, <1>7, <1>8

LEMMA FirstAgain ==
  ASSUME NEW b, NEW map, NEW hides, NEW s \in Schemas, KidsShown(map, b, hides, s),
         s.kind \in {"not", "list"}, NEW kid, kid = s.sub[1]
  PROVE  /\ map[kid].is = "map" /\ b[map[kid]] # Failed
         /\ <<b[map[kid]]>> = s.sub <=> ~HidesSub(hides, s)
<1>1. IsShape(s) /\ DOMAIN s.sub = 1 .. Len(s.sub)
  BY OwnShape
<1>2. Len(s.sub) = 1 /\ s.sub \in Seq(Schemas)
  BY <1>1 DEF IsShape
<1>3. DOMAIN s.sub = {1}
  <2>1. 1 .. 1 = {1}
    OBVIOUS
  <2>2. QED
    BY ONLY <1>1, <1>2, <2>1, Zenon
<1>4. s.sub = <<kid>>
  BY <1>2
<1>5. Shown(map, b, hides, kid)
  BY <1>3, OwnShape DEF KidsShown
<1>6. HidesSub(hides, s) <=> hides[kid]
  BY <1>3 DEF HidesSub
<1>7. <<b[map[kid]]>> = s.sub <=> b[map[kid]] = kid
  BY ONLY <1>4
<1>8. QED
  BY <1>5, <1>6, <1>7 DEF Shown

\* An attribute by itself.
OneShown(b, map, s, attr, x) ==
  LET node == ShownNode(map, s) IN
  /\ Again(b, map, s) = Whole(Schema(b, node))
  /\ DOMAIN node = {"type", attr} /\ node[attr] = x /\ TypeIn(node) = KindShown(s)

LEMMA AttributeAgain ==
  ASSUME NEW b, NEW map, NEW s, NEW attr, attr \notin {"type", "name", "description"}, NEW x,
         Attributes(map, s) = One(attr, x)
  PROVE  OneShown(b, map, s, attr, x)
<1> PICK one : one = One(attr, x)
  OBVIOUS
<1>1. DOMAIN one = {attr} /\ one[attr] = x
  BY OneIs
<1>2. "type" \notin DOMAIN one /\ "name" \notin DOMAIN one /\ "description" \notin DOMAIN one
  BY <1>1
<1>3. LET node == ShownNode(map, s) IN
      /\ Again(b, map, s) = Whole(Schema(b, node))
      /\ DOMAIN node = DOMAIN one \cup {"type"} /\ \A a \in DOMAIN one : node[a] = one[a]
  <2> PICK attrs : attrs = Attributes(map, s)
    OBVIOUS
  <2>1. "type" \notin DOMAIN attrs /\ "name" \notin DOMAIN attrs
        /\ "description" \notin DOMAIN attrs
    BY <1>2
  <2>2. ReadsAgain(b, map, s, attrs)
    BY ONLY <2>1, AgainIs, attrs = Attributes(map, s)
  <2>3. attrs = one
    OBVIOUS
  <2>4. QED
    BY ONLY <2>2, <2>3 DEF ReadsAgain
<1>4. TypeIn(ShownNode(map, s)) = KindShown(s)
  BY ShowIs
<1>5. QED
  BY <1>1, <1>3, <1>4 DEF OneShown

LEMMA OneAgain ==
  ASSUME NEW b, NEW map, NEW s, NEW attr \in {"items", "anyOf", "allOf", "not"}, NEW x,
         Attributes(map, s) = One(attr, x)
  PROVE  OneShown(b, map, s, attr, x)
<1>1. attr \notin {"type", "name", "description"}
  OBVIOUS
<1>2. QED
  BY <1>1, AttributeAgain

LEMMA ChoicesAgain ==
  ASSUME NEW b, NEW map, NEW hides, NEW s \in Schemas, Form(s), KidsShown(map, b, hides, s),
         s.kind \in {"anyOf", "allOf"}
  PROVE  ShownAgain(b, map, hides, s)
<1> PICK node : node = ShownNode(map, s)
  OBVIOUS
<1> PICK sub : sub = Each(map, s.sub)
  OBVIOUS
<1> PICK subs : subs = Each(b, sub)
  OBVIOUS
<1> PICK again : again = Again(b, map, s)
  OBVIOUS
<1>1. Attributes(map, s) = One(s.kind, List_(sub))
  BY DEF Attributes
<1>2. /\ again = Whole(Schema(b, node)) /\ s.kind \in DOMAIN node /\ node[s.kind] = List_(sub)
      /\ TypeIn(node) = s.kind
  BY <1>1, OneAgain DEF KindShown, OneShown
<1>3. List_(sub).is = "list" /\ List_(sub).items = sub
  BY DEF List_, Document
<1>4. /\ \A i \in DOMAIN sub : Converts(sub[i])
      /\ \A i \in DOMAIN subs : subs[i] # Failed
      /\ subs = s.sub <=> ~HidesSub(hides, s)
  BY SubAgain
<1>5. ListOfMaps(node, s.kind)
  BY <1>2, <1>3, <1>4 DEF ListOfMaps, Is
<1> PICK built : built = [Plain(s.kind) EXCEPT !.sub = subs]
  OBVIOUS
<1>6. Schema(b, node) = built
  BY <1>2, <1>3, <1>5 DEF Schema, buildChoices
<1>7. /\ built.kind = s.kind /\ built.sub = subs /\ built.props = None /\ built.extra = Nothing
      /\ built.returns = Nothing
  BY DEF Plain
<1>8. DOMAIN built.props = {} /\ built.kind # "build error"
  BY <1>7 DEF None
<1>9. Whole(built) # Failed
  BY <1>4, <1>7, <1>8, WholeOf
<1>10. again = built /\ again # Failed
  BY <1>2, <1>6, <1>9 DEF Whole
<1>11. again = s <=> subs = s.sub
  BY <1>7, <1>10 DEF Form, Plain
<1>12. HidesBy(hides, s) <=> HidesSub(hides, s)
  <2>1. ~HidesOwn(s)
    BY DEF HidesOwn, Form
  <2>2. ~HidesProps(hides, s) /\ ~HidesPart(hides, s.extra) /\ ~HidesPart(hides, s.returns)
    BY NoProps DEF Form, HidesProps, HidesPart
  <2>3. QED
    BY <2>1, <2>2, HidesIn
<1>13. QED
  BY <1>4, <1>7, <1>10, <1>11, <1>12 DEF ShownAgain

LEMMA NotAgain ==
  ASSUME NEW b, NEW map, NEW hides, NEW s \in Schemas, Form(s), KidsShown(map, b, hides, s),
         s.kind = "not"
  PROVE  ShownAgain(b, map, hides, s)
<1> PICK node : node = ShownNode(map, s)
  OBVIOUS
<1> PICK x : x = map[s.sub[1]]
  OBVIOUS
<1> PICK again : again = Again(b, map, s)
  OBVIOUS
<1>1. Attributes(map, s) = One("not", x)
  BY DEF Attributes
<1>2. /\ again = Whole(Schema(b, node)) /\ "not" \in DOMAIN node /\ node["not"] = x
      /\ TypeIn(node) = "not"
  BY <1>1, OneAgain DEF KindShown, OneShown
<1>3. b[x] # Failed /\ (<<b[x]>> = s.sub <=> ~HidesSub(hides, s))
  BY FirstAgain
<1> PICK built : built = [Plain("not") EXCEPT !.sub = <<b[x]>>]
  OBVIOUS
<1>4. Schema(b, node) = built
  BY <1>2 DEF Schema, buildNotSchema
<1>5. /\ built.kind = "not" /\ built.sub = <<b[x]>> /\ built.props = None /\ built.extra = Nothing
      /\ built.returns = Nothing
  BY DEF Plain
<1>6. DOMAIN built.props = {} /\ built.kind # "build error"
  BY <1>5 DEF None
<1>7. \A i \in DOMAIN built.sub : built.sub[i] = b[x]
  BY ONLY <1>5
<1>8. Whole(built) # Failed
  BY <1>3, <1>5, <1>6, <1>7, WholeOf
<1>9. again = built /\ again # Failed
  BY <1>2, <1>4, <1>8 DEF Whole
<1>10. again = s <=> <<b[x]>> = s.sub
  BY <1>5, <1>9 DEF Form, Plain
<1>11. HidesBy(hides, s) <=> HidesSub(hides, s)
  <2>1. ~HidesOwn(s)
    BY DEF HidesOwn, Form
  <2>2. ~HidesProps(hides, s) /\ ~HidesPart(hides, s.extra) /\ ~HidesPart(hides, s.returns)
    BY NoProps DEF Form, HidesProps, HidesPart
  <2>3. QED
    BY <2>1, <2>2, HidesIn
<1>12. QED
  BY <1>3, <1>5, <1>9, <1>10, <1>11 DEF ShownAgain

LEMMA ListAgain ==
  ASSUME NEW b, NEW map, NEW hides, NEW s \in Schemas, Form(s), KidsShown(map, b, hides, s),
         s.kind = "list"
  PROVE  ShownAgain(b, map, hides, s)
<1> PICK node : node = ShownNode(map, s)
  OBVIOUS
<1> PICK x : x = map[s.sub[1]]
  OBVIOUS
<1> PICK again : again = Again(b, map, s)
  OBVIOUS
<1>1. Attributes(map, s) = One("items", x)
  BY DEF Attributes
<1>2. /\ again = Whole(Schema(b, node)) /\ DOMAIN node = {"type", "items"} /\ node["items"] = x
      /\ TypeIn(node) = "list"
  BY <1>1, OneAgain DEF KindShown, OneShown
<1>3. x.is = "map" /\ b[x] # Failed /\ (<<b[x]>> = s.sub <=> ~HidesSub(hides, s))
  BY FirstAgain
<1>4. AttrLength(node, "maxItems") = Nothing /\ AttrLength(node, "minItems") = Nothing
  BY <1>2 DEF AttrLength, Is
<1> PICK built : built = [Plain("list") EXCEPT !.sub = <<b[x]>>, !.max = Nothing, !.min = Nothing]
  OBVIOUS
<1>5. Schema(b, node) = built
  BY <1>2, <1>3, <1>4 DEF Schema, buildListSchema, Is
<1>6. /\ built.kind = "list" /\ built.sub = <<b[x]>> /\ built.props = None /\ built.extra = Nothing
      /\ built.returns = Nothing /\ built.min = Nothing /\ built.max = Nothing
  BY DEF Plain
<1>7. DOMAIN built.props = {} /\ built.kind # "build error"
  BY <1>6 DEF None
<1>8. \A i \in DOMAIN built.sub : built.sub[i] = b[x]
  BY ONLY <1>6
<1>9. Whole(built) # Failed
  BY <1>3, <1>6, <1>7, <1>8, WholeOf
<1>10. again = built /\ again # Failed
  BY <1>2, <1>5, <1>9 DEF Whole
<1>11. again = s <=> <<b[x]>> = s.sub /\ s.min = Nothing /\ s.max = Nothing
  BY <1>6, <1>10 DEF Form, Plain
<1>12. HidesBy(hides, s) <=> HidesSub(hides, s) \/ ~(s.min = Nothing /\ s.max = Nothing)
  <2>1. HidesOwn(s) <=> ~(s.min = Nothing /\ s.max = Nothing)
    BY DEF HidesOwn, Form
  <2>2. ~HidesProps(hides, s) /\ ~HidesPart(hides, s.extra) /\ ~HidesPart(hides, s.returns)
    BY NoProps DEF Form, HidesProps, HidesPart
  <2>3. QED
    BY <2>1, <2>2, HidesIn
<1>13. QED
  BY <1>3, <1>6, <1>10, <1>11, <1>12 DEF ShownAgain

LEMMA TupleAgain ==
  ASSUME NEW b, NEW map, NEW hides, NEW s \in Schemas, Form(s), KidsShown(map, b, hides, s),
         s.kind = "tuple"
  PROVE  ShownAgain(b, map, hides, s)
<1> PICK node : node = ShownNode(map, s)
  OBVIOUS
<1> PICK sub : sub = Each(map, s.sub)
  OBVIOUS
<1> PICK subs : subs = Each(b, sub)
  OBVIOUS
<1> PICK again : again = Again(b, map, s)
  OBVIOUS
<1>1. Attributes(map, s) = One("items", List_(sub))
  BY DEF Attributes
<1>2. /\ again = Whole(Schema(b, node)) /\ DOMAIN node = {"type", "items"}
      /\ node["items"] = List_(sub) /\ TypeIn(node) = "list"
  BY <1>1, OneAgain DEF KindShown, OneShown
<1>3. List_(sub).is = "list" /\ List_(sub).items = sub
  BY DEF List_, Document
<1>4. (\A i \in DOMAIN subs : subs[i] # Failed) /\ (subs = s.sub <=> ~HidesSub(hides, s))
  BY SubAgain
<1>5. Additional(b, node, "additionalItems") = Nothing
  BY <1>2 DEF Additional
<1> PICK built : built = [Plain("tuple") EXCEPT !.sub = subs, !.extra = Nothing]
  OBVIOUS
<1>6. Schema(b, node) = built
  BY <1>2, <1>3, <1>5 DEF Schema, buildListSchema, Is
<1>7. /\ built.kind = "tuple" /\ built.sub = subs /\ built.props = None /\ built.extra = Nothing
      /\ built.returns = Nothing
  BY DEF Plain
<1>8. DOMAIN built.props = {} /\ built.kind # "build error"
  BY <1>7 DEF None
<1>9. Whole(built) # Failed
  BY <1>4, <1>7, <1>8, WholeOf
<1>10. again = built /\ again # Failed
  BY <1>2, <1>6, <1>9 DEF Whole
<1>11. again = s <=> subs = s.sub /\ s.extra = Nothing
  BY <1>7, <1>10 DEF Form, Plain
<1>12. HidesBy(hides, s) <=> HidesSub(hides, s) \/ s.extra # Nothing
  <2>1. HidesOwn(s) <=> s.extra # Nothing
    BY DEF HidesOwn, Form
  <2>2. ~HidesProps(hides, s) /\ ~HidesPart(hides, s.returns)
    BY NoProps DEF Form, HidesProps, HidesPart
  <2>3. HidesPart(hides, s.extra) => s.extra # Nothing
    BY DEF HidesPart
  <2>4. QED
    BY <2>1, <2>2, <2>3, HidesIn
<1>13. QED
  BY <1>4, <1>7, <1>10, <1>11, <1>12 DEF ShownAgain

\* An attribute that is there if x is.
Has(attrs, attr, x, doc) ==
  /\ attr \in DOMAIN attrs <=> x # Nothing
  /\ x # Nothing => attrs[attr] = doc

LEMMA OptionalIs ==
  ASSUME NEW attr, NEW x, NEW doc
  PROVE  /\ DOMAIN Optional(attr, x, doc) \subseteq {attr}
         /\ Has(Optional(attr, x, doc), attr, x, doc)
<1>1. CASE x = Nothing
  <2>1. Optional(attr, x, doc) = None /\ DOMAIN None = {}
    BY <1>1 DEF Optional, None
  <2>2. QED
    BY <1>1, <2>1 DEF Has
<1>2. CASE x # Nothing
  <2>1. Optional(attr, x, doc) = One(attr, doc)
    BY <1>2 DEF Optional
  <2>2. QED
    BY <1>2, <2>1, OneIs DEF Has
<1>3. QED
  BY <1>1, <1>2

LEMMA HasMerged ==
  ASSUME NEW f, NEW g, NEW attr, NEW x, NEW doc
  PROVE  /\ attr \notin DOMAIN f /\ Has(g, attr, x, doc) => Has(Merge(f, g), attr, x, doc)
         /\ attr \notin DOMAIN g /\ Has(f, attr, x, doc) => Has(Merge(f, g), attr, x, doc)
<1> PICK m : m = Merge(f, g)
  OBVIOUS
<1>1. /\ DOMAIN m = DOMAIN f \cup DOMAIN g /\ \A a \in DOMAIN f : m[a] = f[a]
      /\ \A a \in DOMAIN g : a \notin DOMAIN f => m[a] = g[a]
  BY ONLY m = Merge(f, g) DEF Merge
<1>2. ASSUME attr \notin DOMAIN f, Has(g, attr, x, doc) PROVE Has(m, attr, x, doc)
  BY ONLY <1>1, <1>2 DEF Has
<1>3. ASSUME attr \notin DOMAIN g, Has(f, attr, x, doc) PROVE Has(m, attr, x, doc)
  BY ONLY <1>1, <1>3 DEF Has
<1>4. QED
  BY <1>2, <1>3

LEMMA PartAgain ==
  ASSUME NEW b, NEW map, NEW hides, NEW s \in Schemas, KidsShown(map, b, hides, s),
         NEW node, NEW attr, Has(node, attr, s.extra, map[s.extra])
  PROVE  /\ Additional(b, node, attr) # Failed
         /\ Additional(b, node, attr) = s.extra <=> ~HidesPart(hides, s.extra)
<1>1. CASE s.extra = Nothing
  <2>1. Additional(b, node, attr) = Nothing
    BY <1>1 DEF Has, Additional
  <2>2. QED
    BY <1>1, <2>1, PlainIs DEF HidesPart
<1>2. CASE s.extra # Nothing
  <2>1. Additional(b, node, attr) = b[map[s.extra]]
    BY <1>2 DEF Has, Additional
  <2>2. Shown(map, b, hides, s.extra)
    BY <1>2, OwnShape DEF KidsShown
  <2>3. QED
    BY <1>2, <2>1, <2>2 DEF Shown, HidesPart
<1>3. QED
  BY <1>1, <1>2

LEMMA ReturnsAgain ==
  ASSUME NEW b, NEW map, NEW hides, NEW s \in Schemas, KidsShown(map, b, hides, s),
         NEW node, Has(node, "returns", s.returns, map[s.returns])
  PROVE  /\ buildReturns(b, node) # Failed
         /\ buildReturns(b, node) = s.returns <=>
              s.returns # Nothing /\ ~HidesPart(hides, s.returns)
<1>1. CASE s.returns = Nothing
  <2>1. buildReturns(b, node) = Plain("any")
    BY <1>1 DEF Has, buildReturns
  <2>2. Plain("any") # Failed /\ Plain("any") # Nothing
    <3>1. Plain("any").kind = "any" /\ Failed.kind = "build error"
      BY PlainIs
    <3>2. QED
      BY <3>1, BuilderAssumption
  <2>3. QED
    BY <1>1, <2>1, <2>2
<1>2. CASE s.returns # Nothing
  <2> PICK what : what = map[s.returns]
    OBVIOUS
  <2>1. Shown(map, b, hides, s.returns)
    BY <1>2, OwnShape DEF KidsShown
  <2>2. what.is = "map" /\ "type" \in DOMAIN what.attrs
    BY <2>1 DEF Shown
  <2>3. Converts(what) /\ TypeMap(what) = what.attrs
    BY <2>2, TypedIs DEF Converts, TypeMap
  <2>4. "returns" \in DOMAIN node /\ node["returns"] = what
    BY <1>2 DEF Has
  <2>5. buildReturns(b, node) = b[what]
    BY <2>2, <2>3, <2>4 DEF buildReturns
  <2>6. QED
    BY <1>2, <2>1, <2>5 DEF Shown, HidesPart
<1>3. QED
  BY <1>1, <1>2

LEMMA MethodShown ==
  ASSUME NEW map, NEW s, s.kind = "method"
  PROVE  LET attrs == Attributes(map, s) IN
         /\ DOMAIN attrs \subseteq {"params", "returns", "additionalParams"}
         /\ "params" \in DOMAIN attrs /\ attrs["params"] = List_(Each(map, s.sub))
         /\ Has(attrs, "returns", s.returns, map[s.returns])
         /\ Has(attrs, "additionalParams", s.extra, map[s.extra])
<1> PICK params : params = One("params", List_(Each(map, s.sub)))
  OBVIOUS
<1> PICK returns : returns = Optional("returns", s.returns, map[s.returns])
  OBVIOUS
<1> PICK extra : extra = Optional("additionalParams", s.extra, map[s.extra])
  OBVIOUS
<1>1. Attributes(map, s) = Merge(params, Merge(returns, extra))
  BY DEF Attributes
<1>2. DOMAIN params = {"params"} /\ params["params"] = List_(Each(map, s.sub))
  BY OneIs
<1>3. DOMAIN returns \subseteq {"returns"} /\ Has(returns, "returns", s.returns, map[s.returns])
  BY OptionalIs
<1>4. DOMAIN extra \subseteq {"additionalParams"}
      /\ Has(extra, "additionalParams", s.extra, map[s.extra])
  BY OptionalIs
<1> PICK both : both = Merge(returns, extra)
  OBVIOUS
<1>5. /\ DOMAIN both \subseteq {"returns", "additionalParams"}
      /\ Has(both, "returns", s.returns, map[s.returns])
      /\ Has(both, "additionalParams", s.extra, map[s.extra])
  <2>1. "returns" \notin DOMAIN extra /\ "additionalParams" \notin DOMAIN returns
    BY <1>3, <1>4
  <2>2. DOMAIN both \subseteq {"returns", "additionalParams"}
    <3>1. DOMAIN both = DOMAIN returns \cup DOMAIN extra
      BY MergeIs
    <3>2. QED
      BY ONLY <1>3, <1>4, <3>1
  <2>3. QED
    BY <1>3, <1>4, <2>1, <2>2, HasMerged
<1> PICK attrs : attrs = Merge(params, both)
  OBVIOUS
<1>6. DOMAIN attrs \subseteq {"params", "returns", "additionalParams"}
      /\ "params" \in DOMAIN attrs /\ attrs["params"] = List_(Each(map, s.sub))
  <2>1. DOMAIN attrs = DOMAIN params \cup DOMAIN both
        /\ \A a \in DOMAIN params : attrs[a] = params[a]
    BY ONLY attrs = Merge(params, both) DEF Merge
  <2>2. QED
    BY ONLY <1>2, <1>5, <2>1
<1>7. /\ Has(attrs, "returns", s.returns, map[s.returns])
      /\ Has(attrs, "additionalParams", s.extra, map[s.extra])
  <2>1. "returns" \notin DOMAIN params /\ "additionalParams" \notin DOMAIN params
    BY <1>2
  <2>2. QED
    BY <1>5, <2>1, HasMerged
<1>8. Attributes(map, s) = attrs
  BY <1>1
<1>9. QED
  BY ONLY <1>6, <1>7, <1>8

\* What is shown is what is read.
LEMMA HasRead ==
  ASSUME NEW attrs, NEW node, NEW attr, attr # "type", NEW x, NEW doc, Has(attrs, attr, x, doc),
         DOMAIN node = DOMAIN attrs \cup {"type"}, \A a \in DOMAIN attrs : node[a] = attrs[a]
  PROVE  Has(node, attr, x, doc)
  BY DEF Has

LEMMA MethodAgain ==
  ASSUME NEW b, NEW map, NEW hides, NEW s \in Schemas, Form(s), KidsShown(map, b, hides, s),
         s.kind = "method"
  PROVE  ShownAgain(b, map, hides, s)
<1> PICK node : node = ShownNode(map, s)
  OBVIOUS
<1> PICK attrs : attrs = Attributes(map, s)
  OBVIOUS
<1> PICK sub : sub = Each(map, s.sub)
  OBVIOUS
<1> PICK subs : subs = Each(b, sub)
  OBVIOUS
<1> PICK extra : extra = Additional(b, node, "additionalParams")
  OBVIOUS
<1> PICK returns : returns = buildReturns(b, node)
  OBVIOUS
<1> PICK again : again = Again(b, map, s)
  OBVIOUS
<1>1. /\ DOMAIN attrs \subseteq {"params", "returns", "additionalParams"}
      /\ "params" \in DOMAIN attrs /\ attrs["params"] = List_(sub)
      /\ Has(attrs, "returns", s.returns, map[s.returns])
      /\ Has(attrs, "additionalParams", s.extra, map[s.extra])
  BY MethodShown
<1>2. "type" \notin DOMAIN attrs /\ "name" \notin DOMAIN attrs /\ "description" \notin DOMAIN attrs
  BY ONLY <1>1
<1>3. /\ again = Whole(Schema(b, node))
      /\ DOMAIN node = DOMAIN attrs \cup {"type"} /\ \A a \in DOMAIN attrs : node[a] = attrs[a]
  <2>1. ReadsAgain(b, map, s, attrs)
    BY ONLY <1>2, AgainIs, attrs = Attributes(map, s)
  <2>2. QED
    BY ONLY <2>1, node = ShownNode(map, s), again = Again(b, map, s)
       DEF ReadsAgain
<1>4. /\ "params" \in DOMAIN node /\ node["params"] = List_(sub)
      /\ Has(node, "returns", s.returns, map[s.returns])
      /\ Has(node, "additionalParams", s.extra, map[s.extra])
  <2>1. "params" \in DOMAIN node /\ node["params"] = List_(sub)
    BY ONLY <1>1, <1>3
  <2>2. Has(node, "returns", s.returns, map[s.returns])
    BY ONLY <1>1, <1>3, HasRead
  <2>3. Has(node, "additionalParams", s.extra, map[s.extra])
    BY ONLY <1>1, <1>3, HasRead
  <2>4. QED
    BY <2>1, <2>2, <2>3
<1>5. List_(sub).is = "list" /\ List_(sub).items = sub
  BY DEF List_, Document
<1>6. /\ \A i \in DOMAIN sub : Converts(sub[i])
      /\ \A i \in DOMAIN subs : subs[i] # Failed
      /\ subs = s.sub <=> ~HidesSub(hides, s)
  BY SubAgain
<1>7. extra # Failed /\ (extra = s.extra <=> ~HidesPart(hides, s.extra))
  BY <1>4, PartAgain
<1>8. returns # Failed
      /\ (returns = s.returns <=> s.returns # Nothing /\ ~HidesPart(hides, s.returns))
  BY <1>4, ReturnsAgain
<1>9. ListOfMaps(node, "params")
  BY <1>4, <1>5, <1>6 DEF ListOfMaps, Is
<1> PICK built : built = [Plain("method") EXCEPT !.sub = subs, !.extra = extra, !.returns = returns]
  OBVIOUS
<1>10. Schema(b, node) = built
  <2>1. TypeIn(node) = "method"
    BY ShowIs DEF KindShown
  <2>2. Schema(b, node) = buildMethodSchema(b, node)
    BY <2>1 DEF Schema
  <2>3. buildMethodSchema(b, node) = built
    BY <1>4, <1>5, <1>9 DEF buildMethodSchema
  <2>4. QED
    BY <2>2, <2>3
<1>11. /\ built.kind = "method" /\ built.sub = subs /\ built.props = None /\ built.extra = extra
       /\ built.returns = returns
  BY DEF Plain
<1>12. DOMAIN built.props = {} /\ built.kind # "build error"
  BY <1>11 DEF None
<1>13. Whole(built) # Failed
  <2>1. \A i \in DOMAIN built.sub : built.sub[i] # Failed
    BY ONLY <1>6, <1>11
  <2>2. built.extra # Failed /\ built.returns # Failed
    BY ONLY <1>7, <1>8, <1>11
  <2>3. QED
    BY ONLY <1>12, <2>1, <2>2, WholeIs
<1>14. again = built /\ again # Failed
  BY <1>3, <1>10, <1>13 DEF Whole
<1>15. again = s <=> subs = s.sub /\ extra = s.extra /\ returns = s.returns
  BY <1>11, <1>14 DEF Form, Plain
<1>16. HidesBy(hides, s) <=> \/ s.returns = Nothing \/ HidesSub(hides, s)
                             \/ HidesPart(hides, s.extra) \/ HidesPart(hides, s.returns)
  <2>1. HidesOwn(s) <=> s.returns = Nothing
    BY DEF HidesOwn, Form
  <2>2. ~HidesProps(hides, s)
    BY NoProps DEF Form, HidesProps
  <2>3. QED
    BY <2>1, <2>2, HidesIn
<1>17. QED
  BY <1>6, <1>7, <1>8, <1>11, <1>14, <1>15, <1>16 DEF ShownAgain

-----------------------------------------------------------------------------
(* An object shown again.                                                  *)

LEMMA SetToSeqOrders ==
  ASSUME NEW S, IsFiniteSet(S)
  PROVE  SetToSeq(S) \in Orders(S)
<1>1. PICK f : f \in Bijection(1 .. Cardinality(S), S)
  BY FS_CardinalityType DEF ExistsBijection
<1>2. f \in [1 .. Cardinality(S) -> S] /\ IsInjective(f)
  BY <1>1 DEF Bijection, Injection
<1>3. QED
  BY <1>2 DEF SetToSeq, Orders

\* The list of names that is shown is the set of names that is read.
NamesAre(list, names) ==
  /\ list.is = "list" /\ \A i \in DOMAIN list.items : list.items[i].is = "string"
  /\ {list.items[i].text : i \in DOMAIN list.items} = names

LEMMA NamesShown ==
  ASSUME NEW R, IsFiniteSet(R)
  PROVE  NamesAre(List_(SetToSeq({String(p) : p \in R})), R)
<1> PICK list : list = List_(SetToSeq({String(p) : p \in R}))
  OBVIOUS
<1> PICK T : T = {String(p) : p \in R}
  OBVIOUS
<1> PICK items : items = SetToSeq(T)
  OBVIOUS
<1>1. IsFiniteSet(T)
  <2> PICK f : f = [p \in R |-> String(p)]
    OBVIOUS
  <2>1. f \in Surjection(R, T)
    BY DEF Surjection
  <2>2. QED
    BY <2>1, FS_Surjection
<1>2. /\ items \in [1 .. Cardinality(T) -> T]
      /\ \A t \in T : \E i \in 1 .. Cardinality(T) : items[i] = t
  <2>1. items \in Orders(T)
    BY <1>1, SetToSeqOrders
  <2>2. QED
    BY ONLY <1>1, <2>1, OrderOnto
<1>3. list.is = "list" /\ list.items = items
  BY DEF List_, Document
<1>4. \A i \in DOMAIN items : items[i].is = "string" /\ items[i].text \in R
  <2>1. ASSUME NEW i \in DOMAIN items PROVE \E p \in R : items[i] = String(p)
    <3>1. items[i] \in T
      BY <1>2
    <3>2. QED
      BY <3>1
  <2>2. QED
    BY <2>1, StringIs
<1>5. \A p \in R : \E i \in DOMAIN items : items[i].text = p
  <2> TAKE p \in R
  <2>1. String(p) \in T
    OBVIOUS
  <2>2. PICK i \in DOMAIN items : items[i] = String(p)
    BY <1>2, <2>1
  <2>3. items[i].text = p
    BY <2>2, StringIs
  <2>4. QED
    BY <2>3
<1>6. {items[i].text : i \in DOMAIN items} = R
  BY <1>4, <1>5
<1>7. NamesAre(list, R)
  BY ONLY <1>3, <1>4, <1>6 DEF NamesAre
<1>8. QED
  BY <1>7

LEMMA ObjectShown ==
  ASSUME NEW map, NEW s, s.kind = "object",
         NEW shown, shown = [p \in DOMAIN s.props |-> map[s.props[p]]],
         NEW names, names = List_(SetToSeq({String(p) : p \in s.requires}))
  PROVE  LET attrs == Attributes(map, s) IN
         /\ DOMAIN attrs \subseteq {"properties", "requires", "additionalProperties"}
         /\ "properties" \in DOMAIN attrs /\ attrs["properties"] = Map_(shown)
         /\ "requires" \in DOMAIN attrs /\ attrs["requires"] = names
         /\ Has(attrs, "additionalProperties", s.extra, map[s.extra])
<1> PICK own : own = [properties |-> Map_(shown), requires |-> names]
  OBVIOUS
<1> PICK extra : extra = Optional("additionalProperties", s.extra, map[s.extra])
  OBVIOUS
<1> PICK attrs : attrs = Merge(own, extra)
  OBVIOUS
<1>1. Attributes(map, s) = attrs
  BY DEF Attributes
<1>2. /\ DOMAIN own = {"properties", "requires"}
      /\ own["properties"] = Map_(shown) /\ own["requires"] = names
  BY ONLY own = [properties |-> Map_(shown), requires |-> names]
<1>3. DOMAIN extra \subseteq {"additionalProperties"}
      /\ Has(extra, "additionalProperties", s.extra, map[s.extra])
  BY OptionalIs
<1>4. DOMAIN attrs = DOMAIN own \cup DOMAIN extra /\ \A a \in DOMAIN own : attrs[a] = own[a]
  BY ONLY attrs = Merge(own, extra) DEF Merge
<1>5. /\ DOMAIN attrs \subseteq {"properties", "requires", "additionalProperties"}
      /\ "properties" \in DOMAIN attrs /\ attrs["properties"] = Map_(shown)
      /\ "requires" \in DOMAIN attrs /\ attrs["requires"] = names
  BY ONLY <1>2, <1>3, <1>4
<1>6. Has(attrs, "additionalProperties", s.extra, map[s.extra])
  <2>1. "additionalProperties" \notin DOMAIN own
    BY <1>2
  <2>2. QED
    BY <1>3, <2>1, HasMerged
<1>7. QED
  BY ONLY <1>1, <1>5, <1>6

\* The properties that are read are those that were shown.
LEMMA MembersAgain ==
  ASSUME NEW b, NEW map, NEW hides, NEW s \in Schemas, OwnNames(s), KidsShown(map, b, hides, s),
         NEW shown, shown = [p \in DOMAIN s.props |-> map[s.props[p]]],
         NEW again, again = [p \in DOMAIN shown |-> b[shown[p]]],
         NEW node, "properties" \in DOMAIN node, node["properties"] = Map_(shown)
  PROVE  /\ Members(node) = shown /\ AllConvert(shown) /\ DOMAIN shown = DOMAIN s.props
         /\ DOMAIN again = DOMAIN s.props /\ \A p \in DOMAIN again : again[p] # Failed
         /\ again = s.props <=> ~HidesProps(hides, s)
<1>1. DOMAIN shown = DOMAIN s.props /\ \A p \in DOMAIN s.props : shown[p] = map[s.props[p]]
  BY ONLY shown = [p \in DOMAIN s.props |-> map[s.props[p]]]
<1>2. DOMAIN again = DOMAIN s.props /\ \A p \in DOMAIN s.props : again[p] = b[map[s.props[p]]]
  BY ONLY <1>1, again = [p \in DOMAIN shown |-> b[shown[p]]]
<1>3. \A p \in DOMAIN s.props : Shown(map, b, hides, s.props[p])
  BY OwnShape DEF KidsShown
<1>4. AllConvert(shown)
  BY <1>1, <1>3 DEF AllConvert, Shown, Converts
<1>5. Members(node) = shown
  <2>1. Map_(shown).is = "map" /\ Map_(shown).attrs = shown
    BY DEF Map_, Document
  <2>2. "type" \in DOMAIN shown \/ HintsIn(shown) = {}
    BY <1>1 DEF OwnNames, HintsIn
  <2>3. Typed(shown) = shown
    BY <2>2, TypedIs
  <2>4. Converts(Map_(shown)) /\ TypeMap(Map_(shown)) = shown
    BY <2>1, <2>3 DEF Converts, TypeMap
  <2>5. QED
    BY <2>4 DEF Members
<1>6. \A p \in DOMAIN again : again[p] # Failed
  BY <1>2, <1>3 DEF Shown
<1>7. again = s.props <=> \A p \in DOMAIN s.props : again[p] = s.props[p]
  <2>1. s.props = [p \in DOMAIN s.props |-> s.props[p]]
    BY DEF OwnNames
  <2>2. again = [p \in DOMAIN s.props |-> again[p]]
    BY ONLY <1>1, <1>2, again = [p \in DOMAIN shown |-> b[shown[p]]]
  <2>3. QED
    BY ONLY <2>1, <2>2
<1>8. HidesProps(hides, s) <=> \E p \in DOMAIN s.props : again[p] # s.props[p]
  BY <1>2, <1>3 DEF HidesProps, Shown
<1>9. QED
  BY <1>1, <1>2, <1>4, <1>5, <1>6, <1>7, <1>8

LEMMA ObjectAgain ==
  ASSUME NEW b, NEW map, NEW hides, NEW s \in Schemas, Form(s), OwnNames(s),
         KidsShown(map, b, hides, s), s.kind = "object"
  PROVE  ShownAgain(b, map, hides, s)
<1> PICK node : node = ShownNode(map, s)
  OBVIOUS
<1> PICK attrs : attrs = Attributes(map, s)
  OBVIOUS
<1> PICK shown : shown = [p \in DOMAIN s.props |-> map[s.props[p]]]
  OBVIOUS
<1> PICK props : props = [p \in DOMAIN shown |-> b[shown[p]]]
  OBVIOUS
<1> PICK names : names = List_(SetToSeq({String(p) : p \in s.requires}))
  OBVIOUS
<1> PICK extra : extra = Additional(b, node, "additionalProperties")
  OBVIOUS
<1> PICK again : again = Again(b, map, s)
  OBVIOUS
<1>1. /\ DOMAIN attrs \subseteq {"properties", "requires", "additionalProperties"}
      /\ "properties" \in DOMAIN attrs /\ attrs["properties"] = Map_(shown)
      /\ "requires" \in DOMAIN attrs /\ attrs["requires"] = names
      /\ Has(attrs, "additionalProperties", s.extra, map[s.extra])
  BY ObjectShown
<1>2. "type" \notin DOMAIN attrs /\ "name" \notin DOMAIN attrs /\ "description" \notin DOMAIN attrs
  BY ONLY <1>1
<1>3. /\ again = Whole(Schema(b, node))
      /\ DOMAIN node = DOMAIN attrs \cup {"type"} /\ \A a \in DOMAIN attrs : node[a] = attrs[a]
  <2>1. ReadsAgain(b, map, s, attrs)
    BY ONLY <1>2, AgainIs, attrs = Attributes(map, s)
  <2>2. QED
    BY ONLY <2>1, node = ShownNode(map, s), again = Again(b, map, s)
       DEF ReadsAgain
<1>4. /\ "properties" \in DOMAIN node /\ node["properties"] = Map_(shown)
      /\ "requires" \in DOMAIN node /\ node["requires"] = names
      /\ Has(node, "additionalProperties", s.extra, map[s.extra])
  <2>1. /\ "properties" \in DOMAIN node /\ node["properties"] = Map_(shown)
        /\ "requires" \in DOMAIN node /\ node["requires"] = names
    BY ONLY <1>1, <1>3
  <2>2. Has(node, "additionalProperties", s.extra, map[s.extra])
    BY ONLY <1>1, <1>3, HasRead
  <2>3. QED
    BY <2>1, <2>2
<1>5. /\ Members(node) = shown /\ AllConvert(shown) /\ DOMAIN shown = DOMAIN s.props
      /\ DOMAIN props = DOMAIN s.props /\ \A p \in DOMAIN props : props[p] # Failed
      /\ props = s.props <=> ~HidesProps(hides, s)
  <2>1. "properties" \in DOMAIN node /\ node["properties"] = Map_(shown)
    BY ONLY <1>4
  <2>2. QED
    BY ONLY <2>1, MembersAgain, s \in Schemas, OwnNames(s), KidsShown(map, b, hides, s),
            shown = [p \in DOMAIN s.props |-> map[s.props[p]]],
            props = [p \in DOMAIN shown |-> b[shown[p]]]
<1>6. s.requires \subseteq DOMAIN s.props /\ IsFiniteSet(s.requires)
  <2>1. s.requires \subseteq DOMAIN s.props /\ IsFiniteSet(DOMAIN s.props)
    BY OwnShape DEF IsShape
  <2>2. QED
    BY <2>1, FS_Subset
<1>7. /\ names.is = "list" /\ \A i \in DOMAIN names.items : names.items[i].is = "string"
      /\ {names.items[i].text : i \in DOMAIN names.items} = s.requires
  <2>1. NamesAre(List_(SetToSeq({String(p) : p \in s.requires})), s.requires)
    BY ONLY <1>6, NamesShown
  <2>2. NamesAre(names, s.requires)
    BY ONLY <2>1, names = List_(SetToSeq({String(p) : p \in s.requires}))
  <2>3. QED
    BY ONLY <2>2 DEF NamesAre
<1>8. RequiredNames(node) = s.requires /\ ~RequiresBad(node, DOMAIN shown)
  <2>1. RequiredNames(node) = s.requires
    BY <1>4, <1>7 DEF RequiredNames
  <2>2. QED
    BY ONLY <1>4, <1>5, <1>6, <1>7, <2>1 DEF RequiresBad
<1>9. extra # Failed /\ (extra = s.extra <=> ~HidesPart(hides, s.extra))
  BY <1>4, PartAgain
<1> PICK built : built = [Plain("object") EXCEPT !.props = props, !.requires = s.requires,
                                                 !.extra = extra]
  OBVIOUS
<1>10. Schema(b, node) = built
  <2>1. TypeIn(node) = "object"
    BY ShowIs DEF KindShown
  <2>2. Schema(b, node) = buildObjectSchema(b, node)
    BY <2>1 DEF Schema
  <2>3. buildObjectSchema(b, node) =
          [Plain("object") EXCEPT !.props = [p \in DOMAIN shown |-> b[shown[p]]],
                                  !.requires = s.requires, !.extra = extra]
    BY <1>5, <1>8, ObjectIs
  <2>4. QED
    BY <2>2, <2>3
<1>11. /\ built.kind = "object" /\ built.sub = <<>> /\ built.props = props
       /\ built.requires = s.requires /\ built.extra = extra /\ built.returns = Nothing
       /\ built.min = Nothing /\ built.max = Nothing /\ built.exmin = Nothing
       /\ built.exmax = Nothing
  BY DEF Plain
<1>12. Whole(built) # Failed
  <2>1. DOMAIN built.sub = {} /\ built.kind # "build error"
    BY ONLY <1>11
  <2>2. \A p \in DOMAIN built.props : built.props[p] # Failed
    BY ONLY <1>5, <1>11
  <2>3. built.extra # Failed /\ built.returns # Failed
    BY <1>9, <1>11, PlainIs
  <2>4. QED
    BY ONLY <2>1, <2>2, <2>3, WholeIs
<1>13. again = built /\ again # Failed
  <2>1. built.kind # "build error"
    BY ONLY <1>11
  <2>2. Whole(built) = built
    BY ONLY <1>12, <2>1, WholeIs
  <2>3. again = Whole(Schema(b, node))
    BY ONLY <1>3
  <2>4. QED
    BY ONLY <1>10, <1>12, <2>2, <2>3
<1>14. again = s <=> props = s.props /\ extra = s.extra
  <2>1. Form(built)
    BY DEF Form, Plain
  <2>2. /\ s.min = Nothing /\ s.max = Nothing /\ s.exmin = Nothing /\ s.exmax = Nothing
        /\ s.sub = <<>> /\ s.returns = Nothing
    BY DEF Form
  <2>3. ASSUME props = s.props, extra = s.extra PROVE built = s
    BY <1>11, <2>1, <2>2, <2>3, FormSame
  <2>4. QED
    BY <1>11, <1>13, <2>3
<1>15. HidesBy(hides, s) <=> HidesProps(hides, s) \/ HidesPart(hides, s.extra)
  <2>1. ~HidesOwn(s)
    BY DEF HidesOwn, Form
  <2>2. ~HidesSub(hides, s)
    <3>1. s.sub = <<>>
      BY DEF Form
    <3>2. DOMAIN s.sub = {}
      BY ONLY <3>1
    <3>3. QED
      BY <3>2 DEF HidesSub
  <2>3. ~HidesPart(hides, s.returns)
    BY DEF Form, HidesPart
  <2>4. QED
    BY <2>1, <2>2, <2>3, HidesIn
<1>16. QED
  BY <1>5, <1>9, <1>11, <1>13, <1>14, <1>15 DEF ShownAgain

-----------------------------------------------------------------------------
(* All schemas.                                                            *)

LEMMA ShownStep ==
  ASSUME NEW b, NEW map, NEW hides, NEW s \in Schemas, Form(s), OwnNames(s),
         KidsShown(map, b, hides, s)
  PROVE  ShownAgain(b, map, hides, s)
<1>1. s.kind \in Kinds
  BY OwnShape DEF IsShape
<1>2. CASE s.kind \in {"any", "null", "bool"}
  BY <1>2, PlainAgain
<1>3. CASE s.kind \in {"number", "integer"}
  BY <1>3, NumberAgain
<1>4. CASE s.kind = "string"
  BY <1>4, StringAgain
<1>5. CASE s.kind \in {"anyOf", "allOf"}
  BY <1>5, ChoicesAgain
<1>6. CASE s.kind = "not"
  BY <1>6, NotAgain
<1>7. CASE s.kind = "list"
  BY <1>7, ListAgain
<1>8. CASE s.kind = "tuple"
  BY <1>8, TupleAgain
<1>9. CASE s.kind = "method"
  BY <1>9, MethodAgain
<1>10. CASE s.kind = "object"
  BY <1>10, ObjectAgain
<1>11. QED
  BY <1>1, <1>2, <1>3, <1>4, <1>5, <1>6, <1>7, <1>8, <1>9, <1>10 DEF Kinds

LEMMA AllShown ==
  ASSUME DocumentsAreTrees
  PROVE  \A s \in Schemas : Shown(Map, buildNode, Hides, s)
<1>1. SchemasAreTrees
  BY SchemasFollow
<1> PICK S : S = {s \in Schemas : ~Shown(Map, buildNode, Hides, s)}
  OBVIOUS
<1>2. SUFFICES ASSUME S # {} PROVE FALSE
  OBVIOUS
<1>3. PICK s \in S : Kids(s) \cap S = {}
  BY <1>1, <1>2 DEF SchemasAreTrees
<1>4. s \in Schemas /\ Kids(s) \subseteq Schemas
  BY <1>3, OwnShape
<1>5. KidsShown(Map, buildNode, Hides, s)
  BY <1>3, <1>4 DEF KidsShown
<1>6. Form(s) /\ OwnNames(s)
  BY <1>4, SchemaOf DEF Made
<1>7. ShownAgain(buildNode, Map, Hides, s)
  BY <1>4, <1>5, <1>6, ShownStep
<1>8. Map[s] = Show(Map, s) /\ Map[s] \in Json /\ (Hides[s] <=> HidesBy(Hides, s))
  <2>1. Map[s] = Show(Map, s) /\ Map[s] \in Json
    BY <1>1, <1>4, MapIs, BuilderAssumption
  <2>2. Hides[s] = HidesBy(Hides, s)
    BY <1>1, <1>4, HidesIs
  <2>3. QED
    BY <2>1, <2>2
<1>9. buildNode[Map[s]] = Again(buildNode, Map, s)
  BY <1>8, BuildNodeIs DEF Again
<1>10. Map[s].is = "map" /\ "type" \in DOMAIN Map[s].attrs
  BY <1>8, ShowIs
<1>11. Shown(Map, buildNode, Hides, s)
  BY <1>7, <1>8, <1>9, <1>10 DEF ShownAgain, Shown
<1>12. QED
  BY <1>3, <1>11

-----------------------------------------------------------------------------
(* The program.                                                            *)

DocumentInv == document \in Documents

LEMMA DocumentKept == BuilderSpec => []DocumentInv
<1>1. BuilderInit => DocumentInv
  BY DEF BuilderInit, DocumentInv
<1>2. DocumentInv /\ [BuilderNext]_<<vars, document>> => DocumentInv'
  BY DEF DocumentInv, BuilderNext, Read, ValidateBuilt
<1>3. QED
  BY <1>1, <1>2, PTL DEF BuilderSpec

\* A document is refused if and only if it describes no schema: nothing that is wrong
\* inside is built around, and nothing that is right is refused, however the builder
\* guesses the types that are missing and however deep it goes.
THEOREM IllFormedRefused == DocumentsAreTrees /\ BuilderSpec => []RefusesIllFormed
<1> SUFFICES ASSUME DocumentsAreTrees PROVE BuilderSpec => []RefusesIllFormed
  OBVIOUS
<1>1. DocumentInv => RefusesIllFormed
  BY AllFit, BuilderAssumption DEF DocumentInv, RefusesIllFormed, Fits
<1>2. QED
  BY <1>1, DocumentKept, PTL

\* What Map shows of a schema that was built describes a schema of the same kind, and
\* the same schema if and only if no part of it is one that Map leaves out.
THEOREM ShownWell == DocumentsAreTrees /\ BuilderSpec => []ShownAsBuilt
<1> SUFFICES ASSUME DocumentsAreTrees PROVE BuilderSpec => []ShownAsBuilt
  OBVIOUS
<1>1. ASSUME DocumentInv PROVE ShownAsBuilt
  <2> PICK s : s = buildNode[document]
    OBVIOUS
  <2>1. ASSUME s # Failed
        PROVE  buildNode[Map[s]].kind = s.kind /\ (Equal(buildNode[Map[s]], s) <=> ~Hides[s])
    <3>1. s \in Schemas
      BY <1>1, <2>1, BuilderAssumption DEF DocumentInv
    <3>2. Shown(Map, buildNode, Hides, s)
      BY <3>1, AllShown
    <3>3. QED
      BY <3>2 DEF Shown, Equal
  <2>2. QED
    BY <2>1 DEF ShownAsBuilt
<1>2. DocumentInv => ShownAsBuilt
  BY <1>1
<1>3. QED
  BY <1>2, DocumentKept, PTL

\* A program that validates data with the schemas it builds uses the validator as
\* SchemaValidator says.
THEOREM BuilderImplements == BuilderSpec => Spec
<1>1. BuilderInit => Init
  BY DEF BuilderInit
<1>2. DocumentInv /\ [BuilderNext]_<<vars, document>> => [Next]_vars
  <2> SUFFICES ASSUME DocumentInv, [BuilderNext]_<<vars, document>> PROVE [Next]_vars
    OBVIOUS
  <2>1. CASE Read
    BY <2>1 DEF Read
  <2>2. CASE ValidateBuilt
    <3>1. buildNode[document] \in Schemas
      BY <2>2, BuilderAssumption DEF DocumentInv, ValidateBuilt
    <3>2. Validate(buildNode[document])
      BY <2>2 DEF ValidateBuilt
    <3>3. QED
      BY <3>1, <3>2 DEF Next
  <2>3. CASE Look \/ Descend \/ Finish \/ Return
    BY <2>3 DEF Next
  <2>4. CASE UNCHANGED <<vars, document>>
    BY <2>4
  <2>5. QED
    BY <2>1, <2>2, <2>3, <2>4 DEF BuilderNext
<1>3. QED
  BY <1>1, <1>2, DocumentKept, PTL DEF BuilderSpec, Spec

\* So what is proved of the validator holds of schemas that were built: they are trees,
\* as the documents are.
THEOREM BuiltVerdicts == DocumentsAreTrees /\ BuilderSpec => [](VerdictRight /\ PathsBalanced)
<1> SUFFICES ASSUME DocumentsAreTrees PROVE BuilderSpec => [](VerdictRight /\ PathsBalanced)
  OBVIOUS
<1>1. SchemasAreTrees
  BY SchemasFollow
<1>2. Spec => []VerdictRight
  BY <1>1, Verdicts
<1>3. QED
  BY <1>2, PathsKept, BuilderImplements, PTL
=============================================================================
