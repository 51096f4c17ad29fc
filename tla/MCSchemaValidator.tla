------------------------- MODULE MCSchemaValidator -------------------------
(* Documents of schemas of every kind, two levels deep, in all notations,   *)
(* some of them ill-formed, and values on both sides of each bound.         *)
EXTENDS SchemaBuilder, TLC

Names == {"a", "b", "not", "params", "result", "type"}

T(kind) == "type" :> String(kind)
integer == Map_([minimum |-> Int_(1), maximum |-> Int_(3), exclusiveMaximum |-> Flag(TRUE)]
                @@ T("integer"))
number == Map_([minimum |-> Frac(0), maximum |-> Int_(2), exclusiveMinimum |-> Flag(TRUE),
                exclusiveMaximum |-> Flag(FALSE)] @@ T("number"))
string == Map_([minLength |-> Int_(1), maxLength |-> Int_(2), name |-> String("s")] @@ T("string"))
list == Map_([items |-> number, minItems |-> Int_(1), maxItems |-> Int_(2)] @@ T("list"))
pair == Map_([items |-> List_(<<integer, String("string")>>)] @@ T("list"))
open == Map_([items |-> List_(<<String("integer")>>), additionalItems |-> string] @@ T("list"))
either == Map_([anyOf |-> List_(<<list, pair, String("null")>>)])
nested == Map_([items |-> either, minItems |-> Int_(-1)] @@ T("list"))
notOpen == Map_([not |-> open])
Object_(props) == Map_([properties |-> Map_(props)])
With(doc, attrs) == Map_(attrs @@ doc.attrs)
object == With(Object_([a |-> integer, b |-> list]),
               [requires |-> List_(<<String("a"), String("b")>>), description |-> String("d")])

WellMeant ==
  {integer, number, string, list, pair, open, either, nested, notOpen, object,
   Map_(T("any")), String("null"), Map_(T("bool")),
   Map_([maximum |-> Frac(2), minimum |-> String("x"), exclusiveMaximum |-> Flag(TRUE)] @@ T("integer")),
   With(Object_([a |-> pair, b |-> String("bool")]),
        [requires |-> List_(<<String("a")>>), additionalProperties |-> nested]),
   Map_([allOf |-> List_(<<nested, notOpen>>)]),
   Map_([params |-> List_(<<integer, either>>), returns |-> pair]),
   Map_([params |-> List_(<<number>>), additionalParams |-> String("string"),
         returns |-> Map_([name |-> String("r")])]),
   Map_([params |-> List_(<<>>), returns |-> List_(<<>>)]),
   Object_([params |-> integer, type |-> String("integer")]),
   Map_([properties |-> String("bool"), requires |-> List_(<<String("type")>>)]),
   Map_([properties |-> List_(<<>>), anyOf |-> List_(<<>>)])}

IllMeant ==
  {String("any"), Flag(TRUE), List_(<<integer>>), Map_(None), Map_(T("tuple")),
   Map_([type |-> Int_(1)]), Map_(T("list")), Map_(T("method")), Map_(T("not")),
   Map_(T("anyOf")),
   With(integer, [name |-> Int_(1)]), With(pair, [description |-> Flag(TRUE)]),
   Map_([allOf |-> integer]), Map_([not |-> List_(<<integer>>)]),
   Map_([anyOf |-> List_(<<integer, Map_([params |-> Map_(None)])>>)]),
   With(open, [additionalItems |-> Map_(None)]),
   Object_([a |-> Int_(1)]), Object_([not |-> integer]), Object_([params |-> integer, a |-> list]),
   Object_([a |-> Object_([b |-> Map_(T("what"))])]),
   With(object, [requires |-> List_(<<String("params")>>)]),
   With(object, [requires |-> List_(<<Int_(1)>>)]), With(object, [requires |-> String("a")]),
   With(object, [additionalProperties |-> List_(<<>>)]),
   Map_([params |-> List_(<<Int_(1)>>)]),
   Map_([params |-> List_(<<>>), returns |-> Map_(T("what"))]),
   Map_([params |-> List_(<<>>), additionalParams |-> Map_(None)])}

AllDocuments == WellMeant \cup IllMeant

RECURSIVE Inside(_)
Inside(doc) == {doc} \cup UNION {Inside(x) : x \in ToSet(doc.items) \cup Range(doc.attrs)}

\* All documents inside those, and inside what is shown of what is built of them.
Built(docs) == Range(Builds(docs)) \ {Failed}
AndShown(docs) == docs \cup UNION {Inside(x) : x \in Range(Shows(Built(docs)))}
RECURSIVE Closed(_, _)
Closed(docs, more) == IF more = docs THEN docs ELSE Closed(more, AndShown(more))
AllJson == Closed({}, UNION {Inside(doc) : doc \in AllDocuments})
AllSchemas == Built(AllJson)
ItsOwnShape == [s \in AllSchemas |-> s]

Scalar(kind, n) == [kind |-> kind, num |-> n, items |-> <<>>, fields |-> <<>>]
List(items) == [Scalar("list", 0) EXCEPT !.items = items]
Object(fields) == [Scalar("object", 0) EXCEPT !.fields = fields]

AllValues ==
  [null |-> Scalar("null", 0), yes |-> Scalar("bool", 0),
   i0 |-> Scalar("integer", 0), i1 |-> Scalar("integer", 1),
   i2 |-> Scalar("integer", 2), i3 |-> Scalar("integer", 3),
   f1 |-> Scalar("float", 1), f3 |-> Scalar("float", 3),
   s0 |-> Scalar("string", 0), s1 |-> Scalar("string", 1),
   s2 |-> Scalar("string", 2), s3 |-> Scalar("string", 3),
   none |-> List(<<>>), one |-> List(<<"i1">>), pair |-> List(<<"i2", "s1">>),
   two |-> List(<<"f1", "i2">>), three |-> List(<<"i1", "s1", "s3">>),
   deep |-> List(<<"i1", "pair">>), deeper |-> List(<<"pair", "two", "three">>),
   bare |-> Object(<<>>), full |-> Object([a |-> "i1", b |-> "two"]),
   other |-> Object([a |-> "pair", params |-> "deeper"]),
   typed |-> Object([a |-> "pair", b |-> "i1", result |-> "deep"]),
   call |-> Object([params |-> "deep"]), many |-> Object([params |-> "three"]),
   answer |-> Object([params |-> "i1", result |-> "pair"]),
   reply |-> Object([result |-> "one"]), wrong |-> Object([type |-> "s1", params |-> "i1"]),
   right |-> Object([type |-> "i1", params |-> "i2"])]
AllDatas == DOMAIN AllValues
=============================================================================
