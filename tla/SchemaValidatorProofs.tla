------------------------ MODULE SchemaValidatorProofs ------------------------
(***************************************************************************)
(* Proofs about SchemaValidator, for any finite trees of schemas and any   *)
(* values.                                                                 *)
(***************************************************************************)
EXTENDS SchemaValidator, SequenceTheorems, FiniteSetTheorems, WellFoundedInduction,
        TLAPS

(* The inductive invariants.                                               *)

Step == [item : Nat] \cup [field : Props]
Path == Seq(Step)
CallSet == [what : {"scan", "params", "absent", "overlong"}, schema : Schemas,
            path : Path, data : Datas]
FrameSet == [call : CallSet, started : BOOLEAN, todo : Seq(CallSet)]

TypeInv ==
  /\ scans > 0 => subject \in Schemas \X Datas
  /\ stack \in Seq(FrameSet) /\ paths \in Path
  /\ result \in [done : BOOLEAN, ok : BOOLEAN, at : Path]
  /\ panicked \in BOOLEAN /\ scans \in Nat

\* The schemas a schema is made of.
Kids(s) ==
  LET sh == Shape[s]
  IN Range(sh.sub) \cup Range(sh.props) \cup ({sh.extra, sh.returns} \ {Nothing})

\* A schema is made of schemas that were there before it.
SchemasAreTrees ==
  \A S \in SUBSET Schemas : S # {} => \E s \in S : Kids(s) \cap S = {}

\* What is wrong with the data of a call, as paths from it.
Wrong(c) ==
  CASE c.what = "scan" -> Faults[<<c.schema, c.data>>]
    [] c.what = "params" -> FaultsOfItems(Faults, Shape[c.schema], Value[c.data].items)
    [] OTHER -> {<<>>}

\* What is wrong as seen from the caller, and by any of the calls.
Under(c) == Below(c.path, Wrong(c))
AllUnder(calls) == UNION {Under(calls[i]) : i \in 1 .. Len(calls)}

\* What is wrong depends on the calls that c has still to make.
Decide(c, calls) ==
  CASE KindOf(c) = "anyOf" ->
         Wrong(c) = Here(\A i \in 1 .. Len(calls) : Wrong(calls[i]) # {})
    [] KindOf(c) = "not" ->
         Len(calls) = 1 /\ Wrong(c) = Here(Wrong(calls[1]) = {})
    [] OTHER -> Wrong(c) = AllUnder(calls)

\* The calls the i-th call has not come back from.
Pending(st, i) == IF i = Len(st) THEN st[i].todo ELSE <<st[i + 1].call>> \o st[i].todo

\* A call that has started depends on those, unless it has returned.
CallHolds(st, done, i) ==
  /\ i < Len(st) => st[i].started = TRUE
  /\ st[i].started = TRUE /\ (i < Len(st) \/ done = FALSE) => Decide(st[i].call, Pending(st, i))
CallsHold(st, done) == \A i \in 1 .. Len(st) : CallHolds(st, done, i)
CallsInv == CallsHold(stack, result.done)

\* What is returned is right of a value with faults at these places from path.
Right(res, path, places) ==
  IF places = {} THEN res.ok = TRUE
  ELSE res.ok = FALSE /\ \E p \in places : res.at = path \o p

VerdictInv ==
  /\ stack # <<>> /\ result.done = TRUE => Right(result, paths, Wrong(Top.call))
  /\ stack # <<>> => stack[1].call = Scan(subject[1], NoPath, subject[2]) /\ scans > 0
  /\ Over => Right(result, <<>>, Faults[subject])

-----------------------------------------------------------------------------
(* FlattenSeq.                                                             *)

LEMMA LeastNatural ==
  ASSUME NEW I \in SUBSET Nat, I # {}
  PROVE  \E i \in I : \A j \in I : i <= j
<1> DEFINE R == OpToRel(<, Nat)
<1>1. IsWellFoundedOn(R, Nat)
  BY NatLessThanWellFounded
<1> HIDE DEF R
<1>2. PICK x \in I : \A y \in I : <<y, x>> \notin R
  BY <1>1, WFMin
<1>3. \A y \in I : ~(y < x)
  BY <1>2 DEF R, OpToRel
<1>4. QED
  BY <1>3

\* f[i] is the concatenation of the first i elements of s.
Flat(f, s, n) ==
  f = [i \in 1 .. n |-> IF i = 1 THEN s[i] ELSE f[i - 1] \o s[i]]

LEMMA FlatExists ==
  ASSUME NEW s, NEW n \in Nat
  PROVE  \E f : Flat(f, s, n)
<1> PICK T : T = {m \in Nat : ~ \E f : Flat(f, s, m)}
  OBVIOUS
<1>1. SUFFICES ASSUME T # {} PROVE FALSE
  OBVIOUS
<1> T \in SUBSET Nat
  OBVIOUS
<1>2. PICK m \in T : \A j \in T : m <= j
  BY <1>1, LeastNatural
<1>3. CASE m = 0
  <2> PICK f : f = <<>>
    OBVIOUS
  <2>1. Flat(f, s, 0)
    BY DEF Flat
  <2>2. \E h : Flat(h, s, m)
    BY <1>3, <2>1
  <2>3. QED
    BY <1>2, <2>2
<1>4. CASE m # 0
  <2>1. m - 1 \in Nat /\ m - 1 \notin T
    BY <1>2, <1>4
  <2>2. PICK g : Flat(g, s, m - 1)
    BY <2>1
  <2> PICK f : f = [i \in 1 .. m |-> IF i = 1 THEN s[i] ELSE g[i - 1] \o s[i]]
    OBVIOUS
  <2>3. ASSUME NEW i \in 1 .. m, i # 1 PROVE f[i - 1] = g[i - 1]
    <3>1. i - 1 \in 1 .. m - 1 /\ i - 1 \in 1 .. m
      BY <2>1, <2>3
    <3>2. QED
      BY <2>2, <3>1 DEF Flat
  <2>4. Flat(f, s, m)
    BY <2>3 DEF Flat
  <2>5. QED
    BY <1>2, <2>4
<1>5. QED
  BY <1>3, <1>4

LEMMA FlatAgree ==
  ASSUME NEW s, NEW t, NEW m \in Nat, NEW n \in Nat, m <= n,
         \A i \in 1 .. m : s[i] = t[i],
         NEW f, Flat(f, s, m), NEW g, Flat(g, t, n)
  PROVE  \A i \in 1 .. m : f[i] = g[i]
<1> PICK T : T = {i \in 1 .. m : f[i] # g[i]}
  OBVIOUS
<1>1. SUFFICES ASSUME T # {} PROVE FALSE
  OBVIOUS
<1> T \in SUBSET Nat
  OBVIOUS
<1>2. PICK i \in T : \A j \in T : i <= j
  BY <1>1, LeastNatural
<1>3. i \in 1 .. m /\ i \in 1 .. n
  OBVIOUS
<1>4. CASE i = 1
  BY <1>3, <1>4 DEF Flat
<1>5. CASE i # 1
  <2>1. i - 1 \in 1 .. m /\ i - 1 \notin T
    BY <1>2, <1>5
  <2>2. f[i - 1] = g[i - 1]
    BY <2>1
  <2>3. f[i] = f[i - 1] \o s[i]
    BY <1>3, <1>5 DEF Flat
  <2>4. g[i] = g[i - 1] \o t[i]
    BY <1>3, <1>5 DEF Flat
  <2>5. s[i] = t[i]
    BY <1>3
  <2>6. QED
    BY <2>2, <2>3, <2>4, <2>5
<1>6. QED
  BY <1>4, <1>5

LEMMA FlattenIs ==
  ASSUME NEW s, Len(s) # 0, Len(s) \in Nat
  PROVE  \E f : Flat(f, s, Len(s)) /\ FlattenSeq(s) = f[Len(s)]
<1> PICK f : f = CHOOSE g : Flat(g, s, Len(s))
  OBVIOUS
<1>1. Flat(f, s, Len(s))
  BY FlatExists
<1>2. FlattenSeq(s) = f[Len(s)]
  BY DEF FlattenSeq, Flat
<1>3. QED
  BY <1>1, <1>2

LEMMA FlattenAppend ==
  ASSUME NEW X, NEW s \in Seq(Seq(X)), NEW x \in Seq(X)
  PROVE  FlattenSeq(Append(s, x)) = FlattenSeq(s) \o x
<1> PICK t : t = Append(s, x)
  OBVIOUS
<1> PICK n \in Nat : n = Len(s)
  BY LenProperties
<1>1. Len(t) = n + 1 /\ t[n + 1] = x /\ \A i \in 1 .. n : s[i] = t[i]
  BY AppendProperties
<1>2. PICK g : Flat(g, t, n + 1) /\ FlattenSeq(t) = g[n + 1]
  <2>1. n + 1 \in Nat /\ n + 1 # 0
    OBVIOUS
  <2>2. QED
    BY <1>1, <2>1, FlattenIs
<1>3. CASE n = 0
  <2>1. FlattenSeq(t) = x
    BY <1>1, <1>2, <1>3 DEF Flat
  <2>2. s = <<>>
    BY <1>3, EmptySeq
  <2>3. FlattenSeq(s) = <<>>
    BY <1>3, <2>2 DEF FlattenSeq
  <2>4. <<>> \o x = x
    BY ConcatEmptySeq
  <2>5. QED
    BY <2>1, <2>3, <2>4
<1>4. CASE n # 0
  <2>1. PICK f : Flat(f, s, n) /\ FlattenSeq(s) = f[n]
    BY <1>4, FlattenIs
  <2>2. f[n] = g[n]
    <3>1. n + 1 \in Nat /\ n <= n + 1 /\ n \in 1 .. n
      BY <1>4
    <3> PICK k \in Nat : k = n + 1
      OBVIOUS
    <3>2. Flat(f, s, n) /\ Flat(g, t, k) /\ n <= k /\ \A i \in 1 .. n : s[i] = t[i]
      BY <1>1, <1>2, <2>1
    <3>3. \A i \in 1 .. n : f[i] = g[i]
      BY ONLY <3>2, n \in Nat, k \in Nat, FlatAgree
    <3>4. QED
      BY <3>1, <3>3
  <2>3. g[n + 1] = g[n] \o t[n + 1]
    <3>1. n + 1 \in 1 .. n + 1 /\ n + 1 # 1 /\ (n + 1) - 1 = n
      BY <1>4
    <3>2. g[n + 1] = g[(n + 1) - 1] \o t[n + 1]
      BY <1>2, <3>1 DEF Flat
    <3>3. QED
      BY <3>1, <3>2
  <2>4. QED
    BY <1>1, <1>2, <2>1, <2>2, <2>3
<1>5. QED
  BY <1>3, <1>4

LEMMA FlattenType ==
  ASSUME NEW X, NEW s \in Seq(Seq(X))
  PROVE  FlattenSeq(s) \in Seq(X)
<1> PICK n \in Nat : n = Len(s)
  BY LenProperties
<1>1. CASE n = 0
  BY <1>1, EmptySeq DEF FlattenSeq
<1>2. CASE n # 0
  <2>1. PICK f : Flat(f, s, n) /\ FlattenSeq(s) = f[n]
    BY <1>2, FlattenIs
  <2> PICK T : T = {i \in 1 .. n : f[i] \notin Seq(X)}
    OBVIOUS
  <2>2. SUFFICES ASSUME T # {} PROVE FALSE
    BY <1>2, <2>1
  <2> T \in SUBSET Nat
    OBVIOUS
  <2>3. PICK i \in T : \A j \in T : i <= j
    BY <2>2, LeastNatural
  <2>4. s[i] \in Seq(X)
    BY ElementOfSeq
  <2>5. CASE i = 1
    BY <2>1, <2>4, <2>5 DEF Flat
  <2>6. CASE i # 1
    <3>1. i - 1 \in 1 .. n /\ i - 1 \notin T
      BY <2>3, <2>6
    <3>2. f[i - 1] \o s[i] \in Seq(X)
      BY <2>4, <3>1, ConcatProperties
    <3>3. QED
      BY <2>1, <2>6, <3>2 DEF Flat
  <2>7. QED
    BY <2>5, <2>6
<1>3. QED
  BY <1>1, <1>2

-----------------------------------------------------------------------------
(* Faults, by recursion over the schemas.                                  *)

Agree(f, g, s) == \A t \in Kids(s), d \in Datas : f[<<t, d>>] = g[<<t, d>>]
Places(f, s) == \A t \in Kids(s), d \in Datas : f[<<t, d>>] \in SUBSET Path

LEMMA KidsOf ==
  ASSUME NEW s \in Schemas
  PROVE  /\ Kids(s) \in SUBSET Schemas
         /\ \A i \in 1 .. Len(Shape[s].sub) : Shape[s].sub[i] \in Kids(s)
         /\ \A p \in DOMAIN Shape[s].props : Shape[s].props[p] \in Kids(s)
         /\ Shape[s].extra # Nothing => Shape[s].extra \in Kids(s)
         /\ Shape[s].returns # Nothing => Shape[s].returns \in Kids(s)
<1>1. IsShape(Shape[s])
  BY ValidatorAssumption
<1>2. Shape[s].sub \in Seq(Schemas)
  BY <1>1 DEF IsShape
<1>3. DOMAIN Shape[s].sub = 1 .. Len(Shape[s].sub)
  BY <1>2, LenProperties
<1>4. \A i \in 1 .. Len(Shape[s].sub) : Shape[s].sub[i] \in Schemas
  BY <1>2, ElementOfSeq
<1>5. Range(Shape[s].sub) \in SUBSET Schemas
  BY <1>3, <1>4 DEF Range
<1>6. Range(Shape[s].props) \in SUBSET Schemas
  BY <1>1 DEF IsShape
<1>7. {Shape[s].extra, Shape[s].returns} \ {Nothing} \in SUBSET Schemas
  BY <1>1 DEF IsShape, OptSchema
<1>8. QED
  BY <1>3, <1>5, <1>6, <1>7 DEF Kids, Range

LEMMA FieldsOf ==
  ASSUME NEW d \in Datas
  PROVE  /\ Value[d].items \in Seq(Datas)
         /\ Len(Value[d].items) \in Nat
         /\ DOMAIN Value[d].items = 1 .. Len(Value[d].items)
         /\ \A i \in 1 .. Len(Value[d].items) : Value[d].items[i] \in Datas
         /\ DOMAIN Value[d].fields \in SUBSET Props
         /\ \A p \in DOMAIN Value[d].fields : Value[d].fields[p] \in Datas
         /\ IsList(ParamsOf(d)) => /\ "params" \in DOMAIN Value[d].fields
                                   /\ ParamsOf(d) = Value[d].fields["params"]
                                   /\ ParamsOf(d) \in Datas
<1>1. IsValue(Value[d])
  BY ValidatorAssumption
<1>2. Value[d].items \in Seq(Datas)
  BY <1>1 DEF IsValue
<1>3. \A i \in 1 .. Len(Value[d].items) : Value[d].items[i] \in Datas
  BY <1>2, ElementOfSeq
<1>4. /\ DOMAIN Value[d].fields \in SUBSET Props
      /\ \A p \in DOMAIN Value[d].fields : Value[d].fields[p] \in Datas
  BY <1>1 DEF IsValue, Range
<1>5. QED
  BY <1>2, <1>3, <1>4, LenProperties DEF IsList, ParamsOf

LEMMA ItemsAgree ==
  ASSUME NEW s \in Schemas, NEW items \in Seq(Datas), NEW f, NEW g, Agree(f, g, s)
  PROVE  FaultsOfItems(f, Shape[s], items) = FaultsOfItems(g, Shape[s], items)
<1> PICK sh : sh = Shape[s]
  OBVIOUS
<1> PICK I : I = {j \in 1 .. Len(items) : Cover(sh, j) # Nothing}
  OBVIOUS
<1>1. ASSUME NEW i \in I PROVE f[<<Cover(sh, i), items[i]>>] = g[<<Cover(sh, i), items[i]>>]
  <2>1. items[i] \in Datas
    BY ElementOfSeq
  <2>2. Len(items) \in Nat /\ i \in Nat /\ i > 0
    BY LenProperties
  <2>3. Shape[s].sub \in Seq(Schemas)
    BY ValidatorAssumption DEF IsShape
  <2>4. Len(Shape[s].sub) \in Nat
    BY <2>3, LenProperties
  <2>5. Cover(sh, i) \in Kids(s)
    <3>1. CASE i <= Len(sh.sub)
      BY <2>2, <2>4, <3>1, KidsOf DEF Cover
    <3>2. CASE ~(i <= Len(sh.sub))
      BY <3>2, KidsOf DEF Cover
    <3>3. QED
      BY <3>1, <3>2
  <2>6. QED
    BY <2>1, <2>5 DEF Agree
<1>2. {Below(Item(i - 1), f[<<Cover(sh, i), items[i]>>]) : i \in I}
       = {Below(Item(i - 1), g[<<Cover(sh, i), items[i]>>]) : i \in I}
  BY <1>1
<1> PICK wrong : wrong = (Len(items) < Len(sh.sub) \/ (Len(items) > Len(sh.sub) /\ sh.extra = Nothing))
  OBVIOUS
<1>3. ASSUME NEW h
      PROVE  FaultsOfItems(h, sh, items) =
               Here(wrong) \cup UNION {Below(Item(i - 1), h[<<Cover(sh, i), items[i]>>]) : i \in I}
  BY DEF FaultsOfItems
<1>4. QED
  BY <1>2, <1>3

LEMMA FieldsAgree ==
  ASSUME NEW s \in Schemas, NEW d \in Datas, NEW f, NEW g, Agree(f, g, s)
  PROVE  FaultsOfFields(f, Shape[s], Value[d].fields) = FaultsOfFields(g, Shape[s], Value[d].fields)
<1> PICK sh : sh = Shape[s]
  OBVIOUS
<1> PICK fields : fields = Value[d].fields
  OBVIOUS
<1>1. \A p \in DOMAIN sh.props \cap DOMAIN fields :
        f[<<sh.props[p], fields[p]>>] = g[<<sh.props[p], fields[p]>>]
  BY KidsOf, FieldsOf DEF Agree
<1>2. sh.extra # Nothing => \A p \in DOMAIN fields \ DOMAIN sh.props :
        f[<<sh.extra, fields[p]>>] = g[<<sh.extra, fields[p]>>]
  BY KidsOf, FieldsOf DEF Agree
<1> PICK K : K = DOMAIN sh.props \cap DOMAIN fields
  OBVIOUS
<1> PICK N : N = DOMAIN fields \ DOMAIN sh.props
  OBVIOUS
<1> PICK known : known = {Below(Field(p), f[<<sh.props[p], fields[p]>>]) : p \in K}
  OBVIOUS
<1> PICK other : other = {Below(Field(p), f[<<sh.extra, fields[p]>>]) : p \in N}
  OBVIOUS
<1> PICK missing : missing = {Field(p) : p \in sh.requires \ DOMAIN fields}
  OBVIOUS
<1>3. known = {Below(Field(p), g[<<sh.props[p], fields[p]>>]) : p \in K}
  BY <1>1
<1>4. sh.extra # Nothing => other = {Below(Field(p), g[<<sh.extra, fields[p]>>]) : p \in N}
  BY <1>2
<1>5. FaultsOfFields(f, sh, fields) =
        missing \cup (UNION known) \cup (IF sh.extra = Nothing THEN {} ELSE UNION other)
  BY DEF FaultsOfFields
<1>6. FaultsOfFields(g, sh, fields) =
        missing \cup (UNION known) \cup (IF sh.extra = Nothing THEN {} ELSE UNION other)
  BY <1>3, <1>4 DEF FaultsOfFields
<1>7. QED
  BY <1>5, <1>6

LEMMA MessagesAgree ==
  ASSUME NEW s \in Schemas, NEW d \in Datas, NEW f, NEW g, Agree(f, g, s)
  PROVE  FaultsOfMessage(f, Shape[s], d) = FaultsOfMessage(g, Shape[s], d)
<1>1. IsList(ParamsOf(d)) =>
        FaultsOfItems(f, Shape[s], Value[ParamsOf(d)].items)
        = FaultsOfItems(g, Shape[s], Value[ParamsOf(d)].items)
  <2>1. SUFFICES ASSUME IsList(ParamsOf(d))
                 PROVE  FaultsOfItems(f, Shape[s], Value[ParamsOf(d)].items)
                        = FaultsOfItems(g, Shape[s], Value[ParamsOf(d)].items)
    OBVIOUS
  <2> PICK items : items = Value[ParamsOf(d)].items
    OBVIOUS
  <2>2. items \in Seq(Datas)
    BY <2>1, FieldsOf
  <2>3. QED
    BY <2>2, ItemsAgree
<1>2. "result" \in DOMAIN Value[d].fields /\ Shape[s].returns # Nothing =>
        f[<<Shape[s].returns, Value[d].fields["result"]>>]
        = g[<<Shape[s].returns, Value[d].fields["result"]>>]
  BY KidsOf, FieldsOf DEF Agree
<1>3. QED
  BY <1>1, <1>2 DEF FaultsOfMessage

LEMMA FaultsAgree ==
  ASSUME NEW s \in Schemas, NEW d \in Datas, NEW f, NEW g, Agree(f, g, s)
  PROVE  FaultsBy(f, s, d) = FaultsBy(g, s, d)
<1> PICK sh : sh = Shape[s]
  OBVIOUS
<1> PICK v : v = Value[d]
  OBVIOUS
<1>1. FaultsOfItems(f, sh, v.items) = FaultsOfItems(g, sh, v.items)
  BY FieldsOf, ItemsAgree
<1>2. FaultsOfFields(f, sh, v.fields) = FaultsOfFields(g, sh, v.fields)
  BY FieldsAgree
<1>3. FaultsOfMessage(f, sh, d) = FaultsOfMessage(g, sh, d)
  BY MessagesAgree
<1>4. DOMAIN sh.sub = 1 .. Len(sh.sub) /\ \A i \in DOMAIN sh.sub : f[<<sh.sub[i], d>>] = g[<<sh.sub[i], d>>]
  <2>1. sh.sub \in Seq(Schemas)
    BY ValidatorAssumption DEF IsShape
  <2>2. DOMAIN sh.sub = 1 .. Len(sh.sub)
    BY <2>1, LenProperties
  <2>3. QED
    BY <2>2, KidsOf DEF Agree
<1>5. {f[<<sh.sub[i], d>>] : i \in DOMAIN sh.sub} = {g[<<sh.sub[i], d>>] : i \in DOMAIN sh.sub}
  BY <1>4
<1>6. sh.kind = "not" => f[<<sh.sub[1], d>>] = g[<<sh.sub[1], d>>]
  <2>1. sh.kind = "not" => Len(sh.sub) = 1
    BY ValidatorAssumption DEF IsShape
  <2>2. Len(sh.sub) = 1 => 1 \in DOMAIN sh.sub
    BY <1>4
  <2>3. QED
    BY <1>4, <2>1, <2>2
<1>7. sh.kind = "list" => \A i \in DOMAIN v.items :
         f[<<sh.sub[1], v.items[i]>>] = g[<<sh.sub[1], v.items[i]>>]
  <2>1. sh.kind = "list" => Len(sh.sub) = 1
    BY ValidatorAssumption DEF IsShape
  <2>2. QED
    BY <2>1, KidsOf, FieldsOf DEF Agree
<1>8. sh.kind = "list" =>
         {Below(Item(i - 1), f[<<sh.sub[1], v.items[i]>>]) : i \in DOMAIN v.items}
         = {Below(Item(i - 1), g[<<sh.sub[1], v.items[i]>>]) : i \in DOMAIN v.items}
  BY <1>7
<1>9. (\A i \in DOMAIN sh.sub : f[<<sh.sub[i], d>>] # {})
       <=> (\A i \in DOMAIN sh.sub : g[<<sh.sub[i], d>>] # {})
  BY <1>4
<1>10. QED
  BY <1>1, <1>2, <1>3, <1>5, <1>6, <1>8, <1>9 DEF FaultsBy, FaultsOf

LEMMA PathsOf ==
  /\ NoPath \in Path
  /\ \A n \in Nat : Item(n) \in Path
  /\ \A p \in Props : Field(p) \in Path
  /\ \A wrong \in BOOLEAN : Here(wrong) \in SUBSET Path
  /\ \A path \in Path, places \in SUBSET Path : Below(path, places) \in SUBSET Path
<1>1. <<>> \in Path
  BY DEF Path
<1>2. ASSUME NEW n \in Nat PROVE Item(n) \in Path
  <2>1. [item |-> n] \in Step
    BY DEF Step
  <2>2. QED
    BY <2>1 DEF Item, Path
<1>3. ASSUME NEW p \in Props PROVE Field(p) \in Path
  <2>1. [field |-> p] \in Step
    BY DEF Step
  <2>2. QED
    BY <2>1 DEF Field, Path
<1>4. ASSUME NEW path \in Path, NEW places \in SUBSET Path PROVE Below(path, places) \in SUBSET Path
  <2>1. ASSUME NEW p \in places PROVE path \o p \in Path
    BY ConcatProperties DEF Path
  <2>2. QED
    BY <2>1 DEF Below
<1>5. QED
  BY <1>1, <1>2, <1>3, <1>4 DEF Here, NoPath

LEMMA ItemsPlaces ==
  ASSUME NEW s \in Schemas, NEW items \in Seq(Datas), NEW f, Places(f, s)
  PROVE  FaultsOfItems(f, Shape[s], items) \in SUBSET Path
<1> PICK sh : sh = Shape[s]
  OBVIOUS
<1> PICK I : I = {j \in 1 .. Len(items) : Cover(sh, j) # Nothing}
  OBVIOUS
<1>1. ASSUME NEW i \in I PROVE Below(Item(i - 1), f[<<Cover(sh, i), items[i]>>]) \in SUBSET Path
  <2>1. items[i] \in Datas
    BY ElementOfSeq
  <2>2. Len(items) \in Nat /\ i \in Nat /\ i > 0
    BY LenProperties
  <2>3. Shape[s].sub \in Seq(Schemas)
    BY ValidatorAssumption DEF IsShape
  <2>4. Len(Shape[s].sub) \in Nat
    BY <2>3, LenProperties
  <2>5. Cover(sh, i) \in Kids(s)
    <3>1. CASE i <= Len(sh.sub)
      BY <2>2, <2>4, <3>1, KidsOf DEF Cover
    <3>2. CASE ~(i <= Len(sh.sub))
      BY <3>2, KidsOf DEF Cover
    <3>3. QED
      BY <3>1, <3>2
  <2>6. f[<<Cover(sh, i), items[i]>>] \in SUBSET Path
    BY <2>1, <2>5 DEF Places
  <2>7. Item(i - 1) \in Path
    <3>1. i - 1 \in Nat
      BY <2>2
    <3>2. QED
      BY <3>1, PathsOf
  <2>8. QED
    BY <2>6, <2>7, PathsOf
<1> PICK below : below = {Below(Item(i - 1), f[<<Cover(sh, i), items[i]>>]) : i \in I}
  OBVIOUS
<1>2. UNION below \in SUBSET Path
  <2>1. \A x \in below : x \in SUBSET Path
    BY ONLY <1>1, below = {Below(Item(i - 1), f[<<Cover(sh, i), items[i]>>]) : i \in I}
  <2>2. QED
    BY ONLY <2>1
<1> PICK wrong \in BOOLEAN :
       wrong = (Len(items) < Len(sh.sub) \/ (Len(items) > Len(sh.sub) /\ sh.extra = Nothing))
  OBVIOUS
<1>3. FaultsOfItems(f, sh, items) = Here(wrong) \cup UNION below
  BY DEF FaultsOfItems
<1>4. QED
  BY <1>2, <1>3, PathsOf

LEMMA FieldsPlaces ==
  ASSUME NEW s \in Schemas, NEW d \in Datas, NEW f, Places(f, s)
  PROVE  FaultsOfFields(f, Shape[s], Value[d].fields) \in SUBSET Path
<1> PICK sh : sh = Shape[s]
  OBVIOUS
<1> PICK fields : fields = Value[d].fields
  OBVIOUS
<1> PICK K : K = DOMAIN sh.props \cap DOMAIN fields
  OBVIOUS
<1> PICK N : N = DOMAIN fields \ DOMAIN sh.props
  OBVIOUS
<1>1. DOMAIN fields \in SUBSET Props /\ sh.requires \in SUBSET Props
  BY FieldsOf, ValidatorAssumption DEF IsShape
<1>2. ASSUME NEW p \in K PROVE Below(Field(p), f[<<sh.props[p], fields[p]>>]) \in SUBSET Path
  <2>1. f[<<sh.props[p], fields[p]>>] \in SUBSET Path
    BY KidsOf, FieldsOf DEF Places
  <2>2. QED
    BY <1>1, <2>1, PathsOf
<1>3. ASSUME sh.extra # Nothing, NEW p \in N
      PROVE  Below(Field(p), f[<<sh.extra, fields[p]>>]) \in SUBSET Path
  <2>1. f[<<sh.extra, fields[p]>>] \in SUBSET Path
    BY <1>3, KidsOf, FieldsOf DEF Places
  <2>2. QED
    BY <1>1, <2>1, PathsOf
<1> PICK known : known = {Below(Field(p), f[<<sh.props[p], fields[p]>>]) : p \in K}
  OBVIOUS
<1> PICK other : other = {Below(Field(p), f[<<sh.extra, fields[p]>>]) : p \in N}
  OBVIOUS
<1> PICK missing : missing = {Field(p) : p \in sh.requires \ DOMAIN fields}
  OBVIOUS
<1>4. /\ \A x \in known : x \in SUBSET Path
      /\ sh.extra # Nothing => \A x \in other : x \in SUBSET Path
  <2>1. \A x \in known : x \in SUBSET Path
    BY ONLY <1>2, known = {Below(Field(p), f[<<sh.props[p], fields[p]>>]) : p \in K}
  <2>2. sh.extra # Nothing => \A x \in other : x \in SUBSET Path
    BY ONLY <1>3, other = {Below(Field(p), f[<<sh.extra, fields[p]>>]) : p \in N}
  <2>3. QED
    BY <2>1, <2>2
<1>5. missing \in SUBSET Path
  BY <1>1, PathsOf
<1>6. FaultsOfFields(f, sh, fields) =
        missing \cup (UNION known) \cup (IF sh.extra = Nothing THEN {} ELSE UNION other)
  BY DEF FaultsOfFields
<1>7. FaultsOfFields(f, sh, fields) \in SUBSET Path
  <2>1. UNION known \in SUBSET Path
    BY ONLY <1>4
  <2>2. CASE sh.extra = Nothing
    <3>1. FaultsOfFields(f, sh, fields) = missing \cup (UNION known)
      BY <1>6, <2>2
    <3>2. QED
      BY ONLY <1>5, <2>1, <3>1
  <2>3. CASE sh.extra # Nothing
    <3>1. FaultsOfFields(f, sh, fields) = missing \cup (UNION known) \cup (UNION other)
      BY <1>6, <2>3
    <3>2. UNION other \in SUBSET Path
      BY ONLY <1>4, <2>3
    <3>3. missing \cup (UNION known) \cup (UNION other) \in SUBSET Path
      BY ONLY <1>5, <2>1, <3>2
    <3>4. QED
      BY ONLY <3>1, <3>3
  <2>4. QED
    BY <2>2, <2>3
<1>8. QED
  BY <1>7

LEMMA MessagesPlaces ==
  ASSUME NEW s \in Schemas, NEW d \in Datas, NEW f, Places(f, s)
  PROVE  FaultsOfMessage(f, Shape[s], d) \in SUBSET Path
<1>1. CASE IsList(ParamsOf(d))
  <2> PICK items : items = Value[ParamsOf(d)].items
    OBVIOUS
  <2>1. items \in Seq(Datas) /\ "params" \in Props
    BY <1>1, FieldsOf
  <2>2. FaultsOfItems(f, Shape[s], items) \in SUBSET Path
    BY <2>1, ItemsPlaces
  <2>3. Below(Field("params"), FaultsOfItems(f, Shape[s], items)) \in SUBSET Path
    BY <2>1, <2>2, PathsOf
  <2>4. QED
    BY <1>1, <2>3 DEF FaultsOfMessage
<1>2. CASE ~IsList(ParamsOf(d))
  <2>1. CASE "result" \notin DOMAIN Value[d].fields
    BY <1>2, <2>1, PathsOf DEF FaultsOfMessage, NoPath
  <2>2. CASE "result" \in DOMAIN Value[d].fields /\ Shape[s].returns = Nothing
    BY <1>2, <2>2 DEF FaultsOfMessage
  <2>3. CASE "result" \in DOMAIN Value[d].fields /\ Shape[s].returns # Nothing
    <3>1. f[<<Shape[s].returns, Value[d].fields["result"]>>] \in SUBSET Path /\ "result" \in Props
      BY <2>3, KidsOf, FieldsOf DEF Places
    <3>2. Below(Field("result"), f[<<Shape[s].returns, Value[d].fields["result"]>>]) \in SUBSET Path
      BY <3>1, PathsOf
    <3>3. QED
      BY <1>2, <2>3, <3>2 DEF FaultsOfMessage
  <2>4. QED
    BY <2>1, <2>2, <2>3
<1>3. QED
  BY <1>1, <1>2

LEMMA FaultsPlaces ==
  ASSUME NEW s \in Schemas, NEW d \in Datas, NEW f, Places(f, s)
  PROVE  FaultsBy(f, s, d) \in SUBSET Path
<1> PICK sh : sh = Shape[s]
  OBVIOUS
<1> PICK v : v = Value[d]
  OBVIOUS
<1>1. FaultsOfItems(f, sh, v.items) \in SUBSET Path
  BY FieldsOf, ItemsPlaces
<1>2. FaultsOfFields(f, sh, v.fields) \in SUBSET Path
  BY FieldsPlaces
<1>3. FaultsOfMessage(f, sh, d) \in SUBSET Path
  BY MessagesPlaces
<1>4. UNION {f[<<sh.sub[i], d>>] : i \in DOMAIN sh.sub} \in SUBSET Path
  <2>1. sh.sub \in Seq(Schemas)
    BY ValidatorAssumption DEF IsShape
  <2>2. DOMAIN sh.sub = 1 .. Len(sh.sub)
    BY <2>1, LenProperties
  <2>3. \A i \in DOMAIN sh.sub : f[<<sh.sub[i], d>>] \in SUBSET Path
    BY <2>2, KidsOf DEF Places
  <2> PICK places : places = {f[<<sh.sub[i], d>>] : i \in DOMAIN sh.sub}
    OBVIOUS
  <2>4. \A x \in places : x \in SUBSET Path
    BY ONLY <2>3, places = {f[<<sh.sub[i], d>>] : i \in DOMAIN sh.sub}
  <2>5. UNION places \in SUBSET Path
    BY ONLY <2>4
  <2>6. QED
    BY ONLY <2>5, places = {f[<<sh.sub[i], d>>] : i \in DOMAIN sh.sub}
<1> PICK below : below = {Below(Item(i - 1), f[<<sh.sub[1], v.items[i]>>]) : i \in DOMAIN v.items}
  OBVIOUS
<1>5. sh.kind = "list" => UNION below \in SUBSET Path
  <2>1. ASSUME sh.kind = "list", NEW i \in DOMAIN v.items
        PROVE  Below(Item(i - 1), f[<<sh.sub[1], v.items[i]>>]) \in SUBSET Path
    <3>1. Len(sh.sub) = 1
      BY <2>1, ValidatorAssumption DEF IsShape
    <3>2. f[<<sh.sub[1], v.items[i]>>] \in SUBSET Path
      BY <3>1, KidsOf, FieldsOf DEF Places
    <3>3. i - 1 \in Nat
      BY FieldsOf
    <3>4. QED
      BY <3>2, <3>3, PathsOf
  <2>2. sh.kind = "list" => \A x \in below : x \in SUBSET Path
    BY ONLY <2>1,
            below = {Below(Item(i - 1), f[<<sh.sub[1], v.items[i]>>]) : i \in DOMAIN v.items}
  <2>3. (\A x \in below : x \in SUBSET Path) => UNION below \in SUBSET Path
    BY ONLY TRUE
  <2>4. QED
    BY ONLY <2>2, <2>3
<1>6. \A wrong : Here(wrong) \in SUBSET Path
  BY PathsOf DEF Here, NoPath
<1>7. CASE sh.kind \in {"any", "anyOf", "allOf", "not"}
  BY <1>4, <1>6, <1>7 DEF FaultsBy, FaultsOf
<1>8. CASE sh.kind = "list"
  BY <1>5, <1>6, <1>8 DEF FaultsBy, FaultsOf
<1>9. CASE sh.kind \in {"tuple", "object", "method"}
  BY <1>1, <1>2, <1>3, <1>6, <1>9 DEF FaultsBy, FaultsOf
<1>10. CASE sh.kind \in {"number", "integer", "string", "null", "bool"}
  BY <1>6, <1>10 DEF FaultsBy, FaultsOf
<1>11. sh.kind \in Kinds
  BY ValidatorAssumption DEF IsShape
<1>12. QED
  BY <1>7, <1>8, <1>9, <1>10, <1>11 DEF Kinds

\* h is the faults of the schemas of D, which with a schema has all inside it.
Part(D, h) ==
  /\ D \in SUBSET Schemas /\ h \in [D \X Datas -> SUBSET Path]
  /\ \A s \in D : Kids(s) \subseteq D
  /\ \A s \in D, d \in Datas : h[<<s, d>>] = FaultsBy(h, s, d)

LEMMA PartsAgree ==
  ASSUME SchemasAreTrees, NEW D, NEW g, Part(D, g), NEW E, NEW h, Part(E, h)
  PROVE  \A s \in D \cap E, d \in Datas : g[<<s, d>>] = h[<<s, d>>]
<1> PICK T : T = {s \in D \cap E : \E d \in Datas : g[<<s, d>>] # h[<<s, d>>]}
  OBVIOUS
<1>1. SUFFICES ASSUME T # {} PROVE FALSE
  OBVIOUS
<1>2. T \in SUBSET Schemas
  BY DEF Part
<1>3. PICK s \in T : Kids(s) \cap T = {}
  BY <1>1, <1>2 DEF SchemasAreTrees
<1>4. s \in D /\ s \in E /\ s \in Schemas
  BY <1>2
<1>5. Kids(s) \subseteq D \cap E
  BY <1>4 DEF Part
<1>6. Agree(g, h, s)
  BY <1>3, <1>5 DEF Agree
<1>7. ASSUME NEW d \in Datas PROVE g[<<s, d>>] = h[<<s, d>>]
  <2>1. FaultsBy(g, s, d) = FaultsBy(h, s, d)
    BY <1>4, <1>6, FaultsAgree
  <2>2. g[<<s, d>>] = FaultsBy(g, s, d) /\ h[<<s, d>>] = FaultsBy(h, s, d)
    BY <1>4 DEF Part
  <2>3. QED
    BY <2>1, <2>2
<1>8. QED
  BY <1>7

LEMMA FaultsExist ==
  ASSUME SchemasAreTrees
  PROVE  \E h : Part(Schemas, h)
<1> DEFINE At(x, v) == \E D \in SUBSET Schemas :
                         \E h \in [D \X Datas -> SUBSET Path] :
                           x[1] \in D /\ Part(D, h) /\ v = h[x]
<1> PICK Good : Good = {s \in Schemas : \E D, h : s \in D /\ Part(D, h)}
  OBVIOUS
<1> PICK g : g = [x \in Good \X Datas |-> CHOOSE v \in SUBSET Path : At(x, v)]
  OBVIOUS
<1>1. ASSUME NEW D, NEW h, Part(D, h), NEW s \in D, NEW d \in Datas
      PROVE  s \in Good /\ g[<<s, d>>] = h[<<s, d>>]
  <2> PICK x : x = <<s, d>>
    OBVIOUS
  <2>1. D \in SUBSET Schemas /\ h \in [D \X Datas -> SUBSET Path] /\ s \in Schemas
    BY <1>1 DEF Part
  <2>2. x[1] = s /\ x \in D \X Datas
    OBVIOUS
  <2>3. h[x] \in SUBSET Path
    BY <2>1, <2>2
  <2>4. At(x, h[x])
    BY <1>1, <2>1, <2>2
  <2>5. s \in Good
    BY <1>1, <2>1
  <2>6. g[x] = CHOOSE v \in SUBSET Path : At(x, v)
    BY <2>5
  <2> HIDE DEF At
  <2>7. At(x, g[x])
    BY <2>3, <2>4, <2>6
  <2> USE DEF At
  <2>8. PICK E \in SUBSET Schemas : \E k \in [E \X Datas -> SUBSET Path] :
           s \in E /\ Part(E, k) /\ g[x] = k[x]
    BY <2>2, <2>7
  <2>9. PICK k : s \in E /\ Part(E, k) /\ g[x] = k[x]
    BY <2>8
  <2> HIDE DEF At
  <2>10. k[<<s, d>>] = h[<<s, d>>]
    BY <1>1, <2>9, PartsAgree
  <2>11. QED
    BY <2>5, <2>9, <2>10
<1> HIDE DEF At
<1>2. Good \in SUBSET Schemas /\ DOMAIN g = Good \X Datas
  OBVIOUS
<1>3. ASSUME NEW s \in Good
      PROVE  /\ Kids(s) \subseteq Good
             /\ \A d \in Datas : g[<<s, d>>] \in SUBSET Path /\ g[<<s, d>>] = FaultsBy(g, s, d)
  <2>1. PICK D, h : s \in D /\ Part(D, h)
    OBVIOUS
  <2>2. Kids(s) \subseteq D /\ s \in Schemas
    BY <2>1 DEF Part
  <2>3. Kids(s) \subseteq Good /\ Agree(g, h, s)
    <3>1. ASSUME NEW t \in D PROVE t \in Good /\ \A d \in Datas : g[<<t, d>>] = h[<<t, d>>]
      <4>1. t \in Schemas
        BY <2>1 DEF Part
      <4>2. t \in Good
        BY <2>1, <4>1
      <4>3. \A d \in Datas : g[<<t, d>>] = h[<<t, d>>]
        BY ONLY <1>1, <2>1, t \in D
      <4>4. QED
        BY <4>2, <4>3
    <3>2. QED
      BY <2>2, <3>1 DEF Agree
  <2>4. ASSUME NEW d \in Datas
        PROVE  g[<<s, d>>] \in SUBSET Path /\ g[<<s, d>>] = FaultsBy(g, s, d)
    <3>1. g[<<s, d>>] = h[<<s, d>>]
      BY <1>1, <2>1
    <3>2. h[<<s, d>>] \in SUBSET Path /\ h[<<s, d>>] = FaultsBy(h, s, d)
      BY <2>1 DEF Part
    <3>3. FaultsBy(g, s, d) = FaultsBy(h, s, d)
      BY <2>2, <2>3, FaultsAgree
    <3>4. QED
      BY <3>1, <3>2, <3>3
  <2>5. QED
    BY <2>3, <2>4
<1>4. g \in [Good \X Datas -> SUBSET Path]
  <2>1. ASSUME NEW x \in Good \X Datas PROVE g[x] \in SUBSET Path
    <3>1. PICK s \in Good, d \in Datas : x = <<s, d>>
      OBVIOUS
    <3>2. QED
      BY <1>3, <3>1
  <2>2. QED
    BY <2>1
<1>5. Part(Good, g)
  BY <1>2, <1>3, <1>4 DEF Part
<1>6. Good = Schemas
  <2>1. SUFFICES ASSUME Schemas \ Good # {} PROVE FALSE
    BY <1>2
  <2>2. PICK s \in Schemas \ Good : Kids(s) \cap (Schemas \ Good) = {}
    BY <2>1 DEF SchemasAreTrees
  <2>3. Kids(s) \subseteq Good
    BY <2>2, KidsOf
  <2> PICK D : D = Good \cup {s}
    OBVIOUS
  <2> PICK h : h = [x \in D \X Datas |-> IF x[1] = s THEN FaultsBy(g, s, x[2]) ELSE g[x]]
    OBVIOUS
  <2>4. ASSUME NEW t \in Good, NEW d \in Datas PROVE h[<<t, d>>] = g[<<t, d>>]
    <3>1. t # s /\ <<t, d>> \in D \X Datas /\ <<t, d>>[1] = t
      BY <2>2
    <3>2. QED
      BY <3>1
  <2>5. ASSUME NEW d \in Datas PROVE h[<<s, d>>] = FaultsBy(g, s, d)
    <3>1. <<s, d>> \in D \X Datas /\ <<s, d>>[1] = s /\ <<s, d>>[2] = d
      OBVIOUS
    <3>2. QED
      BY <3>1
  <2>6. ASSUME NEW t \in D
        PROVE  /\ Kids(t) \subseteq Good /\ t \in Schemas
               /\ \A d \in Datas : h[<<t, d>>] \in SUBSET Path /\ h[<<t, d>>] = FaultsBy(h, t, d)
    <3>1. Kids(t) \subseteq Good /\ t \in Schemas
      BY <1>2, <1>3, <2>3
    <3>2. Agree(h, g, t) /\ Places(g, t)
      BY <1>3, <2>4, <3>1 DEF Agree, Places
    <3>3. ASSUME NEW d \in Datas
          PROVE  h[<<t, d>>] \in SUBSET Path /\ h[<<t, d>>] = FaultsBy(h, t, d)
      <4>1. FaultsBy(h, t, d) = FaultsBy(g, t, d)
        BY <3>1, <3>2, FaultsAgree
      <4>2. FaultsBy(g, t, d) \in SUBSET Path
        BY <3>1, <3>2, FaultsPlaces
      <4>3. h[<<t, d>>] = FaultsBy(g, t, d)
        <5>1. CASE t \in Good
          BY <1>3, <2>4, <5>1
        <5>2. CASE t = s
          BY <2>5, <5>2
        <5>3. QED
          BY <5>1, <5>2
      <4>4. QED
        BY <4>1, <4>2, <4>3
    <3>4. QED
      BY <3>1, <3>3
  <2>7. h \in [D \X Datas -> SUBSET Path]
    <3>1. ASSUME NEW x \in D \X Datas PROVE h[x] \in SUBSET Path
      <4>1. PICK t \in D, d \in Datas : x = <<t, d>>
        OBVIOUS
      <4>2. QED
        BY <2>6, <4>1
    <3>2. QED
      BY <3>1
  <2>8. Part(D, h)
    <3>1. D \in SUBSET Schemas /\ Good \in SUBSET D
      BY <1>2
    <3>2. \A t \in D : Kids(t) \subseteq D
      BY <2>6, <3>1
    <3>3. \A t \in D, d \in Datas : h[<<t, d>>] = FaultsBy(h, t, d)
      BY ONLY <2>6
    <3>4. QED
      BY <2>7, <3>1, <3>2, <3>3 DEF Part
  <2>9. s \in Good
    BY <2>8
  <2>10. QED
    BY <2>2, <2>9
<1>7. QED
  BY <1>5, <1>6

\* The reference is defined for every schema and value.
LEMMA FaultsAre ==
  ASSUME SchemasAreTrees
  PROVE  /\ Faults \in [Schemas \X Datas -> SUBSET Path]
         /\ \A s \in Schemas, d \in Datas : Faults[<<s, d>>] = FaultsBy(Faults, s, d)
<1> DEFINE P(h) == h = [x \in Schemas \X Datas |-> FaultsBy(h, x[1], x[2])]
<1>1. PICK h : Part(Schemas, h)
  BY FaultsExist
<1>2. ASSUME NEW x \in Schemas \X Datas PROVE h[x] = FaultsBy(h, x[1], x[2])
  <2>1. x = <<x[1], x[2]>> /\ x[1] \in Schemas /\ x[2] \in Datas
    OBVIOUS
  <2>2. QED
    BY <1>1, <2>1 DEF Part
<1>3. P(h)
  BY <1>1, <1>2 DEF Part
<1>4. Faults = CHOOSE f : P(f)
  BY DEF Faults
<1> HIDE DEF P
<1>5. P(Faults)
  BY <1>3, <1>4
<1> USE DEF P
<1>6. ASSUME NEW s \in Schemas, NEW d \in Datas
      PROVE  Faults[<<s, d>>] = FaultsBy(Faults, s, d)
  <2>1. <<s, d>> \in Schemas \X Datas /\ <<s, d>>[1] = s /\ <<s, d>>[2] = d
    OBVIOUS
  <2>2. QED
    BY ONLY <1>5, <2>1
<1> HIDE DEF P
<1> PICK T : T = {s \in Schemas : \E d \in Datas : Faults[<<s, d>>] \notin SUBSET Path}
  OBVIOUS
<1>7. T = {}
  <2>1. SUFFICES ASSUME T # {} PROVE FALSE
    OBVIOUS
  <2>2. PICK s \in T : Kids(s) \cap T = {}
    BY <2>1 DEF SchemasAreTrees
  <2>3. Places(Faults, s)
    BY <2>2, KidsOf DEF Places
  <2>4. \A d \in Datas : Faults[<<s, d>>] \in SUBSET Path
    BY <1>6, <2>3, FaultsPlaces
  <2>5. QED
    BY <2>4
<1>8. DOMAIN Faults = Schemas \X Datas /\ Faults = [x \in Schemas \X Datas |-> Faults[x]]
  BY <1>5 DEF P
<1>9. ASSUME NEW x \in Schemas \X Datas PROVE Faults[x] \in SUBSET Path
  <2>1. PICK s \in Schemas, d \in Datas : x = <<s, d>>
    OBVIOUS
  <2>2. QED
    BY <1>7, <2>1
<1>10. Faults \in [Schemas \X Datas -> SUBSET Path]
  BY <1>8, <1>9
<1>11. QED
  BY <1>6, <1>10

-----------------------------------------------------------------------------
(* The calls a call makes.                                                 *)

LEMMA CallIs ==
  ASSUME NEW what \in {"scan", "params", "absent", "overlong"}, NEW s \in Schemas,
         NEW path \in Path, NEW d \in Datas
  PROVE  /\ Call(what, s, path, d) \in CallSet
         /\ Call(what, s, path, d).what = what /\ Call(what, s, path, d).schema = s
         /\ Call(what, s, path, d).path = path /\ Call(what, s, path, d).data = d
  BY DEF Call, CallSet

LEMMA ItemCallsAre ==
  ASSUME NEW s \in Schemas, NEW items \in Seq(Datas),
         \A i \in 1 .. Len(items) : Cover(Shape[s], i) # Nothing
  PROVE  /\ ItemCalls(Shape[s], items) \in Seq(CallSet)
         /\ Len(ItemCalls(Shape[s], items)) = Len(items)
         /\ \A i \in 1 .. Len(items) :
              /\ ItemCalls(Shape[s], items)[i] = Scan(Cover(Shape[s], i), Item(i - 1), items[i])
              /\ Cover(Shape[s], i) \in Schemas /\ items[i] \in Datas /\ Item(i - 1) \in Path
<1> PICK sh : sh = Shape[s]
  OBVIOUS
<1> PICK n \in Nat : n = Len(items)
  BY LenProperties
<1> PICK calls : calls = ItemCalls(sh, items)
  OBVIOUS
<1>1. sh.sub \in Seq(Schemas)
  BY ValidatorAssumption DEF IsShape
<1>2. Len(sh.sub) \in Nat
  BY <1>1, LenProperties
<1>3. ASSUME NEW i \in 1 .. n
      PROVE  Cover(sh, i) \in Schemas /\ items[i] \in Datas /\ Item(i - 1) \in Path
  <2>1. items[i] \in Datas
    BY ElementOfSeq
  <2>2. Item(i - 1) \in Path
    <3>1. i - 1 \in Nat
      OBVIOUS
    <3>2. QED
      BY <3>1, PathsOf
  <2>3. CASE i <= Len(sh.sub)
    <3>1. i \in 1 .. Len(sh.sub)
      BY <1>2, <2>3
    <3>2. QED
      BY <2>1, <2>2, <2>3, <3>1, KidsOf DEF Cover
  <2>4. CASE ~(i <= Len(sh.sub))
    BY <2>1, <2>2, <2>4, KidsOf DEF Cover
  <2>5. QED
    BY <2>3, <2>4
<1>4. calls = [i \in 1 .. n |-> Scan(Cover(sh, i), Item(i - 1), items[i])]
  BY DEF ItemCalls, Cover
<1>5. \A i \in 1 .. n : calls[i] = Scan(Cover(sh, i), Item(i - 1), items[i])
  BY <1>4
<1>6. \A i \in 1 .. n : calls[i] \in CallSet
  BY <1>3, <1>5, CallIs DEF Scan
<1>7. calls \in Seq(CallSet) /\ Len(calls) = n
  <2>1. calls \in [1 .. n -> CallSet]
    BY <1>4, <1>6
  <2>2. QED
    BY <2>1
<1>8. QED
  BY <1>3, <1>5, <1>7

LEMMA ChoiceCallsAre ==
  ASSUME NEW s \in Schemas, NEW d \in Datas,
         NEW calls, calls = [i \in DOMAIN Shape[s].sub |-> Scan(Shape[s].sub[i], NoPath, d)]
  PROVE  /\ calls \in Seq(CallSet) /\ Len(calls) = Len(Shape[s].sub)
         /\ \A i \in 1 .. Len(calls) :
              calls[i] = Scan(Shape[s].sub[i], NoPath, d) /\ Shape[s].sub[i] \in Schemas
<1> PICK sub : sub = Shape[s].sub
  OBVIOUS
<1>1. sub \in Seq(Schemas)
  BY ValidatorAssumption DEF IsShape
<1> PICK n \in Nat : n = Len(sub)
  BY <1>1, LenProperties
<1>2. DOMAIN sub = 1 .. n
  BY <1>1, LenProperties
<1>3. ASSUME NEW i \in 1 .. n
      PROVE  calls[i] = Scan(sub[i], NoPath, d) /\ sub[i] \in Schemas /\ calls[i] \in CallSet
  <2>1. sub[i] \in Schemas
    BY <1>1, ElementOfSeq
  <2>2. calls[i] = Scan(sub[i], NoPath, d)
    BY <1>2
  <2>3. QED
    BY <2>1, <2>2, CallIs, PathsOf DEF Scan
<1>4. calls \in [1 .. n -> CallSet]
  BY <1>2, <1>3
<1>5. calls \in Seq(CallSet) /\ Len(calls) = n
  BY <1>4
<1>6. QED
  BY <1>3, <1>5

LEMMA ListCallsAre ==
  ASSUME NEW s \in Schemas, NEW d \in Datas, Shape[s].kind = "list", NEW calls,
         calls = [i \in DOMAIN Value[d].items |-> Scan(Shape[s].sub[1], Item(i - 1), Value[d].items[i])]
  PROVE  /\ calls \in Seq(CallSet) /\ Len(calls) = Len(Value[d].items)
         /\ Shape[s].sub[1] \in Schemas
         /\ \A i \in 1 .. Len(calls) :
              /\ calls[i] = Scan(Shape[s].sub[1], Item(i - 1), Value[d].items[i])
              /\ Value[d].items[i] \in Datas /\ Item(i - 1) \in Path
<1> PICK items : items = Value[d].items
  OBVIOUS
<1> PICK n \in Nat : n = Len(items)
  BY FieldsOf
<1> PICK t : t = Shape[s].sub[1]
  OBVIOUS
<1>1. t \in Schemas
  <2>1. Len(Shape[s].sub) = 1
    BY ValidatorAssumption DEF IsShape
  <2>2. 1 \in 1 .. Len(Shape[s].sub)
    BY <2>1
  <2>3. QED
    BY <2>2, KidsOf
<1>2. DOMAIN items = 1 .. n
  BY FieldsOf
<1>3. ASSUME NEW i \in 1 .. n
      PROVE  /\ calls[i] = Scan(t, Item(i - 1), items[i]) /\ calls[i] \in CallSet
             /\ items[i] \in Datas /\ Item(i - 1) \in Path
  <2>1. items[i] \in Datas /\ i - 1 \in Nat
    BY FieldsOf
  <2>2. calls[i] = Scan(t, Item(i - 1), items[i])
    BY <1>2
  <2>3. Item(i - 1) \in Path
    BY <2>1, PathsOf
  <2>4. QED
    BY <1>1, <2>1, <2>2, <2>3, CallIs DEF Scan
<1>4. calls \in [1 .. n -> CallSet]
  BY <1>2, <1>3
<1>5. calls \in Seq(CallSet) /\ Len(calls) = n
  BY <1>4
<1>6. QED
  BY <1>1, <1>3, <1>5

LEMMA OrderOnto ==
  ASSUME NEW S, IsFiniteSet(S), NEW o \in Orders(S)
  PROVE  /\ Cardinality(S) \in Nat
         /\ o \in [1 .. Cardinality(S) -> S]
         /\ \A p \in S : \E i \in 1 .. Cardinality(S) : o[i] = p
<1> PICK n \in Nat : n = Cardinality(S)
  BY FS_CardinalityType
<1>1. o \in Injection(1 .. n, S)
  BY DEF Orders, Injection
<1>2. Cardinality(1 .. n) = n
  <2> PICK one \in Int : one = 1
    OBVIOUS
  <2>1. Cardinality(one .. n) = IF one > n THEN 0 ELSE n - one + 1
    BY ONLY FS_Interval, one \in Int, n \in Nat
  <2>2. QED
    BY <2>1
<1>3. o \in Surjection(1 .. n, S)
  BY <1>1, <1>2, FS_Injection
<1>4. QED
  BY <1>3 DEF Surjection

LEMMA PropCallIs ==
  ASSUME NEW s \in Schemas, NEW d \in Datas, NEW p \in Known(s, d) \cup Other(s, d)
  PROVE  /\ PropCall(s, d, p) \in CallSet /\ Field(p) \in Path
         /\ p \notin DOMAIN Value[d].fields => PropCall(s, d, p) = Call("absent", s, Field(p), d)
         /\ p \in DOMAIN Value[d].fields /\ p \in DOMAIN Shape[s].props =>
              /\ PropCall(s, d, p) = Scan(Shape[s].props[p], Field(p), Value[d].fields[p])
              /\ Shape[s].props[p] \in Schemas /\ Value[d].fields[p] \in Datas
         /\ p \notin DOMAIN Shape[s].props =>
              /\ p \in DOMAIN Value[d].fields
              /\ PropCall(s, d, p) = Scan(Shape[s].extra, Field(p), Value[d].fields[p])
              /\ Shape[s].extra \in Schemas /\ Value[d].fields[p] \in Datas
<1>1. IsShape(Shape[s])
  BY ValidatorAssumption
<1>2. p \in Props
  BY <1>1, FieldsOf DEF Known, Other, IsShape
<1>3. Field(p) \in Path
  BY <1>2, PathsOf
<1>4. CASE p \notin DOMAIN Value[d].fields
  <2>1. PropCall(s, d, p) = Call("absent", s, Field(p), d)
    BY <1>4 DEF PropCall
  <2>2. Call("absent", s, Field(p), d) \in CallSet
    BY <1>3, CallIs
  <2>3. p \in DOMAIN Shape[s].props
    BY <1>4 DEF Known, Other
  <2>4. QED
    BY <1>3, <1>4, <2>1, <2>2, <2>3
<1>5. CASE p \in DOMAIN Value[d].fields /\ p \in DOMAIN Shape[s].props
  <2>1. PropCall(s, d, p) = Scan(Shape[s].props[p], Field(p), Value[d].fields[p])
    BY <1>5 DEF PropCall
  <2>2. Shape[s].props[p] \in Schemas /\ Value[d].fields[p] \in Datas
    BY <1>5, KidsOf, FieldsOf
  <2>3. QED
    BY <1>3, <1>5, <2>1, <2>2, CallIs DEF Scan
<1>6. CASE p \in DOMAIN Value[d].fields /\ p \notin DOMAIN Shape[s].props
  <2>1. PropCall(s, d, p) = Scan(Shape[s].extra, Field(p), Value[d].fields[p])
    BY <1>6 DEF PropCall
  <2>2. Shape[s].extra # Nothing
    BY <1>6 DEF Known, Other
  <2>3. Shape[s].extra \in Schemas /\ Value[d].fields[p] \in Datas
    BY <1>6, <2>2, KidsOf, FieldsOf
  <2>4. QED
    BY <1>3, <1>6, <2>1, <2>3, CallIs DEF Scan
<1>7. QED
  BY <1>4, <1>5, <1>6

LEMMA OrderedCallsAre ==
  ASSUME NEW s \in Schemas, NEW d \in Datas, NEW S \in SUBSET (Known(s, d) \cup Other(s, d)),
         IsFiniteSet(S), NEW o \in Orders(S),
         NEW calls, calls = PropCalls(s, d, o)
  PROVE  /\ calls \in Seq(CallSet)
         /\ \A i \in 1 .. Len(calls) : \E p \in S : calls[i] = PropCall(s, d, p)
         /\ \A p \in S : \E i \in 1 .. Len(calls) : calls[i] = PropCall(s, d, p)
<1> PICK n \in Nat : n = Cardinality(S)
  BY OrderOnto
<1>1. o \in [1 .. n -> S] /\ \A p \in S : \E i \in 1 .. n : o[i] = p
  BY OrderOnto
<1>2. ASSUME NEW i \in 1 .. n
      PROVE  o[i] \in S /\ calls[i] = PropCall(s, d, o[i]) /\ calls[i] \in CallSet
  BY <1>1, PropCallIs DEF PropCalls
<1>3. calls \in [1 .. n -> CallSet]
  BY <1>1, <1>2 DEF PropCalls
<1>4. calls \in Seq(CallSet) /\ Len(calls) = n
  BY <1>3
<1>5. QED
  BY <1>1, <1>2, <1>4

\* One call for each property, and no other.
ForEach(props, s, d, calls) ==
  /\ calls \in Seq(CallSet)
  /\ \A i \in 1 .. Len(calls) : \E p \in props : calls[i] = PropCall(s, d, p)
  /\ \A p \in props : \E i \in 1 .. Len(calls) : calls[i] = PropCall(s, d, p)

LEMMA ObjectCallsAre ==
  ASSUME NEW s \in Schemas, NEW d \in Datas,
         NEW o1 \in Orders(Known(s, d)), NEW o2 \in Orders(Other(s, d))
  PROVE  ForEach(Known(s, d) \cup Other(s, d), s, d, PropCalls(s, d, o1) \o PropCalls(s, d, o2))
<1> PICK calls : calls = PropCalls(s, d, o1) \o PropCalls(s, d, o2)
  OBVIOUS
<1> PICK c1 : c1 = PropCalls(s, d, o1)
  OBVIOUS
<1> PICK c2 : c2 = PropCalls(s, d, o2)
  OBVIOUS
<1>1. IsFiniteSet(Known(s, d)) /\ IsFiniteSet(Other(s, d))
  <2>1. IsFiniteSet(DOMAIN Shape[s].props) /\ IsFiniteSet(DOMAIN Value[d].fields)
    BY ValidatorAssumption DEF IsShape, IsValue
  <2>2. Known(s, d) \in SUBSET DOMAIN Shape[s].props /\ Other(s, d) \in SUBSET DOMAIN Value[d].fields
    BY DEF Known, Other
  <2>3. QED
    BY <2>1, <2>2, FS_Subset
<1>2. /\ c1 \in Seq(CallSet)
      /\ \A i \in 1 .. Len(c1) : \E p \in Known(s, d) : c1[i] = PropCall(s, d, p)
      /\ \A p \in Known(s, d) : \E i \in 1 .. Len(c1) : c1[i] = PropCall(s, d, p)
  <2> PICK S : S = Known(s, d)
    OBVIOUS
  <2>1. S \in SUBSET (Known(s, d) \cup Other(s, d)) /\ IsFiniteSet(S) /\ o1 \in Orders(S)
    BY <1>1
  <2>2. /\ c1 \in Seq(CallSet)
        /\ \A i \in 1 .. Len(c1) : \E p \in S : c1[i] = PropCall(s, d, p)
        /\ \A p \in S : \E i \in 1 .. Len(c1) : c1[i] = PropCall(s, d, p)
    BY ONLY <2>1, OrderedCallsAre, s \in Schemas, d \in Datas, c1 = PropCalls(s, d, o1)
  <2>3. QED
    BY <2>2
<1>3. /\ c2 \in Seq(CallSet)
      /\ \A i \in 1 .. Len(c2) : \E p \in Other(s, d) : c2[i] = PropCall(s, d, p)
      /\ \A p \in Other(s, d) : \E i \in 1 .. Len(c2) : c2[i] = PropCall(s, d, p)
  <2> PICK S : S = Other(s, d)
    OBVIOUS
  <2>1. S \in SUBSET (Known(s, d) \cup Other(s, d)) /\ IsFiniteSet(S) /\ o2 \in Orders(S)
    BY <1>1
  <2>2. /\ c2 \in Seq(CallSet)
        /\ \A i \in 1 .. Len(c2) : \E p \in S : c2[i] = PropCall(s, d, p)
        /\ \A p \in S : \E i \in 1 .. Len(c2) : c2[i] = PropCall(s, d, p)
    BY ONLY <2>1, OrderedCallsAre, s \in Schemas, d \in Datas, c2 = PropCalls(s, d, o2)
  <2>3. QED
    BY <2>2
<1>4. calls = c1 \o c2
  OBVIOUS
<1> PICK m \in Nat : m = Len(c1)
  BY <1>2, LenProperties
<1> PICK n \in Nat : n = Len(c2)
  BY <1>3, LenProperties
<1>5. calls \in Seq(CallSet) /\ Len(calls) = m + n
      /\ \A i \in 1 .. m + n : calls[i] = IF i <= m THEN c1[i] ELSE c2[i - m]
  BY <1>2, <1>3, <1>4, ConcatProperties
<1>6. ASSUME NEW i \in 1 .. m + n
      PROVE  \E p \in Known(s, d) \cup Other(s, d) : calls[i] = PropCall(s, d, p)
  <2>1. CASE i <= m
    <3>1. i \in 1 .. m /\ calls[i] = c1[i]
      BY <1>5, <2>1
    <3>2. QED
      BY <1>2, <3>1
  <2>2. CASE ~(i <= m)
    <3> PICK j : j = i - m
      OBVIOUS
    <3>1. j \in 1 .. n /\ calls[i] = c2[j]
      BY <1>5, <2>2
    <3>2. PICK p \in Other(s, d) : c2[j] = PropCall(s, d, p)
      BY <1>3, <3>1
    <3>3. QED
      BY <3>1, <3>2
  <2>3. QED
    BY <2>1, <2>2
<1>7. ASSUME NEW p \in Known(s, d)
      PROVE  \E i \in 1 .. m + n : calls[i] = PropCall(s, d, p)
  <2>1. PICK i \in 1 .. m : c1[i] = PropCall(s, d, p)
    BY <1>2
  <2>2. i \in 1 .. m + n /\ calls[i] = c1[i]
    BY <1>5
  <2>3. QED
    BY <2>1, <2>2
<1>8. ASSUME NEW p \in Other(s, d)
      PROVE  \E i \in 1 .. m + n : calls[i] = PropCall(s, d, p)
  <2>1. PICK i \in 1 .. n : c2[i] = PropCall(s, d, p)
    BY <1>3
  <2>2. i + m \in 1 .. m + n /\ ~(i + m <= m) /\ (i + m) - m = i
    OBVIOUS
  <2>3. calls[i + m] = c2[i]
    BY <1>5, <2>2
  <2>4. QED
    BY <2>1, <2>2, <2>3
<1>9. QED
  BY <1>5, <1>6, <1>7, <1>8 DEF ForEach

\* What Calls has for each kind of call.
LEMMA ScanCalls ==
  ASSUME NEW c \in CallSet, c.what = "scan", NEW calls \in Calls(c),
         NEW s, s = c.schema, NEW d, d = c.data
  PROVE  /\ Shape[s].kind \in {"anyOf", "allOf", "not"} =>
              calls = [i \in DOMAIN Shape[s].sub |-> Scan(Shape[s].sub[i], NoPath, d)]
         /\ Shape[s].kind = "list" =>
              calls = [i \in DOMAIN Value[d].items |->
                         Scan(Shape[s].sub[1], Item(i - 1), Value[d].items[i])]
         /\ Shape[s].kind = "tuple" => calls = ItemCalls(Shape[s], Value[d].items)
         /\ Shape[s].kind = "method" =>
              calls = IF IsList(ParamsOf(d))
                      THEN <<Call("params", s, Field("params"), ParamsOf(d))>>
                      ELSE IF Shape[s].returns = Nothing THEN <<>>
                      ELSE <<Scan(Shape[s].returns, Field("result"), Value[d].fields["result"])>>
         /\ Shape[s].kind = "object" =>
              \E o1 \in Orders(Known(s, d)), o2 \in Orders(Other(s, d)) :
                calls = PropCalls(s, d, o1)
                          \o PropCalls(s, d, o2)
         /\ Shape[s].kind \in {"any", "null", "bool", "number", "integer", "string"} =>
              calls = <<>>
<1>1. KindOf(c) = Shape[s].kind
  BY DEF KindOf
<1>2. Shape[s].kind \in {"anyOf", "allOf", "not"} =>
        calls = [i \in DOMAIN Shape[s].sub |-> Scan(Shape[s].sub[i], NoPath, d)]
  <2>1. ASSUME Shape[s].kind \in {"anyOf", "allOf", "not"}
        PROVE  Calls(c) = {[i \in DOMAIN Shape[s].sub |-> Scan(Shape[s].sub[i], NoPath, d)]}
    <3>1. CASE Shape[s].kind = "anyOf"
      BY ONLY <1>1, <3>1, s = c.schema, d = c.data DEF Calls
    <3>2. CASE Shape[s].kind = "allOf"
      BY ONLY <1>1, <3>2, s = c.schema, d = c.data DEF Calls
    <3>3. CASE Shape[s].kind = "not"
      BY ONLY <1>1, <3>3, s = c.schema, d = c.data DEF Calls
    <3>4. QED
      BY ONLY <2>1, <3>1, <3>2, <3>3
  <2>2. QED
    BY ONLY <2>1, calls \in Calls(c)
<1>3. Shape[s].kind = "list" =>
        calls = [i \in DOMAIN Value[d].items |->
                   Scan(Shape[s].sub[1], Item(i - 1), Value[d].items[i])]
  BY ONLY <1>1, calls \in Calls(c), s = c.schema, d = c.data DEF Calls
<1>4. Shape[s].kind = "tuple" => calls = ItemCalls(Shape[s], Value[d].items)
  BY ONLY <1>1, calls \in Calls(c), s = c.schema, d = c.data DEF Calls
<1>5. Shape[s].kind = "method" =>
        calls = IF IsList(ParamsOf(d))
                THEN <<Call("params", s, Field("params"), ParamsOf(d))>>
                ELSE IF Shape[s].returns = Nothing THEN <<>>
                ELSE <<Scan(Shape[s].returns, Field("result"), Value[d].fields["result"])>>
  BY ONLY <1>1, calls \in Calls(c), s = c.schema, d = c.data DEF Calls
<1>6. Shape[s].kind = "object" =>
        \E o1 \in Orders(Known(s, d)), o2 \in Orders(Other(s, d)) :
          calls = PropCalls(s, d, o1) \o PropCalls(s, d, o2)
  BY ONLY <1>1, calls \in Calls(c), s = c.schema, d = c.data DEF Calls
<1>7. Shape[s].kind \in {"any", "null", "bool", "number", "integer", "string"} =>
        calls = <<>>
  <2>1. ASSUME Shape[s].kind \in {"any", "null", "bool", "number", "integer", "string"}
        PROVE  Calls(c) = {<<>>}
    <3>1. KindOf(c) \notin {"params", "anyOf", "allOf", "not", "list", "tuple", "method", "object"}
      BY ONLY <1>1, <2>1
    <3>2. QED
      BY ONLY <3>1 DEF Calls
  <2>2. QED
    BY ONLY <2>1, calls \in Calls(c)
<1>8. QED
  BY ONLY <1>2, <1>3, <1>4, <1>5, <1>6, <1>7

-----------------------------------------------------------------------------
(* What the calls find, together.                                          *)

LEMMA ScanUnder ==
  ASSUME NEW s \in Schemas, NEW path \in Path, NEW d \in Datas
  PROVE  /\ Scan(s, path, d) \in CallSet
         /\ Wrong(Scan(s, path, d)) = Faults[<<s, d>>]
         /\ Under(Scan(s, path, d)) = Below(path, Faults[<<s, d>>])
<1> PICK c : c = Scan(s, path, d)
  OBVIOUS
<1>1. c \in CallSet /\ c.what = "scan" /\ c.schema = s /\ c.path = path /\ c.data = d
  BY CallIs DEF Scan
<1>2. Wrong(c) = Faults[<<s, d>>]
  BY <1>1 DEF Wrong
<1>3. QED
  BY <1>1, <1>2 DEF Under

LEMMA FaultUnder ==
  ASSUME NEW what \in {"absent", "overlong"}, NEW s \in Schemas, NEW path \in Path, NEW d \in Datas
  PROVE  Under(Call(what, s, path, d)) = {path}
<1> PICK c : c = Call(what, s, path, d)
  OBVIOUS
<1>1. c.what = what /\ c.path = path
  BY CallIs
<1>2. Wrong(c) = {<<>>}
  BY <1>1 DEF Wrong
<1>3. Below(path, {<<>>}) = {path \o <<>>}
  BY DEF Below
<1>4. path \o <<>> = path
  BY ConcatEmptySeq DEF Path
<1>5. QED
  BY <1>1, <1>2, <1>3, <1>4 DEF Under

LEMMA BelowNoPath ==
  ASSUME NEW places \in SUBSET Path
  PROVE  Below(NoPath, places) = places
<1>1. ASSUME NEW p \in places PROVE <<>> \o p = p
  BY ConcatEmptySeq DEF Path
<1>2. QED
  BY <1>1 DEF Below, NoPath

LEMMA AllUnderNone == AllUnder(<<>>) = {}
  BY DEF AllUnder

LEMMA AllUnderOne ==
  ASSUME NEW c \in CallSet
  PROVE  AllUnder(<<c>>) = Under(c)
<1>1. AllUnder(<<c>>) = UNION {Under(<<c>>[i]) : i \in {1}}
  BY DEF AllUnder
<1>2. {Under(<<c>>[i]) : i \in {1}} = {Under(c)}
  OBVIOUS
<1>3. QED
  BY <1>1, <1>2

LEMMA AllUnderConcat ==
  ASSUME NEW a \in Seq(CallSet), NEW b \in Seq(CallSet)
  PROVE  AllUnder(a \o b) = AllUnder(a) \cup AllUnder(b)
<1> PICK c : c = a \o b
  OBVIOUS
<1> PICK m \in Nat : m = Len(a)
  BY LenProperties
<1> PICK n \in Nat : n = Len(b)
  BY LenProperties
<1>1. Len(c) = m + n /\ \A i \in 1 .. m + n : c[i] = IF i <= m THEN a[i] ELSE b[i - m]
  BY ConcatProperties
<1>2. ASSUME NEW x \in AllUnder(c) PROVE x \in AllUnder(a) \cup AllUnder(b)
  <2>1. PICK i \in 1 .. m + n : x \in Under(c[i])
    BY <1>1 DEF AllUnder
  <2>2. CASE i <= m
    <3>1. i \in 1 .. m /\ c[i] = a[i]
      BY <1>1, <2>2
    <3>2. QED
      BY <2>1, <3>1 DEF AllUnder
  <2>3. CASE ~(i <= m)
    <3> PICK j : j = i - m
      OBVIOUS
    <3>1. j \in 1 .. n /\ c[i] = b[j]
      BY <1>1, <2>3
    <3>2. QED
      BY <2>1, <3>1 DEF AllUnder
  <2>4. QED
    BY <2>2, <2>3
<1>3. ASSUME NEW x \in AllUnder(a) PROVE x \in AllUnder(c)
  <2>1. PICK i \in 1 .. m : x \in Under(a[i])
    BY DEF AllUnder
  <2>2. i \in 1 .. m + n /\ c[i] = a[i]
    BY <1>1
  <2>3. QED
    BY <1>1, <2>1, <2>2 DEF AllUnder
<1>4. ASSUME NEW x \in AllUnder(b) PROVE x \in AllUnder(c)
  <2>1. PICK j \in 1 .. n : x \in Under(b[j])
    BY DEF AllUnder
  <2> PICK i : i = j + m
    OBVIOUS
  <2>2. i \in 1 .. m + n /\ ~(i <= m) /\ i - m = j
    OBVIOUS
  <2>3. c[i] = b[j]
    BY <1>1, <2>2
  <2>4. QED
    BY <1>1, <2>1, <2>2, <2>3 DEF AllUnder
<1>5. QED
  BY <1>2, <1>3, <1>4

LEMMA CoverIs ==
  ASSUME NEW s \in Schemas, NEW n \in Nat,
         ~(n > Len(Shape[s].sub) /\ Shape[s].extra = Nothing)
  PROVE  \A i \in 1 .. n : Cover(Shape[s], i) # Nothing
<1>1. Shape[s].sub \in Seq(Schemas)
  BY ValidatorAssumption DEF IsShape
<1> PICK m \in Nat : m = Len(Shape[s].sub)
  BY <1>1, LenProperties
<1>2. ASSUME NEW i \in 1 .. n PROVE Cover(Shape[s], i) # Nothing
  <2>1. CASE i <= m
    <3>1. i \in 1 .. m
      BY <2>1
    <3>2. Shape[s].sub[i] \in Schemas
      BY <1>1, <3>1, ElementOfSeq
    <3>3. QED
      BY <2>1, <3>2, ValidatorAssumption DEF Cover
  <2>2. CASE ~(i <= m)
    BY <2>2 DEF Cover
  <2>3. QED
    BY <2>1, <2>2
<1>3. QED
  BY <1>2

\* The faults of the first n items.
Among(s, items, n) ==
  UNION {Below(Item(i - 1), Faults[<<Cover(Shape[s], i), items[i]>>]) : i \in 1 .. n}

LEMMA ItemsUnder ==
  ASSUME NEW s \in Schemas, NEW items \in Seq(Datas),
         \A i \in 1 .. Len(items) : Cover(Shape[s], i) # Nothing
  PROVE  AllUnder(ItemCalls(Shape[s], items)) = Among(s, items, Len(items))
<1> PICK calls : calls = ItemCalls(Shape[s], items)
  OBVIOUS
<1> PICK n : n = Len(items)
  OBVIOUS
<1>1. /\ Len(calls) = n
      /\ \A i \in 1 .. n :
           /\ calls[i] = Scan(Cover(Shape[s], i), Item(i - 1), items[i])
           /\ Cover(Shape[s], i) \in Schemas /\ items[i] \in Datas /\ Item(i - 1) \in Path
  BY ItemCallsAre
<1>2. \A i \in 1 .. n :
        Under(calls[i]) = Below(Item(i - 1), Faults[<<Cover(Shape[s], i), items[i]>>])
  BY <1>1, ScanUnder
<1>3. QED
  BY <1>1, <1>2 DEF AllUnder, Among

LEMMA ItemFaultsAre ==
  ASSUME NEW s \in Schemas, NEW items \in Seq(Datas), Len(items) >= Len(Shape[s].sub)
  PROVE  FaultsOfItems(Faults, Shape[s], items) =
           IF Len(items) > Len(Shape[s].sub) /\ Shape[s].extra = Nothing
           THEN {<<>>} \cup Among(s, items, Len(Shape[s].sub))
           ELSE Among(s, items, Len(items))
<1> PICK sh : sh = Shape[s]
  OBVIOUS
<1>1. Shape[s].sub \in Seq(Schemas)
  BY ValidatorAssumption DEF IsShape
<1> PICK m \in Nat : m = Len(sh.sub)
  BY <1>1, LenProperties
<1> PICK n \in Nat : n = Len(items)
  BY LenProperties
<1> PICK I : I = {j \in 1 .. n : Cover(sh, j) # Nothing}
  OBVIOUS
<1>2. FaultsOfItems(Faults, sh, items) =
        Here(n < m \/ (n > m /\ sh.extra = Nothing))
        \cup UNION {Below(Item(i - 1), Faults[<<Cover(sh, i), items[i]>>]) : i \in I}
  BY DEF FaultsOfItems
<1>3. n >= m
  OBVIOUS
<1>4. CASE n > m /\ sh.extra = Nothing
  <2>1. \A i \in 1 .. m : Cover(sh, i) # Nothing
    BY CoverIs
  <2>2. \A i \in 1 .. n : i > m => Cover(sh, i) = Nothing
    BY <1>4 DEF Cover
  <2>3. I = 1 .. m
    BY <1>4, <2>1, <2>2
  <2>4. Here(n < m \/ (n > m /\ sh.extra = Nothing)) = {<<>>}
    BY <1>4 DEF Here
  <2>5. QED
    BY <1>2, <1>4, <2>3, <2>4 DEF Among
<1>5. CASE ~(n > m /\ sh.extra = Nothing)
  <2>1. I = 1 .. n
    BY <1>5, CoverIs
  <2>2. Here(n < m \/ (n > m /\ sh.extra = Nothing)) = {}
    BY <1>3, <1>5 DEF Here
  <2>3. QED
    BY <1>2, <1>5, <2>1, <2>2 DEF Among
<1>6. QED
  BY <1>4, <1>5

\* A call that does not fail makes such calls that what they find is what is wrong.
Proper(c, calls) ==
  calls \in Seq(CallSet) /\ (SchemasAreTrees => Decide(c, calls))

LEMMA ScanWrong ==
  ASSUME SchemasAreTrees, NEW c \in CallSet, c.what = "scan"
  PROVE  Wrong(c) = FaultsBy(Faults, c.schema, c.data) /\ KindOf(c) = Shape[c.schema].kind
<1>1. c.schema \in Schemas /\ c.data \in Datas
  BY DEF CallSet
<1>2. QED
  BY <1>1, FaultsAre DEF Wrong, KindOf

LEMMA InAllUnder ==
  ASSUME NEW calls, NEW x
  PROVE  x \in AllUnder(calls) <=> \E i \in 1 .. Len(calls) : x \in Under(calls[i])
BY DEF AllUnder

LEMMA ChoicesProper ==
  ASSUME NEW c \in CallSet, c.what = "scan", NEW calls \in Calls(c),
         Shape[c.schema].kind \in {"anyOf", "allOf", "not"}
  PROVE  Proper(c, calls)
<1> PICK s \in Schemas, d \in Datas : s = c.schema /\ d = c.data
  BY DEF CallSet
<1> PICK sub : sub = Shape[s].sub
  OBVIOUS
<1>1. calls = [i \in DOMAIN sub |-> Scan(sub[i], NoPath, d)]
  BY ScanCalls
<1>2. /\ calls \in Seq(CallSet) /\ Len(calls) = Len(sub)
      /\ \A i \in 1 .. Len(calls) : calls[i] = Scan(sub[i], NoPath, d) /\ sub[i] \in Schemas
  BY ONLY <1>1, ChoiceCallsAre, sub = Shape[s].sub, s \in Schemas, d \in Datas
<1>3. \A i \in 1 .. Len(calls) :
        Wrong(calls[i]) = Faults[<<sub[i], d>>] /\ Under(calls[i]) = Below(NoPath, Faults[<<sub[i], d>>])
  BY <1>2, ScanUnder, PathsOf
<1>4. sub \in Seq(Schemas)
  BY ValidatorAssumption DEF IsShape
<1>5. DOMAIN sub = 1 .. Len(sub)
  BY <1>4, LenProperties
<1>6. SUFFICES ASSUME SchemasAreTrees PROVE Decide(c, calls)
  BY <1>2 DEF Proper
<1>7. Wrong(c) = FaultsBy(Faults, s, d) /\ KindOf(c) = Shape[s].kind
  BY <1>6, ScanWrong
<1>8. CASE Shape[s].kind = "anyOf"
  <2>1. Wrong(c) = Here(\A i \in DOMAIN sub : Faults[<<sub[i], d>>] # {})
    BY <1>7, <1>8 DEF FaultsBy, FaultsOf
  <2>2. \A i \in 1 .. Len(calls) : Wrong(calls[i]) = Faults[<<sub[i], d>>]
    BY ONLY <1>3
  <2> PICK n : n = Len(calls)
    OBVIOUS
  <2> PICK F : F = [i \in 1 .. n |-> Faults[<<sub[i], d>>]]
    OBVIOUS
  <2> PICK W : W = [i \in 1 .. n |-> Wrong(calls[i])]
    OBVIOUS
  <2>3. W = F
    BY <2>2
  <2>4. (\A i \in DOMAIN sub : Faults[<<sub[i], d>>] # {}) <=> \A i \in 1 .. n : F[i] # {}
    BY <1>2, <1>5
  <2>5. (\A i \in 1 .. Len(calls) : Wrong(calls[i]) # {}) <=> \A i \in 1 .. n : W[i] # {}
    OBVIOUS
  <2>6. Wrong(c) = Here(\A i \in 1 .. Len(calls) : Wrong(calls[i]) # {})
    BY ONLY <2>1, <2>3, <2>4, <2>5 DEF Here
  <2>7. QED
    BY <1>7, <1>8, <2>6 DEF Decide
<1>9. CASE Shape[s].kind = "not"
  <2>1. Wrong(c) = Here(Faults[<<sub[1], d>>] = {})
    BY <1>7, <1>9 DEF FaultsBy, FaultsOf
  <2>2. Len(sub) = 1
    BY <1>9, ValidatorAssumption DEF IsShape
  <2>3. 1 \in 1 .. Len(calls)
    BY <1>2, <2>2
  <2>4. Wrong(calls[1]) = Faults[<<sub[1], d>>]
    BY <1>3, <2>3
  <2>5. Len(calls) = 1 /\ Wrong(c) = Here(Wrong(calls[1]) = {})
    BY <1>2, <2>1, <2>2, <2>4
  <2>6. QED
    BY <1>7, <1>9, <2>5 DEF Decide
<1>10. CASE Shape[s].kind = "allOf"
  <2>1. Wrong(c) = UNION {Faults[<<sub[i], d>>] : i \in DOMAIN sub}
    BY <1>7, <1>10 DEF FaultsBy, FaultsOf
  <2>2. \A i \in 1 .. Len(calls) : Under(calls[i]) = Faults[<<sub[i], d>>]
    <3>1. \A i \in 1 .. Len(calls) : Faults[<<sub[i], d>>] \in SUBSET Path
      BY <1>2, <1>6, FaultsAre
    <3>2. QED
      BY <1>3, <3>1, BelowNoPath
  <2>3. ASSUME NEW x
        PROVE  x \in AllUnder(calls) <=> \E i \in 1 .. Len(calls) : x \in Faults[<<sub[i], d>>]
    BY ONLY <2>2, InAllUnder
  <2>4. ASSUME NEW x
        PROVE  x \in Wrong(c) <=> \E i \in 1 .. Len(calls) : x \in Faults[<<sub[i], d>>]
    <3>1. DOMAIN sub = 1 .. Len(calls)
      BY ONLY <1>2, <1>5
    <3>2. QED
      BY ONLY <2>1, <3>1
  <2>5. Wrong(c) = AllUnder(calls)
    BY ONLY <2>3, <2>4
  <2>6. QED
    BY <1>7, <1>10, <2>5 DEF Decide
<1>11. QED
  BY <1>8, <1>9, <1>10

LEMMA ItemsProper ==
  ASSUME NEW c \in CallSet, c.what = "scan", ~Refuses(c), NEW calls \in Calls(c),
         Shape[c.schema].kind \in {"list", "tuple"}
  PROVE  Proper(c, calls)
<1> PICK s \in Schemas, d \in Datas : s = c.schema /\ d = c.data
  BY DEF CallSet
<1> PICK sh : sh = Shape[s]
  OBVIOUS
<1> PICK items \in Seq(Datas) : items = Value[d].items
  BY FieldsOf
<1> PICK n \in Nat : n = Len(items)
  BY LenProperties
<1>1. DOMAIN items = 1 .. n
  BY LenProperties
<1>2. CASE sh.kind = "list"
  <2>1. calls = [i \in DOMAIN items |-> Scan(sh.sub[1], Item(i - 1), items[i])]
    BY <1>2, ScanCalls
  <2>2. /\ calls \in Seq(CallSet) /\ Len(calls) = n /\ sh.sub[1] \in Schemas
        /\ \A i \in 1 .. n : /\ calls[i] = Scan(sh.sub[1], Item(i - 1), items[i])
                             /\ items[i] \in Datas /\ Item(i - 1) \in Path
    <3>1. calls = [i \in DOMAIN Value[d].items |->
                     Scan(Shape[s].sub[1], Item(i - 1), Value[d].items[i])]
      BY <2>1
    <3>2. /\ calls \in Seq(CallSet) /\ Len(calls) = Len(Value[d].items)
          /\ Shape[s].sub[1] \in Schemas
          /\ \A i \in 1 .. Len(calls) :
               /\ calls[i] = Scan(Shape[s].sub[1], Item(i - 1), Value[d].items[i])
               /\ Value[d].items[i] \in Datas /\ Item(i - 1) \in Path
      BY ONLY <1>2, <3>1, ListCallsAre, sh = Shape[s], s \in Schemas, d \in Datas
    <3>3. QED
      BY <3>2
  <2>3. \A i \in 1 .. n : Under(calls[i]) = Below(Item(i - 1), Faults[<<sh.sub[1], items[i]>>])
    BY <2>2, ScanUnder
  <2>4. SUFFICES ASSUME SchemasAreTrees PROVE Decide(c, calls)
    BY <2>2 DEF Proper
  <2>5. Wrong(c) = FaultsBy(Faults, s, d) /\ KindOf(c) = "list"
    BY <1>2, <2>4, ScanWrong
  <2>6. Value[d].kind = "list" /\ ~WrongLength(sh, n)
    BY <1>2 DEF Refuses
  <2>7. Here(Outside(sh, n)) = {}
    <3>1. TRUE \notin {sh.exmin, sh.exmax} /\ sh.min \in Int \cup {Nothing} /\ sh.max \in Int \cup {Nothing}
      BY <1>2, ValidatorAssumption DEF IsShape, Bound
    <3>2. ~Outside(sh, n)
      BY <2>6, <3>1 DEF Outside, WrongLength
    <3>3. QED
      BY <3>2 DEF Here
  <2>8. Wrong(c) = Here(Outside(sh, n))
                   \cup UNION {Below(Item(i - 1), Faults[<<sh.sub[1], items[i]>>]) : i \in DOMAIN items}
    <3>1. FaultsBy(Faults, s, d) = FaultsOf(Faults, sh, d)
      BY ONLY sh = Shape[s] DEF FaultsBy
    <3>2. FaultsOf(Faults, sh, d) =
            Here(Outside(sh, n))
              \cup UNION {Below(Item(i - 1), Faults[<<sh.sub[1], items[i]>>]) : i \in DOMAIN items}
      BY ONLY <1>2, <2>6, n = Len(items), items = Value[d].items DEF FaultsOf
    <3>3. QED
      BY ONLY <2>5, <3>1, <3>2
  <2>9. ASSUME NEW x
        PROVE  x \in AllUnder(calls) <=>
                 \E i \in 1 .. n : x \in Below(Item(i - 1), Faults[<<sh.sub[1], items[i]>>])
    <3>1. x \in AllUnder(calls) <=> \E i \in 1 .. Len(calls) : x \in Under(calls[i])
      BY InAllUnder
    <3>2. Len(calls) = n
      BY ONLY <2>2
    <3>3. QED
      BY ONLY <2>3, <3>1, <3>2
  <2>10. Wrong(c) = AllUnder(calls)
    BY ONLY <1>1, <2>7, <2>8, <2>9
  <2>11. QED
    BY <2>5, <2>10 DEF Decide
<1>3. CASE sh.kind = "tuple"
  <2>1. calls = ItemCalls(sh, items)
    BY <1>3, ScanCalls
  <2>2. Value[d].kind = "list" /\ ~Uncovered(sh, n)
    BY <1>3 DEF Refuses
  <2>3. n >= Len(sh.sub) /\ ~(n > Len(sh.sub) /\ sh.extra = Nothing)
    <3>1. sh.sub \in Seq(Schemas)
      BY ValidatorAssumption DEF IsShape
    <3>2. Len(sh.sub) \in Nat
      BY <3>1, LenProperties
    <3>3. QED
      BY <2>2, <3>2 DEF Uncovered
  <2>4. \A i \in 1 .. n : Cover(sh, i) # Nothing
    BY <2>3, CoverIs
  <2>5. calls \in Seq(CallSet) /\ AllUnder(calls) = Among(s, items, n)
    BY <2>1, <2>4, ItemCallsAre, ItemsUnder
  <2>6. SUFFICES ASSUME SchemasAreTrees PROVE Decide(c, calls)
    BY <2>5 DEF Proper
  <2>7. Wrong(c) = FaultsBy(Faults, s, d) /\ KindOf(c) = "tuple"
    BY <1>3, <2>6, ScanWrong
  <2>8. Wrong(c) = FaultsOfItems(Faults, sh, items)
    BY <1>3, <2>2, <2>7 DEF FaultsBy, FaultsOf
  <2>9. FaultsOfItems(Faults, sh, items) = Among(s, items, n)
    BY <2>3, ItemFaultsAre
  <2>10. QED
    BY <2>5, <2>7, <2>8, <2>9 DEF Decide
<1>4. QED
  BY <1>2, <1>3

LEMMA ParamsProper ==
  ASSUME NEW c \in CallSet, c.what = "params", ~Refuses(c), NEW calls \in Calls(c)
  PROVE  Proper(c, calls)
<1> PICK s \in Schemas, d \in Datas : s = c.schema /\ d = c.data
  BY DEF CallSet
<1> PICK sh : sh = Shape[s]
  OBVIOUS
<1> PICK items \in Seq(Datas) : items = Value[d].items
  BY FieldsOf
<1> PICK n \in Nat : n = Len(items)
  BY LenProperties
<1>1. sh.sub \in Seq(Schemas)
  BY ValidatorAssumption DEF IsShape
<1> PICK m \in Nat : m = Len(sh.sub)
  BY <1>1, LenProperties
<1>2. n >= m
  BY DEF Refuses
<1>3. Wrong(c) = FaultsOfItems(Faults, sh, items) /\ KindOf(c) = "params"
  BY DEF Wrong, KindOf
<1>4. calls = IF n > m /\ sh.extra = Nothing
              THEN ItemCalls(sh, SubSeq(items, 1, m)) \o <<Call("overlong", s, NoPath, d)>>
              ELSE ItemCalls(sh, items)
  <2>1. calls = ParamsCalls(c.schema, c.data)
    BY DEF Calls, KindOf
  <2>2. QED
    BY ONLY <2>1, s = c.schema, d = c.data, sh = Shape[s], items = Value[d].items,
            n = Len(items), m = Len(sh.sub) DEF ParamsCalls
<1>5. CASE n > m /\ sh.extra = Nothing
  <2> PICK over : over = Call("overlong", s, NoPath, d)
    OBVIOUS
  <2> PICK first : first = SubSeq(items, 1, m)
    OBVIOUS
  <2>1. calls = ItemCalls(sh, first) \o <<over>>
    BY ONLY <1>4, <1>5, first = SubSeq(items, 1, m), over = Call("overlong", s, NoPath, d)
  <2>2. first \in Seq(Datas) /\ Len(first) = m /\ \A i \in 1 .. m : first[i] = items[i]
    BY <1>2
  <2>3. \A i \in 1 .. m : Cover(sh, i) # Nothing
    BY CoverIs
  <2>4. ItemCalls(sh, first) \in Seq(CallSet) /\ AllUnder(ItemCalls(sh, first)) = Among(s, first, m)
    <3>1. \A i \in 1 .. Len(first) : Cover(Shape[s], i) # Nothing
      BY <2>2, <2>3
    <3>2. ItemCalls(Shape[s], first) \in Seq(CallSet)
      BY ONLY <2>2, <3>1, s \in Schemas, ItemCallsAre
    <3>3. AllUnder(ItemCalls(Shape[s], first)) = Among(s, first, Len(first))
      BY ONLY <2>2, <3>1, s \in Schemas, ItemsUnder
    <3>4. QED
      BY <2>2, <3>2, <3>3
  <2>5. Among(s, first, m) = Among(s, items, m)
    <3>1. \A i \in 1 .. m : Below(Item(i - 1), Faults[<<Cover(Shape[s], i), first[i]>>])
                           = Below(Item(i - 1), Faults[<<Cover(Shape[s], i), items[i]>>])
      BY ONLY <2>2
    <3>2. QED
      BY ONLY <3>1 DEF Among
  <2>6. over \in CallSet /\ Under(over) = {<<>>}
    BY PathsOf, CallIs, FaultUnder DEF NoPath
  <2>7. <<over>> \in Seq(CallSet) /\ AllUnder(<<over>>) = {<<>>}
    BY <2>6, AllUnderOne
  <2>8. calls \in Seq(CallSet) /\ AllUnder(calls) = Among(s, items, m) \cup {<<>>}
    <3> PICK a : a = ItemCalls(sh, first)
      OBVIOUS
    <3> PICK b : b = <<over>>
      OBVIOUS
    <3>1. a \in Seq(CallSet) /\ b \in Seq(CallSet) /\ calls = a \o b
      BY <2>1, <2>4, <2>7
    <3>2. a \o b \in Seq(CallSet) /\ AllUnder(a \o b) = AllUnder(a) \cup AllUnder(b)
      BY ONLY <3>1, AllUnderConcat, ConcatProperties
    <3>3. AllUnder(a) = Among(s, items, m) /\ AllUnder(b) = {<<>>}
      BY <2>4, <2>5, <2>7
    <3>4. QED
      BY <3>1, <3>2, <3>3
  <2>9. Wrong(c) = {<<>>} \cup Among(s, items, m)
    BY <1>2, <1>3, <1>5, ItemFaultsAre
  <2>10. Wrong(c) = AllUnder(calls)
    BY <2>8, <2>9
  <2>11. QED
    BY <1>3, <2>8, <2>10 DEF Proper, Decide
<1>6. CASE ~(n > m /\ sh.extra = Nothing)
  <2>1. calls = ItemCalls(sh, items)
    BY <1>3, <1>4, <1>6
  <2>2. \A i \in 1 .. n : Cover(sh, i) # Nothing
    BY <1>6, CoverIs
  <2>3. calls \in Seq(CallSet) /\ AllUnder(calls) = Among(s, items, n)
    BY <2>1, <2>2, ItemCallsAre, ItemsUnder
  <2>4. Wrong(c) = Among(s, items, n)
    BY <1>2, <1>3, <1>6, ItemFaultsAre
  <2>5. QED
    BY <1>3, <2>3, <2>4 DEF Proper, Decide
<1>7. QED
  BY <1>5, <1>6

LEMMA MethodProper ==
  ASSUME NEW c \in CallSet, c.what = "scan", ~Refuses(c), NEW calls \in Calls(c),
         Shape[c.schema].kind = "method"
  PROVE  Proper(c, calls)
<1> PICK s \in Schemas, d \in Datas : s = c.schema /\ d = c.data
  BY DEF CallSet
<1> PICK sh : sh = Shape[s]
  OBVIOUS
<1> PICK fields : fields = Value[d].fields
  OBVIOUS
<1>1. calls = IF IsList(ParamsOf(d))
              THEN <<Call("params", s, Field("params"), ParamsOf(d))>>
              ELSE IF sh.returns = Nothing THEN <<>>
              ELSE <<Scan(sh.returns, Field("result"), fields["result"])>>
  BY ScanCalls
<1>2. Value[d].kind = "object" /\ (IsList(ParamsOf(d)) \/ "result" \in DOMAIN fields)
  BY DEF Refuses
<1>3. SchemasAreTrees => /\ Wrong(c) = FaultsOfMessage(Faults, sh, d)
                         /\ KindOf(c) = "method"
  <2>1. FaultsBy(Faults, s, d) = FaultsOfMessage(Faults, sh, d)
    BY <1>2 DEF FaultsBy, FaultsOf
  <2>2. QED
    BY <2>1, ScanWrong
<1>4. CASE IsList(ParamsOf(d))
  <2> PICK e \in Datas : e = ParamsOf(d) /\ e = fields["params"] /\ "params" \in Props
    BY <1>4, FieldsOf
  <2> PICK p : p = Field("params")
    OBVIOUS
  <2> PICK call : call = Call("params", s, p, e)
    OBVIOUS
  <2>1. p \in Path
    BY PathsOf
  <2>2. call \in CallSet /\ call.what = "params" /\ call.schema = s /\ call.path = p /\ call.data = e
    BY <2>1, CallIs
  <2>3. calls = <<call>> /\ calls \in Seq(CallSet)
    <3>1. calls = <<call>>
      BY ONLY <1>1, <1>4, call = Call("params", s, p, e), p = Field("params"), e = ParamsOf(d)
    <3>2. QED
      BY ONLY <2>2, <3>1
  <2>4. Wrong(call) = FaultsOfItems(Faults, sh, Value[e].items)
    BY <2>2 DEF Wrong
  <2>5. Under(call) = Below(p, FaultsOfItems(Faults, sh, Value[e].items))
    BY ONLY <2>2, <2>4 DEF Under
  <2>6. FaultsOfMessage(Faults, sh, d) = Below(p, FaultsOfItems(Faults, sh, Value[e].items))
    BY <1>4 DEF FaultsOfMessage
  <2>7. AllUnder(calls) = FaultsOfMessage(Faults, sh, d)
    BY <2>2, <2>3, <2>5, <2>6, AllUnderOne
  <2>8. QED
    BY <1>3, <2>3, <2>7 DEF Proper, Decide
<1>5. CASE ~IsList(ParamsOf(d)) /\ sh.returns = Nothing
  <2>1. calls = <<>> /\ calls \in Seq(CallSet)
    BY <1>1, <1>5
  <2>2. FaultsOfMessage(Faults, sh, d) = {}
    BY <1>2, <1>5 DEF FaultsOfMessage
  <2>3. QED
    BY <1>3, <2>1, <2>2, AllUnderNone DEF Proper, Decide
<1>6. CASE ~IsList(ParamsOf(d)) /\ sh.returns # Nothing
  <2> PICK t \in Schemas : t = sh.returns
    BY <1>6, KidsOf
  <2> PICK e \in Datas : e = fields["result"] /\ "result" \in Props
    BY <1>2, <1>6, FieldsOf
  <2> PICK p \in Path : p = Field("result")
    BY PathsOf
  <2> PICK call : call = Scan(t, p, e)
    OBVIOUS
  <2>1. call \in CallSet /\ Under(call) = Below(p, Faults[<<t, e>>])
    BY ScanUnder
  <2>2. calls = <<call>> /\ calls \in Seq(CallSet)
    BY <1>1, <1>6, <2>1
  <2>3. FaultsOfMessage(Faults, sh, d) = Below(p, Faults[<<t, e>>])
    BY <1>2, <1>6 DEF FaultsOfMessage
  <2>4. AllUnder(calls) = FaultsOfMessage(Faults, sh, d)
    BY <2>1, <2>2, <2>3, AllUnderOne
  <2>5. QED
    BY <1>3, <2>2, <2>4 DEF Proper, Decide
<1>7. QED
  BY <1>4, <1>5, <1>6

LEMMA ObjectProper ==
  ASSUME NEW c \in CallSet, c.what = "scan", ~Refuses(c), NEW calls \in Calls(c),
         Shape[c.schema].kind = "object"
  PROVE  Proper(c, calls)
<1> PICK s \in Schemas, d \in Datas : s = c.schema /\ d = c.data
  BY DEF CallSet
<1> PICK sh : sh = Shape[s]
  OBVIOUS
<1> PICK fields : fields = Value[d].fields
  OBVIOUS
<1> PICK all : all = Known(s, d) \cup Other(s, d)
  OBVIOUS
<1>1. Value[d].kind = "object"
  BY DEF Refuses
<1>2. SchemasAreTrees => /\ Wrong(c) = FaultsOfFields(Faults, sh, fields)
                         /\ KindOf(c) = "object"
  <2>1. FaultsBy(Faults, s, d) = FaultsOfFields(Faults, sh, fields)
    BY <1>1 DEF FaultsBy, FaultsOf
  <2>2. QED
    BY <2>1, ScanWrong
<1>3. PICK o1 \in Orders(Known(s, d)), o2 \in Orders(Other(s, d)) :
        calls = PropCalls(s, d, o1) \o PropCalls(s, d, o2)
  BY ScanCalls
<1>4. /\ calls \in Seq(CallSet)
      /\ \A i \in 1 .. Len(calls) : \E p \in all : calls[i] = PropCall(s, d, p)
      /\ \A p \in all : \E i \in 1 .. Len(calls) : calls[i] = PropCall(s, d, p)
  <2>1. ForEach(Known(s, d) \cup Other(s, d), s, d, PropCalls(s, d, o1) \o PropCalls(s, d, o2))
    BY ObjectCallsAre
  <2>2. ForEach(all, s, d, calls)
    BY ONLY <2>1, <1>3, all = Known(s, d) \cup Other(s, d)
  <2>3. QED
    BY ONLY <2>2 DEF ForEach
<1>5. ASSUME NEW x
      PROVE  x \in AllUnder(calls) <=> \E p \in all : x \in Under(PropCall(s, d, p))
  <2>1. x \in AllUnder(calls) <=> \E i \in 1 .. Len(calls) : x \in Under(calls[i])
    BY InAllUnder
  <2>2. QED
    BY ONLY <1>4, <2>1
<1>6. /\ sh.requires \in SUBSET DOMAIN sh.props
      /\ \A p : p \in all <=> \/ p \in DOMAIN sh.props /\ p \in DOMAIN fields \cup sh.requires
                              \/ sh.extra # Nothing /\ p \in DOMAIN fields \ DOMAIN sh.props
  <2>1. sh.requires \in SUBSET DOMAIN sh.props
    BY ValidatorAssumption DEF IsShape
  <2>2. QED
    BY <2>1 DEF Known, Other
<1>7. ASSUME NEW p \in all
      PROVE  /\ p \notin DOMAIN fields => Under(PropCall(s, d, p)) = {Field(p)}
             /\ p \in DOMAIN fields /\ p \in DOMAIN sh.props =>
                  Under(PropCall(s, d, p)) = Below(Field(p), Faults[<<sh.props[p], fields[p]>>])
             /\ p \notin DOMAIN sh.props =>
                  Under(PropCall(s, d, p)) = Below(Field(p), Faults[<<sh.extra, fields[p]>>])
  BY PropCallIs, ScanUnder, FaultUnder
<1>8. ASSUME NEW x
      PROVE  x \in FaultsOfFields(Faults, sh, fields) <=>
               \/ \E p \in sh.requires \ DOMAIN fields : x = Field(p)
               \/ \E p \in DOMAIN sh.props \cap DOMAIN fields :
                    x \in Below(Field(p), Faults[<<sh.props[p], fields[p]>>])
               \/ /\ sh.extra # Nothing
                  /\ \E p \in DOMAIN fields \ DOMAIN sh.props :
                       x \in Below(Field(p), Faults[<<sh.extra, fields[p]>>])
  BY ONLY TRUE DEF FaultsOfFields
<1>9. ASSUME NEW x \in AllUnder(calls)
      PROVE  x \in FaultsOfFields(Faults, sh, fields)
  <2>1. PICK p \in all : x \in Under(PropCall(s, d, p))
    BY <1>5
  <2>2. CASE p \notin DOMAIN fields
    <3>1. Under(PropCall(s, d, p)) = {Field(p)}
      BY ONLY <1>7, <2>2
    <3>2. x = Field(p)
      BY ONLY <2>1, <3>1
    <3>3. p \in sh.requires \ DOMAIN fields
      BY ONLY <1>6, <2>2
    <3>4. QED
      BY ONLY <1>8, <3>2, <3>3
  <2>3. CASE p \in DOMAIN fields /\ p \in DOMAIN sh.props
    <3>1. x \in Below(Field(p), Faults[<<sh.props[p], fields[p]>>])
      BY ONLY <1>7, <2>1, <2>3
    <3>2. QED
      BY ONLY <1>8, <2>3, <3>1
  <2>4. CASE p \in DOMAIN fields /\ p \notin DOMAIN sh.props
    <3>1. x \in Below(Field(p), Faults[<<sh.extra, fields[p]>>]) /\ sh.extra # Nothing
      BY ONLY <1>6, <1>7, <2>1, <2>4
    <3>2. QED
      BY ONLY <1>8, <2>4, <3>1
  <2>5. QED
    BY <2>2, <2>3, <2>4
<1>10. ASSUME NEW x \in FaultsOfFields(Faults, sh, fields)
       PROVE  x \in AllUnder(calls)
  <2>1. CASE \E p \in sh.requires \ DOMAIN fields : x = Field(p)
    <3>1. PICK p \in sh.requires \ DOMAIN fields : x = Field(p)
      BY <2>1
    <3>2. p \in all
      BY <1>6, <3>1
    <3>3. Under(PropCall(s, d, p)) = {Field(p)}
      BY ONLY <1>7, <3>1, <3>2
    <3>4. QED
      BY ONLY <1>5, <3>1, <3>2, <3>3
  <2>2. CASE \E p \in DOMAIN sh.props \cap DOMAIN fields :
               x \in Below(Field(p), Faults[<<sh.props[p], fields[p]>>])
    <3>1. PICK p \in DOMAIN sh.props \cap DOMAIN fields :
            x \in Below(Field(p), Faults[<<sh.props[p], fields[p]>>])
      BY <2>2
    <3>2. p \in all
      BY <1>6, <3>1
    <3>3. Under(PropCall(s, d, p)) = Below(Field(p), Faults[<<sh.props[p], fields[p]>>])
      BY ONLY <1>7, <3>1, <3>2
    <3>4. QED
      BY ONLY <1>5, <3>1, <3>2, <3>3
  <2>3. CASE /\ sh.extra # Nothing
             /\ \E p \in DOMAIN fields \ DOMAIN sh.props :
                  x \in Below(Field(p), Faults[<<sh.extra, fields[p]>>])
    <3>1. PICK p \in DOMAIN fields \ DOMAIN sh.props :
            x \in Below(Field(p), Faults[<<sh.extra, fields[p]>>])
      BY <2>3
    <3>2. p \in all
      BY <1>6, <2>3, <3>1
    <3>3. Under(PropCall(s, d, p)) = Below(Field(p), Faults[<<sh.extra, fields[p]>>])
      BY ONLY <1>7, <3>1, <3>2
    <3>4. QED
      BY ONLY <1>5, <3>1, <3>2, <3>3
  <2>4. QED
    BY <1>8, <2>1, <2>2, <2>3
<1>11. AllUnder(calls) = FaultsOfFields(Faults, sh, fields)
  BY <1>9, <1>10
<1>12. QED
  BY <1>2, <1>4, <1>11 DEF Proper, Decide

LEMMA OutsideIs ==
  ASSUME NEW s \in Schemas, NEW n \in Int
  PROVE  /\ Shape[s].kind \in {"number", "integer"} =>
              (OutOfRange(Shape[s], n) <=> Outside(Shape[s], n))
         /\ Shape[s].kind \notin {"number", "integer"} =>
              (WrongLength(Shape[s], n) <=> Outside(Shape[s], n))
<1> PICK sh : sh = Shape[s]
  OBVIOUS
<1>1. /\ sh.max \in Int \cup {Nothing} /\ sh.min \in Int \cup {Nothing}
      /\ sh.kind \notin {"number", "integer"} => sh.exmin # TRUE /\ sh.exmax # TRUE
  BY ValidatorAssumption DEF IsShape, Bound
<1> PICK max : max = sh.max
  OBVIOUS
<1> PICK min : min = sh.min
  OBVIOUS
<1>2. OutOfRange(sh, n) <=> Outside(sh, n)
  BY <1>1 DEF OutOfRange, Outside
<1>3. sh.kind \notin {"number", "integer"} => (WrongLength(sh, n) <=> Outside(sh, n))
  BY <1>1 DEF WrongLength, Outside
<1>4. QED
  BY <1>2, <1>3

LEMMA LeafProper ==
  ASSUME NEW c \in CallSet, c.what = "scan", ~Refuses(c), NEW calls \in Calls(c),
         Shape[c.schema].kind \in {"any", "null", "bool", "number", "integer", "string"}
  PROVE  Proper(c, calls)
<1> PICK s \in Schemas, d \in Datas : s = c.schema /\ d = c.data
  BY DEF CallSet
<1> PICK sh : sh = Shape[s]
  OBVIOUS
<1> PICK n \in Int : n = Value[d].num
  BY ValidatorAssumption DEF IsValue
<1>1. calls = <<>> /\ calls \in Seq(CallSet)
  <2>1. calls = <<>>
    BY ScanCalls
  <2>2. QED
    BY ONLY <2>1
<1>2. /\ sh.kind \in {"number", "integer"} => (OutOfRange(sh, n) <=> Outside(sh, n))
      /\ sh.kind = "string" => (WrongLength(sh, n) <=> Outside(sh, n))
  BY OutsideIs
<1>3. FaultsBy(Faults, s, d) = {}
  <2>1. CASE sh.kind = "any"
    BY <2>1 DEF FaultsBy, FaultsOf
  <2>2. CASE sh.kind \in {"null", "bool"}
    <3>1. Value[d].kind = sh.kind
      BY <2>2 DEF Refuses
    <3>2. QED
      BY <2>2, <3>1 DEF FaultsBy, FaultsOf, Here
  <2>3. CASE sh.kind = "number"
    <3>1. Value[d].kind \in {"integer", "float"} /\ ~Outside(sh, n)
      BY <1>2, <2>3 DEF Refuses
    <3>2. FaultsBy(Faults, s, d) = Here(Outside(sh, n))
      BY <2>3, <3>1 DEF FaultsBy, FaultsOf
    <3>3. QED
      BY <3>1, <3>2 DEF Here
  <2>4. CASE sh.kind \in {"integer", "string"}
    <3>1. Value[d].kind = sh.kind /\ ~Outside(sh, n)
      BY <1>2, <2>4 DEF Refuses
    <3>2. FaultsBy(Faults, s, d) = Here(Outside(sh, n))
      BY <2>4, <3>1 DEF FaultsBy, FaultsOf
    <3>3. QED
      BY <3>1, <3>2 DEF Here
  <2>5. QED
    BY <2>1, <2>2, <2>3, <2>4
<1>4. SchemasAreTrees => Wrong(c) = {} /\ KindOf(c) \notin {"anyOf", "not"}
  BY <1>3, ScanWrong
<1>5. AllUnder(calls) = {}
  BY <1>1, AllUnderNone
<1>6. QED
  BY <1>1, <1>4, <1>5 DEF Proper, Decide

LEMMA CallsProper ==
  ASSUME NEW c \in CallSet, ~Refuses(c), NEW calls \in Calls(c)
  PROVE  Proper(c, calls)
<1>1. c.schema \in Schemas /\ c.what \in {"scan", "params", "absent", "overlong"}
  BY DEF CallSet
<1>2. Shape[c.schema].kind \in Kinds
  BY <1>1, ValidatorAssumption DEF IsShape
<1>3. c.what \in {"scan", "params"}
  BY <1>1 DEF Refuses
<1>4. QED
  BY <1>2, <1>3, ChoicesProper, ItemsProper, ParamsProper, MethodProper, ObjectProper,
     LeafProper DEF Kinds

\* A call that fails at once is right to.
LEMMA RefusedIsWrong ==
  ASSUME SchemasAreTrees, NEW c \in CallSet, Refuses(c)
  PROVE  <<>> \in Wrong(c)
<1> PICK s \in Schemas, d \in Datas : s = c.schema /\ d = c.data
  BY DEF CallSet
<1> PICK sh : sh = Shape[s]
  OBVIOUS
<1> PICK v : v = Value[d]
  OBVIOUS
<1> PICK n \in Int : n = v.num
  BY ValidatorAssumption DEF IsValue
<1>1. sh.sub \in Seq(Schemas) /\ Len(sh.sub) \in Nat /\ Len(v.items) \in Nat /\ sh.kind \in Kinds
  <2>1. sh.sub \in Seq(Schemas) /\ sh.kind \in Kinds
    BY ValidatorAssumption DEF IsShape
  <2>2. QED
    BY <2>1, LenProperties, FieldsOf
<1>2. \A items \in Seq(Datas) : Uncovered(sh, Len(items)) => <<>> \in FaultsOfItems(Faults, sh, items)
  BY DEF Uncovered, FaultsOfItems, Here
<1>3. CASE c.what \in {"absent", "overlong"}
  BY <1>3 DEF Wrong
<1>4. CASE c.what = "params"
  <2>1. Len(v.items) < Len(sh.sub) /\ v.items \in Seq(Datas)
    BY <1>4, FieldsOf DEF Refuses
  <2>2. <<>> \in FaultsOfItems(Faults, sh, v.items)
    BY <1>2, <2>1 DEF Uncovered
  <2>3. QED
    BY <1>4, <2>2 DEF Wrong
<1>5. CASE c.what = "scan"
  <2>1. SUFFICES <<>> \in FaultsBy(Faults, s, d)
    BY <1>5, ScanWrong
  <2>2. /\ sh.kind \in {"number", "integer"} => (OutOfRange(sh, n) <=> Outside(sh, n))
        /\ sh.kind = "string" => (WrongLength(sh, n) <=> Outside(sh, n))
        /\ sh.kind = "list" => (WrongLength(sh, Len(v.items)) <=> Outside(sh, Len(v.items)))
    BY <1>1, OutsideIs
  <2>3. CASE sh.kind \in {"any", "anyOf", "allOf", "not"}
    BY <1>5, <2>3 DEF Refuses
  <2>4. CASE sh.kind \in {"null", "bool"}
    <3>1. v.kind # sh.kind
      BY <1>5, <2>4 DEF Refuses
    <3>2. QED
      BY <2>4, <3>1 DEF FaultsBy, FaultsOf, Here
  <2>5. CASE sh.kind = "number"
    <3>1. v.kind \notin {"integer", "float"} \/ Outside(sh, n)
      BY <1>5, <2>2, <2>5 DEF Refuses
    <3>2. FaultsBy(Faults, s, d) = IF v.kind \in {"integer", "float"} THEN Here(Outside(sh, n))
                                   ELSE Here(sh.kind # v.kind)
      BY <2>5 DEF FaultsBy, FaultsOf
    <3>3. v.kind # "number"
      BY ValidatorAssumption DEF IsValue
    <3>4. QED
      BY <2>5, <3>1, <3>2, <3>3 DEF Here
  <2>6. CASE sh.kind \in {"integer", "string"}
    <3>1. v.kind # sh.kind \/ Outside(sh, n)
      BY <1>5, <2>2, <2>6 DEF Refuses
    <3>2. FaultsBy(Faults, s, d) = IF v.kind = sh.kind THEN Here(Outside(sh, n))
                                   ELSE Here(sh.kind # v.kind)
      BY <2>6 DEF FaultsBy, FaultsOf
    <3>3. QED
      BY <3>1, <3>2 DEF Here
  <2>7. CASE sh.kind = "list"
    <3>1. v.kind # "list" \/ Outside(sh, Len(v.items))
      BY <1>5, <2>2, <2>7 DEF Refuses
    <3>2. CASE v.kind # "list"
      BY <2>7, <3>2 DEF FaultsBy, FaultsOf, Here
    <3>3. CASE v.kind = "list" /\ Outside(sh, Len(v.items))
      <4> PICK inner : inner = UNION {Below(Item(i - 1), Faults[<<sh.sub[1], v.items[i]>>]) :
                                        i \in DOMAIN v.items}
        OBVIOUS
      <4>1. FaultsBy(Faults, s, d) = Here(Outside(sh, Len(v.items))) \cup inner
        BY <2>7, <3>3 DEF FaultsBy, FaultsOf
      <4>2. QED
        BY ONLY <3>3, <4>1 DEF Here
    <3>4. QED
      BY <3>1, <3>2, <3>3
  <2>8. CASE sh.kind = "tuple"
    <3>1. v.kind # "list" \/ Uncovered(sh, Len(v.items))
      BY <1>5, <2>8 DEF Refuses
    <3>2. CASE v.kind # "list"
      <4>1. FaultsBy(Faults, s, d) = Here(sh.kind # v.kind)
        BY <2>8, <3>2 DEF FaultsBy, FaultsOf
      <4>2. v.kind # "tuple"
        BY ValidatorAssumption DEF IsValue
      <4>3. QED
        BY <2>8, <4>1, <4>2 DEF Here
    <3>3. CASE v.kind = "list" /\ Uncovered(sh, Len(v.items))
      <4>1. FaultsBy(Faults, s, d) = FaultsOfItems(Faults, sh, v.items)
        BY <2>8, <3>3 DEF FaultsBy, FaultsOf
      <4>2. v.items \in Seq(Datas)
        BY FieldsOf
      <4>3. QED
        BY <1>2, <3>3, <4>1, <4>2
    <3>4. QED
      BY <3>1, <3>2, <3>3
  <2>9. CASE sh.kind = "object"
    <3>1. v.kind # "object"
      BY <1>5, <2>9 DEF Refuses
    <3>2. QED
      BY <2>9, <3>1 DEF FaultsBy, FaultsOf, Here
  <2>10. CASE sh.kind = "method"
    <3>1. v.kind # "object" \/ (~IsList(ParamsOf(d)) /\ "result" \notin DOMAIN v.fields)
      BY <1>5, <2>10 DEF Refuses
    <3>2. CASE v.kind # "object"
      <4>1. FaultsBy(Faults, s, d) = Here(sh.kind # v.kind)
        BY <2>10, <3>2 DEF FaultsBy, FaultsOf
      <4>2. v.kind # "method"
        BY ValidatorAssumption DEF IsValue
      <4>3. QED
        BY <2>10, <4>1, <4>2 DEF Here
    <3>3. CASE v.kind = "object" /\ ~IsList(ParamsOf(d)) /\ "result" \notin DOMAIN v.fields
      <4>1. FaultsBy(Faults, s, d) = FaultsOfMessage(Faults, sh, d)
        BY <2>10, <3>3 DEF FaultsBy, FaultsOf
      <4>2. QED
        BY <3>3, <4>1 DEF FaultsOfMessage
    <3>4. QED
      BY <3>1, <3>2, <3>3
  <2>11. QED
    BY <1>1, <2>3, <2>4, <2>5, <2>6, <2>7, <2>8, <2>9, <2>10 DEF Kinds
<1>6. QED
  BY <1>3, <1>4, <1>5 DEF CallSet

LEMMA WrongType ==
  ASSUME SchemasAreTrees, NEW c \in CallSet
  PROVE  Wrong(c) \in SUBSET Path
<1> PICK s \in Schemas, d \in Datas : s = c.schema /\ d = c.data
  BY DEF CallSet
<1>1. \A t \in Schemas, e \in Datas : Faults[<<t, e>>] \in SUBSET Path
  BY FaultsAre
<1>2. Kids(s) \in SUBSET Schemas
  BY KidsOf
<1>3. Places(Faults, s)
  BY <1>1, <1>2 DEF Places
<1>4. FaultsOfItems(Faults, Shape[s], Value[d].items) \in SUBSET Path
  BY <1>3, FieldsOf, ItemsPlaces
<1>5. {<<>>} \in SUBSET Path
  BY PathsOf DEF NoPath
<1>6. QED
  BY <1>1, <1>4, <1>5 DEF Wrong

-----------------------------------------------------------------------------
(* The stack of calls.                                                     *)

LEMMA InitTypes == Init => TypeInv
<1> SUFFICES ASSUME Init PROVE TypeInv
  OBVIOUS
<1>1. stack \in Seq(FrameSet) /\ paths \in Path
  BY DEF Init, Path
<1>2. result \in [done : BOOLEAN, ok : BOOLEAN, at : Path]
  BY DEF Init, Running, Path
<1>3. panicked \in BOOLEAN /\ scans \in Nat /\ ~(scans > 0)
  <2>1. scans = 0
    BY DEF Init
  <2>2. panicked \in BOOLEAN
    BY DEF Init
  <2>3. QED
    BY <2>1, <2>2
<1>4. QED
  BY ONLY <1>1, <1>2, <1>3 DEF TypeInv

\* The innermost call may have started and have other calls to make.
Altered(st, tt) ==
  /\ tt \in Seq(FrameSet) /\ Len(tt) = Len(st)
  /\ \A i \in 1 .. Len(st) : tt[i].call = st[i].call /\ (i # Len(st) => tt[i] = st[i])

LEMMA TopIs ==
  ASSUME NEW st \in Seq(FrameSet), st # <<>>
  PROVE  /\ Len(st) \in Nat /\ Len(st) # 0 /\ DOMAIN st = 1 .. Len(st)
         /\ st[Len(st)] \in FrameSet /\ st[Len(st)].call \in CallSet
         /\ st[Len(st)].todo \in Seq(CallSet) /\ st[Len(st)].started \in BOOLEAN
<1> PICK n \in Nat : n = Len(st)
  BY LenProperties
<1>1. n # 0
  BY EmptySeq
<1>2. st[n] \in FrameSet
  BY <1>1, ElementOfSeq
<1>3. QED
  BY <1>1, <1>2, LenProperties DEF FrameSet

LEMMA StartIs ==
  ASSUME NEW st \in Seq(FrameSet), st # <<>>, NEW calls \in Seq(CallSet),
         NEW tt, tt = [st EXCEPT ![Len(st)].started = TRUE, ![Len(st)].todo = calls]
  PROVE  Altered(st, tt) /\ tt[Len(st)].started = TRUE /\ tt[Len(st)].todo = calls
<1> PICK n \in Nat : n = Len(st)
  BY LenProperties
<1>1. n \in 1 .. n /\ DOMAIN st = 1 .. n /\ st[n] \in FrameSet
  BY TopIs
<1> PICK fr : fr = [st[n] EXCEPT !.started = TRUE, !.todo = calls]
  OBVIOUS
<1>2. fr \in FrameSet /\ fr.call = st[n].call /\ fr.started = TRUE /\ fr.todo = calls
  BY <1>1 DEF FrameSet
<1>3. tt = [st EXCEPT ![n] = fr]
  BY <1>1
<1>4. tt \in Seq(FrameSet) /\ Len(tt) = n
  BY ONLY st \in Seq(FrameSet), n = Len(st), <1>1, <1>2, <1>3, ExceptSeq
<1>5. \A i \in 1 .. n : tt[i] = IF i = n THEN fr ELSE st[i]
  BY <1>1, <1>3
<1>6. QED
  BY <1>1, <1>2, <1>4, <1>5 DEF Altered

LEMMA NextCallIs ==
  ASSUME NEW st \in Seq(FrameSet), st # <<>>, st[Len(st)].todo # <<>>,
         NEW tt, tt = [st EXCEPT ![Len(st)].todo = Tail(@)]
  PROVE  /\ Altered(st, tt) /\ tt[Len(st)].started = st[Len(st)].started
         /\ tt[Len(st)].todo = Tail(st[Len(st)].todo)
         /\ Head(st[Len(st)].todo) \in CallSet
<1> PICK n \in Nat : n = Len(st)
  BY LenProperties
<1>1. n \in 1 .. n /\ DOMAIN st = 1 .. n /\ st[n] \in FrameSet /\ st[n].todo \in Seq(CallSet)
  BY TopIs
<1> PICK rest : rest = Tail(st[n].todo)
  OBVIOUS
<1>2. rest \in Seq(CallSet) /\ Head(st[n].todo) \in CallSet
  BY <1>1, HeadTailProperties
<1> PICK fr : fr = [st[n] EXCEPT !.todo = rest]
  OBVIOUS
<1>3. fr \in FrameSet /\ fr.call = st[n].call /\ fr.started = st[n].started /\ fr.todo = rest
  BY <1>1, <1>2 DEF FrameSet
<1>4. tt = [st EXCEPT ![n] = fr]
  BY <1>1
<1>5. tt \in Seq(FrameSet) /\ Len(tt) = n
  BY <1>1, <1>3, <1>4, ExceptSeq
<1>6. \A i \in 1 .. n : tt[i] = IF i = n THEN fr ELSE st[i]
  BY <1>1, <1>4
<1>7. QED
  BY <1>1, <1>2, <1>3, <1>5, <1>6 DEF Altered

LEMMA RestIs ==
  ASSUME NEW st \in Seq(FrameSet), st # <<>>, NEW rest, rest = Front(st)
  PROVE  /\ rest \in Seq(FrameSet) /\ Len(rest) = Len(st) - 1
         /\ \A i \in 1 .. Len(rest) : rest[i] = st[i]
         /\ st = Append(rest, st[Len(st)])
<1> PICK n \in Nat : n = Len(st)
  BY LenProperties
<1>1. n # 0 /\ \A i \in 1 .. n : st[i] \in FrameSet
  BY TopIs, ElementOfSeq
<1>2. rest = SubSeq(st, 1, n - 1)
  BY DEF Front
<1>3. rest \in Seq(FrameSet) /\ Len(rest) = n - 1 /\ \A i \in 1 .. n - 1 : rest[i] = st[i]
  BY <1>1, <1>2
<1>4. st = Append(rest, st[n])
  <2> PICK tt : tt = Append(rest, st[n])
    OBVIOUS
  <2>1. tt \in Seq(FrameSet) /\ Len(tt) = n /\ \A i \in 1 .. n : tt[i] = st[i]
    BY <1>1, <1>3
  <2>2. QED
    BY <2>1, SeqEqual
<1>5. QED
  BY <1>3, <1>4

\* The paths of the calls under way.
Trail(st) == [i \in DOMAIN st |-> st[i].call.path]

LEMMA TrailIs ==
  ASSUME NEW st \in Seq(FrameSet)
  PROVE  /\ Trail(st) \in Seq(Path) /\ Len(Trail(st)) = Len(st)
         /\ \A i \in 1 .. Len(st) : Trail(st)[i] = st[i].call.path
<1> PICK n \in Nat : n = Len(st)
  BY LenProperties
<1>1. DOMAIN st = 1 .. n /\ \A i \in 1 .. n : st[i] \in FrameSet
  BY ElementOfSeq, LenProperties
<1>2. \A i \in 1 .. n : st[i].call.path \in Path
  BY <1>1 DEF FrameSet, CallSet
<1>3. Trail(st) = [i \in 1 .. n |-> st[i].call.path]
  BY <1>1 DEF Trail
<1>4. Trail(st) \in [1 .. n -> Path]
  BY <1>2, <1>3
<1>5. Trail(st) \in Seq(Path) /\ Len(Trail(st)) = n
  BY ONLY <1>4, n \in Nat
<1>6. QED
  BY <1>3, <1>5

LEMMA TrailOfAltered ==
  ASSUME NEW st \in Seq(FrameSet), NEW tt, Altered(st, tt)
  PROVE  Trail(tt) = Trail(st)
<1>1. tt \in Seq(FrameSet) /\ Len(tt) = Len(st) /\ \A i \in 1 .. Len(st) : tt[i].call = st[i].call
  BY DEF Altered
<1>2. DOMAIN st = DOMAIN tt /\ DOMAIN st = 1 .. Len(st)
  BY <1>1, LenProperties
<1>3. \A i \in DOMAIN st : tt[i].call.path = st[i].call.path
  BY <1>1, <1>2
<1>4. QED
  BY <1>2, <1>3 DEF Trail

LEMMA TrailOfAppend ==
  ASSUME NEW st \in Seq(FrameSet), NEW fr \in FrameSet
  PROVE  Trail(Append(st, fr)) = Append(Trail(st), fr.call.path)
<1> PICK tt : tt = Append(st, fr)
  OBVIOUS
<1> PICK n \in Nat : n = Len(st)
  BY LenProperties
<1>1. /\ tt \in Seq(FrameSet) /\ Len(tt) = n + 1
      /\ (\A i \in 1 .. n : tt[i] = st[i]) /\ tt[n + 1] = fr
  BY AppendProperties
<1> PICK a : a = Trail(tt)
  OBVIOUS
<1> PICK b : b = Append(Trail(st), fr.call.path)
  OBVIOUS
<1>2. fr.call.path \in Path
  BY DEF FrameSet, CallSet
<1>3. a \in Seq(Path) /\ Len(a) = n + 1 /\ \A i \in 1 .. n + 1 : a[i] = tt[i].call.path
  BY <1>1, TrailIs
<1>4. /\ Trail(st) \in Seq(Path) /\ Len(Trail(st)) = n
      /\ \A i \in 1 .. n : Trail(st)[i] = st[i].call.path
  BY TrailIs
<1>5. /\ b \in Seq(Path) /\ Len(b) = n + 1
      /\ (\A i \in 1 .. n : b[i] = Trail(st)[i]) /\ b[n + 1] = fr.call.path
  BY <1>2, <1>4, AppendProperties
<1>6. ASSUME NEW i \in 1 .. n + 1 PROVE a[i] = b[i]
  <2>1. CASE i = n + 1
    BY <1>1, <1>3, <1>5, <2>1
  <2>2. CASE i # n + 1
    <3>1. i \in 1 .. n
      BY <2>2
    <3>2. QED
      BY <1>1, <1>3, <1>4, <1>5, <3>1
  <2>3. QED
    BY <2>1, <2>2
<1>7. a = b
  BY <1>3, <1>5, <1>6, SeqEqual
<1>8. QED
  BY <1>7

LEMMA SuffixPops ==
  ASSUME NEW p \in Path, NEW q \in Path, NEW r, r = p \o q
  PROVE  IsSuffix(q, r) /\ SubSeq(r, 1, Len(r) - Len(q)) = p
<1> PICK m \in Nat : m = Len(p)
  BY LenProperties DEF Path
<1> PICK n \in Nat : n = Len(q)
  BY LenProperties DEF Path
<1>1. /\ r \in Path /\ Len(r) = m + n
      /\ \A i \in 1 .. m + n : r[i] = IF i <= m THEN p[i] ELSE q[i - m]
  BY ConcatProperties DEF Path
<1>2. IsSuffix(q, r)
  <2> PICK a : a = Reverse(q)
    OBVIOUS
  <2> PICK b : b = Reverse(r)
    OBVIOUS
  <2>1. a = [i \in 1 .. n |-> q[n - i + 1]]
    BY DEF Reverse
  <2>2. b = [i \in 1 .. m + n |-> r[m + n - i + 1]]
    BY <1>1 DEF Reverse
  <2>3. \A i \in 1 .. n : n - i + 1 \in 1 .. n /\ q[n - i + 1] \in Step
    BY ElementOfSeq DEF Path
  <2>4. \A i \in 1 .. m + n : m + n - i + 1 \in 1 .. m + n /\ r[m + n - i + 1] \in Step
    BY <1>1, ElementOfSeq DEF Path
  <2>5. a \in Seq(Step) /\ Len(a) = n
    <3>1. a \in [1 .. n -> Step]
      BY <2>1, <2>3
    <3>2. QED
      BY ONLY <3>1, n \in Nat
  <2>6. b \in Seq(Step) /\ Len(b) = m + n
    <3> PICK k \in Nat : k = m + n
      OBVIOUS
    <3>1. b \in [1 .. k -> Step]
      BY <2>2, <2>4
    <3>2. QED
      BY ONLY <3>1, k \in Nat, k = m + n
  <2>7. ASSUME NEW i \in 1 .. n PROVE a[i] = b[i]
    <3>1. m + n - i + 1 \in 1 .. m + n /\ ~(m + n - i + 1 <= m) /\ (m + n - i + 1) - m = n - i + 1
      OBVIOUS
    <3>2. r[m + n - i + 1] = q[n - i + 1]
      BY <1>1, <3>1
    <3>3. i \in 1 .. m + n
      OBVIOUS
    <3>4. QED
      BY <2>1, <2>2, <3>2, <3>3
  <2>8. SubSeq(a, 1, n) = SubSeq(b, 1, n)
    <3>1. SubSeq(a, 1, n) \in Seq(Step) /\ Len(SubSeq(a, 1, n)) = n
          /\ \A i \in 1 .. n : SubSeq(a, 1, n)[i] = a[i]
      BY ONLY <2>5, n \in Nat
    <3>2. SubSeq(b, 1, n) \in Seq(Step) /\ Len(SubSeq(b, 1, n)) = n
          /\ \A i \in 1 .. n : SubSeq(b, 1, n)[i] = b[i]
      BY ONLY <2>6, n \in Nat, m \in Nat
    <3>3. QED
      BY <2>7, <3>1, <3>2, SeqEqual
  <2>9. QED
    BY <2>5, <2>6, <2>8 DEF IsSuffix, IsPrefix
<1>3. SubSeq(r, 1, m) = p
  <2> PICK t : t = SubSeq(r, 1, m)
    OBVIOUS
  <2>1. t \in Seq(Step) /\ Len(t) = m /\ \A i \in 1 .. m : t[i] = r[i]
    BY <1>1 DEF Path
  <2>2. \A i \in 1 .. m : t[i] = p[i]
    BY <1>1, <2>1
  <2>3. QED
    BY <2>1, <2>2, SeqEqual DEF Path
<1>4. QED
  BY <1>1, <1>2, <1>3

LEMMA ValidateIs ==
  ASSUME TypeInv, PathsBalanced, NEW s \in Schemas, Validate(s)
  PROVE  \E d \in Datas, fr \in FrameSet :
           /\ fr.call = Scan(s, NoPath, d) /\ fr.started = FALSE
           /\ subject' = <<s, d>> /\ stack = <<>> /\ stack' = <<fr>>
           /\ paths' = <<>> /\ paths = <<>> /\ result' = Running
           /\ panicked' = panicked /\ scans' = scans + 1
<1>1. PICK d \in Datas : subject' = <<s, d>> /\ stack' = <<Frame(Scan(s, NoPath, d))>>
  BY DEF Validate
<1> PICK fr : fr = Frame(Scan(s, NoPath, d))
  OBVIOUS
<1>2. Scan(s, NoPath, d) \in CallSet
  BY PathsOf, CallIs DEF Scan
<1>3. fr \in FrameSet /\ fr.call = Scan(s, NoPath, d) /\ fr.started = FALSE
  BY <1>2 DEF Frame, FrameSet
<1>4. stack = <<>> /\ paths' = paths /\ panicked' = panicked /\ result' = Running /\ scans' = scans + 1
  BY DEF Validate
<1>5. paths = <<>>
  <2>1. Trail(stack) = <<>>
    BY <1>4 DEF Trail
  <2>2. paths = FlattenSeq(<<>>)
    BY <2>1 DEF PathsBalanced, Trail
  <2>3. QED
    BY <2>2 DEF FlattenSeq
<1>6. QED
  BY <1>1, <1>3, <1>4, <1>5

\* Look, when the call does not fail at once.
Started(calls) ==
  /\ calls \in Calls(Top.call) /\ calls \in Seq(CallSet) /\ ~Refuses(Top.call)
  /\ Altered(stack, stack')
  /\ stack'[Len(stack)].started = TRUE /\ stack'[Len(stack)].todo = calls
  /\ result' = result

LEMMA LookIs ==
  ASSUME TypeInv, Look
  PROVE  /\ stack # <<>> /\ Top.started = FALSE /\ result.done = FALSE /\ Top.call \in CallSet
         /\ subject' = subject /\ paths' = paths /\ panicked' = panicked /\ scans' = scans
         /\ \/ Refuses(Top.call) /\ stack' = stack /\ result' = ErrorPos
            \/ \E calls : Started(calls)
<1> stack \in Seq(FrameSet) /\ result.done \in BOOLEAN
  BY DEF TypeInv
<1>1. stack # <<>>
  BY DEF Look
<1>2. Top.call \in CallSet /\ Top.started \in BOOLEAN
  BY <1>1, TopIs DEF Top
<1>3. Top.started = FALSE /\ result.done = FALSE
  BY <1>2 DEF Look
<1>4. subject' = subject /\ paths' = paths /\ panicked' = panicked /\ scans' = scans
  BY DEF Look
<1>5. CASE Refuses(Top.call)
  <2>1. stack' = stack /\ result' = ErrorPos
    BY <1>5 DEF Look
  <2>2. QED
    BY <1>1, <1>2, <1>3, <1>4, <1>5, <2>1
<1>6. CASE ~Refuses(Top.call)
  <2>1. PICK calls \in Calls(Top.call) :
          stack' = [stack EXCEPT ![Len(stack)].started = TRUE, ![Len(stack)].todo = calls]
    BY <1>6 DEF Look
  <2>2. result' = result
    BY <1>6 DEF Look
  <2>3. calls \in Seq(CallSet)
    BY <1>2, <1>6, CallsProper DEF Proper
  <2>4. Altered(stack, stack') /\ stack'[Len(stack)].started = TRUE /\ stack'[Len(stack)].todo = calls
    BY ONLY <1>1, <2>1, <2>3, stack \in Seq(FrameSet), StartIs
  <2>5. Started(calls)
    BY <1>6, <2>2, <2>3, <2>4 DEF Started
  <2>6. QED
    BY <1>1, <1>2, <1>3, <1>4, <2>5
<1>7. QED
  BY <1>5, <1>6

\* Descend: mid is the stack before the call.
Called(mid, call, fr) ==
  /\ Altered(stack, mid) /\ mid[Len(stack)].started = Top.started
  /\ mid[Len(stack)].todo = Tail(Top.todo)
  /\ call = Head(Top.todo) /\ call \in CallSet
  /\ fr \in FrameSet /\ fr.call = call /\ fr.started = FALSE
  /\ stack' = Append(mid, fr) /\ paths' = paths \o call.path

LEMMA DescendIs ==
  ASSUME TypeInv, Descend
  PROVE  /\ stack # <<>> /\ Top.started = TRUE /\ result.done = FALSE /\ Top.todo # <<>>
         /\ subject' = subject /\ result' = result /\ panicked' = panicked /\ scans' = scans
         /\ \E mid, call, fr : Called(mid, call, fr)
<1> stack \in Seq(FrameSet) /\ result.done \in BOOLEAN
  BY DEF TypeInv
<1>1. stack # <<>> /\ Top.todo # <<>>
  BY DEF Descend
<1>2. Top.started = TRUE /\ result.done = FALSE
  <2>1. Top.started \in BOOLEAN
    BY <1>1, TopIs DEF Top
  <2>2. QED
    BY <2>1 DEF Descend
<1>3. subject' = subject /\ result' = result /\ panicked' = panicked /\ scans' = scans
  BY DEF Descend
<1> PICK mid : mid = [stack EXCEPT ![Len(stack)].todo = Tail(@)]
  OBVIOUS
<1> PICK call : call = Head(Top.todo)
  OBVIOUS
<1> PICK fr : fr = Frame(call)
  OBVIOUS
<1>4. stack' = Append(mid, fr) /\ paths' = paths \o call.path
  BY DEF Descend
<1>5. /\ Altered(stack, mid) /\ mid[Len(stack)].started = stack[Len(stack)].started
      /\ mid[Len(stack)].todo = Tail(stack[Len(stack)].todo)
      /\ Head(stack[Len(stack)].todo) \in CallSet
  <2>1. stack[Len(stack)].todo # <<>>
    BY <1>1 DEF Top
  <2>2. QED
    BY ONLY <1>1, <2>1, stack \in Seq(FrameSet),
            mid = [stack EXCEPT ![Len(stack)].todo = Tail(@)], NextCallIs
<1>6. call \in CallSet
  BY <1>5 DEF Top
<1>7. fr \in FrameSet /\ fr.call = call /\ fr.started = FALSE
  BY <1>6 DEF Frame, FrameSet
<1>8. Called(mid, call, fr)
  BY <1>4, <1>5, <1>6, <1>7 DEF Called, Top
<1>9. QED
  BY <1>1, <1>2, <1>3, <1>8

LEMMA FinishIs ==
  ASSUME TypeInv, Finish
  PROVE  /\ stack # <<>> /\ Top.started = TRUE /\ result.done = FALSE /\ Top.todo = <<>>
         /\ Top.call \in CallSet
         /\ result' = IF KindOf(Top.call) = "anyOf" THEN ErrorPos ELSE Ok
         /\ subject' = subject /\ stack' = stack /\ paths' = paths
         /\ panicked' = panicked /\ scans' = scans
<1> stack \in Seq(FrameSet) /\ result.done \in BOOLEAN
  BY DEF TypeInv
<1>1. stack # <<>> /\ Top.todo = <<>>
  BY DEF Finish
<1>2. Top.started \in BOOLEAN /\ Top.call \in CallSet
  BY <1>1, TopIs DEF Top
<1>3. Top.started = TRUE /\ result.done = FALSE
  BY <1>2 DEF Finish
<1>4. QED
  BY <1>1, <1>2, <1>3 DEF Finish

\* Return to the calls of rest.
Returned(rest, path) ==
  /\ rest \in Seq(FrameSet) /\ rest = Front(stack) /\ stack = Append(rest, Top)
  /\ Len(rest) = Len(stack) - 1 /\ (\A i \in 1 .. Len(rest) : rest[i] = stack[i])
  /\ Top \in FrameSet /\ path = Top.call.path
  /\ stack' = rest /\ panicked' = FALSE
  /\ paths' \in Path /\ path \in Path /\ paths = paths' \o path
  /\ paths' = FlattenSeq(Trail(rest))

LEMMA ReturnIs ==
  ASSUME TypeInv, PathsBalanced, Return
  PROVE  /\ stack # <<>> /\ result.done = TRUE /\ Top.call \in CallSet
         /\ subject' = subject /\ scans' = scans
         /\ \E rest, path : Returned(rest, path)
<1> stack \in Seq(FrameSet) /\ result.done \in BOOLEAN
  BY DEF TypeInv
<1>1. stack # <<>>
  BY DEF Return
<1>2. result.done = TRUE /\ subject' = subject /\ scans' = scans
  BY DEF Return
<1> PICK rest : rest = Front(stack)
  OBVIOUS
<1> PICK path : path = Top.call.path
  OBVIOUS
<1>3. /\ rest \in Seq(FrameSet) /\ Len(rest) = Len(stack) - 1
      /\ \A i \in 1 .. Len(rest) : rest[i] = stack[i]
      /\ stack = Append(rest, Top)
  BY <1>1, RestIs DEF Top
<1>4. Top \in FrameSet /\ path \in Path /\ Top.call \in CallSet
  <2>1. Top \in FrameSet
    BY <1>1, TopIs DEF Top
  <2>2. QED
    BY <2>1 DEF FrameSet, CallSet
<1> PICK before : before = FlattenSeq(Trail(rest))
  OBVIOUS
<1>5. before \in Path
  <2>1. Trail(rest) \in Seq(Seq(Step))
    BY <1>3, TrailIs DEF Path
  <2>2. QED
    BY <2>1, FlattenType DEF Path
<1>6. paths = before \o path
  <2>1. Trail(stack) = Append(Trail(rest), path)
    BY <1>3, <1>4, TrailOfAppend
  <2>2. Trail(rest) \in Seq(Seq(Step)) /\ path \in Seq(Step)
    BY <1>3, <1>4, TrailIs DEF Path
  <2>3. FlattenSeq(Append(Trail(rest), path)) = FlattenSeq(Trail(rest)) \o path
    BY <2>2, FlattenAppend
  <2>4. paths = FlattenSeq(Trail(stack))
    BY DEF PathsBalanced, Trail
  <2>5. QED
    BY <2>1, <2>3, <2>4
<1>7. IsSuffix(path, paths) /\ SubSeq(paths, 1, Len(paths) - Len(path)) = before
  BY <1>4, <1>5, <1>6, SuffixPops
<1>8. panicked' = FALSE /\ stack' = rest
  BY <1>7 DEF Return
<1>9. paths' = before
  <2>1. paths' = Pop(path)
    BY <1>8 DEF Return
  <2>2. QED
    BY <1>7, <2>1 DEF Pop
<1>10. Returned(rest, path)
  BY <1>3, <1>4, <1>5, <1>6, <1>8, <1>9 DEF Returned
<1>11. QED
  BY <1>1, <1>2, <1>4, <1>10

Results == [done : BOOLEAN, ok : BOOLEAN, at : Path]

LEMMA ResultsAre ==
  ASSUME TypeInv
  PROVE  Ok \in Results /\ Running \in Results /\ ErrorPos \in Results /\ result \in Results
<1>1. <<>> \in Path
  BY PathsOf DEF NoPath
<1>2. paths \in Path /\ result \in Results
  BY DEF TypeInv, Results
<1>3. Ok \in Results /\ Running \in Results
  BY <1>1 DEF Ok, Running, Results
<1>4. ErrorPos \in Results
  BY <1>2 DEF ErrorPos, Results
<1>5. QED
  BY <1>2, <1>3, <1>4

LEMMA BalancedInit == Init => PathsBalanced
<1> SUFFICES ASSUME Init PROVE PathsBalanced
  OBVIOUS
<1>1. stack = <<>> /\ paths = <<>> /\ ~panicked
  BY DEF Init
<1>2. Trail(stack) = <<>>
  BY <1>1 DEF Trail
<1>3. FlattenSeq(<<>>) = <<>>
  BY DEF FlattenSeq
<1>4. paths = FlattenSeq(Trail(stack))
  BY <1>1, <1>2, <1>3
<1>5. QED
  BY <1>1, <1>4 DEF PathsBalanced, Trail

LEMMA StackNext ==
  TypeInv /\ PathsBalanced /\ [Next]_vars => TypeInv' /\ PathsBalanced'
<1> SUFFICES ASSUME TypeInv, PathsBalanced, [Next]_vars PROVE TypeInv' /\ PathsBalanced'
  OBVIOUS
<1>0. /\ scans > 0 => subject \in Schemas \X Datas
      /\ stack \in Seq(FrameSet) /\ paths \in Path /\ result \in Results
      /\ panicked \in BOOLEAN /\ scans \in Nat /\ (panicked = FALSE)
  BY DEF TypeInv, PathsBalanced, Results
<1>1. paths = FlattenSeq(Trail(stack))
  BY DEF PathsBalanced, Trail
<1> DEFINE Goal == /\ scans' > 0 => subject' \in Schemas \X Datas
                   /\ stack' \in Seq(FrameSet) /\ paths' \in Path /\ result' \in Results
                   /\ panicked' = FALSE /\ scans' \in Nat
                   /\ paths' = FlattenSeq(Trail(stack'))
<1>2. SUFFICES Goal
  BY DEF TypeInv, PathsBalanced, Trail, Results
<1>3. ASSUME NEW s \in Schemas, Validate(s) PROVE Goal
  <2>1. PICK d \in Datas, fr \in FrameSet :
          /\ fr.call = Scan(s, NoPath, d) /\ fr.started = FALSE
          /\ subject' = <<s, d>> /\ stack = <<>> /\ stack' = <<fr>>
          /\ paths' = <<>> /\ paths = <<>> /\ result' = Running
          /\ panicked' = panicked /\ scans' = scans + 1
    BY <1>3, ValidateIs
  <2>2. Trail(stack') = <<NoPath>>
    <3>1. fr.call.path = NoPath
      BY <2>1 DEF Scan, Call
    <3>2. stack' = <<fr>>
      BY <2>1
    <3>3. QED
      BY <3>1, <3>2 DEF Trail
  <2>3. FlattenSeq(Append(<<>>, NoPath)) = FlattenSeq(<<>>) \o NoPath
    <3> PICK none : none = <<>>
      OBVIOUS
    <3> none \in Seq(Seq(Step))
      BY EmptySeq
    <3>1. NoPath \in Seq(Step)
      BY DEF NoPath
    <3>2. FlattenSeq(Append(none, NoPath)) = FlattenSeq(none) \o NoPath
      BY ONLY <3>1, none \in Seq(Seq(Step)), FlattenAppend
    <3>3. QED
      BY <3>2
  <2>4. FlattenSeq(<<NoPath>>) = <<>>
    <3>1. Append(<<>>, NoPath) = <<NoPath>>
      OBVIOUS
    <3>2. FlattenSeq(<<>>) = <<>>
      BY DEF FlattenSeq
    <3>3. <<>> \o NoPath = <<>>
      BY DEF NoPath
    <3>4. QED
      BY <2>3, <3>1, <3>2, <3>3
  <2>5. <<>> \in Path /\ <<fr>> \in Seq(FrameSet) /\ Running \in Results
    BY PathsOf, ResultsAre DEF NoPath
  <2>6. QED
    BY <1>0, <2>1, <2>2, <2>4, <2>5
<1>4. ASSUME Look PROVE Goal
  <2>1. /\ subject' = subject /\ paths' = paths /\ panicked' = panicked /\ scans' = scans
        /\ \/ stack' = stack /\ result' = ErrorPos
           \/ \E calls : Started(calls)
    BY <1>4, LookIs
  <2>2. CASE stack' = stack /\ result' = ErrorPos
    BY <1>0, <1>1, <2>1, <2>2, ResultsAre
  <2>3. CASE \E calls : Started(calls)
    <3>1. Altered(stack, stack') /\ result' = result
      BY <2>3 DEF Started
    <3>2. stack' \in Seq(FrameSet) /\ Trail(stack') = Trail(stack)
      BY <1>0, <3>1, TrailOfAltered DEF Altered
    <3>3. QED
      BY <1>0, <1>1, <2>1, <3>1, <3>2
  <2>4. QED
    BY <2>1, <2>2, <2>3
<1>5. ASSUME Descend PROVE Goal
  <2>1. subject' = subject /\ result' = result /\ panicked' = panicked /\ scans' = scans
    BY <1>5, DescendIs
  <2>2. PICK mid, call, fr : Called(mid, call, fr)
    BY <1>5, DescendIs
  <2>3. /\ Altered(stack, mid) /\ call \in CallSet /\ fr \in FrameSet /\ fr.call = call
        /\ stack' = Append(mid, fr) /\ paths' = paths \o call.path
    BY <2>2 DEF Called
  <2>4. mid \in Seq(FrameSet) /\ Trail(mid) = Trail(stack)
    BY <1>0, <2>3, TrailOfAltered DEF Altered
  <2>5. Trail(stack') = Append(Trail(stack), call.path)
    BY <2>3, <2>4, TrailOfAppend
  <2>6. call.path \in Path
    BY <2>3 DEF CallSet
  <2>7. FlattenSeq(Append(Trail(stack), call.path)) = FlattenSeq(Trail(stack)) \o call.path
    <3>1. Trail(stack) \in Seq(Seq(Step)) /\ call.path \in Seq(Step)
      BY <1>0, <2>6, TrailIs DEF Path
    <3>2. QED
      BY <3>1, FlattenAppend
  <2>8. paths' = FlattenSeq(Trail(stack'))
    BY <1>1, <2>3, <2>5, <2>7
  <2>9. stack' \in Seq(FrameSet) /\ paths' \in Path
    <3>1. stack' \in Seq(FrameSet)
      BY <2>3, <2>4, AppendProperties
    <3>2. paths \o call.path \in Path
      BY <1>0, <2>6, ConcatProperties DEF Path
    <3>3. QED
      BY <2>3, <3>1, <3>2
  <2>10. QED
    BY <1>0, <2>1, <2>8, <2>9
<1>6. ASSUME Finish PROVE Goal
  <2>1. /\ subject' = subject /\ stack' = stack /\ paths' = paths
        /\ panicked' = panicked /\ scans' = scans /\ result' \in {ErrorPos, Ok}
    BY <1>6, FinishIs
  <2>2. QED
    BY <1>0, <1>1, <2>1, ResultsAre
<1>7. ASSUME Return PROVE Goal
  <2>1. subject' = subject /\ scans' = scans
    BY <1>7, ReturnIs
  <2>2. PICK rest, path : Returned(rest, path)
    BY <1>7, ReturnIs
  <2>3. /\ rest \in Seq(FrameSet) /\ stack' = rest /\ panicked' = FALSE
        /\ paths' \in Path /\ paths' = FlattenSeq(Trail(rest))
    BY <2>2 DEF Returned
  <2>4. result' \in {Running, [ErrorPos EXCEPT !.at = paths'], Ok, result}
    BY <1>7 DEF Return
  <2>5. [ErrorPos EXCEPT !.at = paths'] \in Results
    BY <2>3, ResultsAre DEF Results
  <2>6. result' \in Results
    BY <2>4, <2>5, ResultsAre
  <2>7. QED
    BY <1>0, <2>1, <2>3, <2>6
<1>8. CASE UNCHANGED vars
  <2>1. /\ subject' = subject /\ stack' = stack /\ paths' = paths /\ result' = result
        /\ panicked' = panicked /\ scans' = scans
    BY <1>8 DEF vars
  <2>2. QED
    BY <1>0, <1>1, <2>1
<1>9. QED
  BY <1>3, <1>4, <1>5, <1>6, <1>7, <1>8 DEF Next

\* The validator's own stack, paths, is that of the calls under way: popPath finds
\* what pushPath left there and never panics, whatever fails where, and a validator
\* that is used again begins with an empty path.
THEOREM PathsKept == Spec => []PathsBalanced
<1>1. Init => TypeInv /\ PathsBalanced
  BY InitTypes, BalancedInit
<1>2. QED
  BY <1>1, StackNext, PTL DEF Spec

-----------------------------------------------------------------------------
(* What the calls under way depend on.                                     *)

LEMMA AlteredHolds ==
  ASSUME NEW st \in Seq(FrameSet), st # <<>>, NEW tt, Altered(st, tt), NEW d1, NEW d2,
         CallsHold(st, d1),
         d2 = FALSE /\ tt[Len(st)].started = TRUE => Decide(tt[Len(st)].call, tt[Len(st)].todo)
  PROVE  CallsHold(tt, d2)
<1> PICK n \in Nat : n = Len(st)
  BY LenProperties
<1>1. /\ Len(tt) = n /\ \A i \in 1 .. n : tt[i].call = st[i].call
      /\ \A i \in 1 .. n : i # n => tt[i] = st[i]
  BY DEF Altered
<1>2. ASSUME NEW i \in 1 .. n PROVE CallHolds(tt, d2, i)
  <2>1. CASE i = n
    <3>1. Pending(tt, i) = tt[n].todo /\ ~(i < n)
      BY <1>1, <2>1 DEF Pending
    <3>2. QED
      BY <1>1, <2>1, <3>1 DEF CallHolds
  <2>2. CASE i # n
    <3> PICK j : j = i + 1
      OBVIOUS
    <3>1. i < n /\ j \in 1 .. n
      BY <2>2
    <3>2. tt[i] = st[i] /\ tt[j].call = st[j].call
      BY <1>1, <2>2, <3>1
    <3>3. Pending(tt, i) = Pending(st, i)
      BY <1>1, <2>2, <3>2 DEF Pending
    <3>4. CallHolds(st, d1, i)
      BY DEF CallsHold
    <3>5. QED
      BY <1>1, <3>1, <3>2, <3>3, <3>4 DEF CallHolds
  <2>3. QED
    BY <2>1, <2>2
<1>3. QED
  BY <1>1, <1>2 DEF CallsHold

LEMMA RestHolds ==
  ASSUME NEW st \in Seq(FrameSet), NEW rest \in Seq(FrameSet), Len(rest) = Len(st) - 1,
         \A i \in 1 .. Len(rest) : rest[i] = st[i],
         NEW d1, NEW d2, CallsHold(st, d1),
         d2 = FALSE /\ Len(rest) # 0 => Decide(rest[Len(rest)].call, rest[Len(rest)].todo)
  PROVE  CallsHold(rest, d2)
<1> PICK k \in Nat : k = Len(rest)
  BY LenProperties
<1> PICK n \in Nat : n = Len(st)
  BY LenProperties
<1>1. n = k + 1
  OBVIOUS
<1>2. ASSUME NEW i \in 1 .. k PROVE CallHolds(rest, d2, i)
  <2>1. rest[i] = st[i] /\ CallHolds(st, d1, i)
    BY <1>1 DEF CallsHold
  <2>2. CASE i = k
    <3>1. Pending(rest, i) = rest[k].todo /\ ~(i < k) /\ k # 0
      BY <2>2 DEF Pending
    <3>2. QED
      BY <2>2, <3>1 DEF CallHolds
  <2>3. CASE i # k
    <3> PICK j : j = i + 1
      OBVIOUS
    <3>1. i < k /\ i < n /\ j \in 1 .. k
      BY <1>1, <2>3
    <3>2. rest[j] = st[j]
      BY <3>1
    <3>3. Pending(rest, i) = Pending(st, i)
      BY <1>1, <2>1, <2>3, <3>1, <3>2 DEF Pending
    <3>4. QED
      BY <2>1, <3>1, <3>3 DEF CallHolds
  <2>4. QED
    BY <2>2, <2>3
<1>3. QED
  BY <1>2 DEF CallsHold

\* The calls a call waits for are the one above it, and those after that.
LEMMA WaitsFor ==
  ASSUME NEW st \in Seq(FrameSet), NEW rest \in Seq(FrameSet), Len(rest) = Len(st) - 1,
         \A i \in 1 .. Len(rest) : rest[i] = st[i], Len(rest) # 0,
         NEW d1, CallsHold(st, d1)
  PROVE  Decide(rest[Len(rest)].call, <<st[Len(st)].call>> \o rest[Len(rest)].todo)
<1> PICK k \in Nat : k = Len(rest)
  BY LenProperties
<1> PICK n \in Nat : n = Len(st)
  BY LenProperties
<1>1. n = k + 1 /\ k \in 1 .. n /\ k < n /\ k \in 1 .. k
  OBVIOUS
<1>2. CallHolds(st, d1, k) /\ rest[k] = st[k]
  BY <1>1 DEF CallsHold
<1>3. Pending(st, k) = <<st[n].call>> \o st[k].todo
  BY <1>1 DEF Pending
<1>4. QED
  BY <1>1, <1>2, <1>3 DEF CallHolds

LEMMA CalledHolds ==
  ASSUME NEW st \in Seq(FrameSet), st # <<>>, NEW mid, Altered(st, mid),
         st[Len(st)].started = TRUE, mid[Len(st)].started = TRUE,
         st[Len(st)].todo # <<>>, mid[Len(st)].todo = Tail(st[Len(st)].todo),
         NEW fr \in FrameSet, fr.call = Head(st[Len(st)].todo), fr.started = FALSE,
         NEW tt, tt = Append(mid, fr), CallsHold(st, FALSE)
  PROVE  CallsHold(tt, FALSE)
<1> PICK n \in Nat : n = Len(st)
  BY LenProperties
<1>1. /\ mid \in Seq(FrameSet) /\ Len(mid) = n /\ \A i \in 1 .. n : mid[i].call = st[i].call
      /\ \A i \in 1 .. n : i # n => mid[i] = st[i]
  BY DEF Altered
<1>2. Len(tt) = n + 1 /\ (\A i \in 1 .. n : tt[i] = mid[i]) /\ tt[n + 1] = fr
  BY <1>1, AppendProperties
<1>3. n # 0 /\ n \in 1 .. n /\ st[n].todo \in Seq(CallSet)
  BY TopIs
<1>4. ASSUME NEW i \in 1 .. n + 1 PROVE CallHolds(tt, FALSE, i)
  <2>1. CASE i = n + 1
    <3>1. tt[i].started = FALSE /\ ~(i < Len(tt))
      BY <1>2, <2>1
    <3>2. QED
      BY ONLY <3>1 DEF CallHolds
  <2>2. CASE i = n
    <3> PICK todo \in Seq(CallSet) : todo = st[n].todo
      BY <1>3
    <3>1. <<Head(todo)>> \o Tail(todo) = todo
      OBVIOUS
    <3>2. tt[n] = mid[n] /\ tt[n].call = st[n].call /\ tt[n].todo = Tail(todo)
      BY <1>1, <1>2, <1>3
    <3>3. Pending(tt, n) = <<fr.call>> \o Tail(todo)
      <4>1. n # Len(tt)
        BY <1>2
      <4>2. Pending(tt, n) = <<tt[n + 1].call>> \o tt[n].todo
        BY ONLY <4>1 DEF Pending
      <4>3. QED
        BY ONLY <1>2, <3>2, <4>2
    <3>4. Decide(st[n].call, todo)
      <4>1. CallHolds(st, FALSE, n)
        BY <1>3 DEF CallsHold
      <4>2. Pending(st, n) = todo
        BY DEF Pending
      <4>3. QED
        BY <4>1, <4>2 DEF CallHolds
    <3>5. Pending(tt, n) = todo
      BY <3>1, <3>3
    <3>6. Decide(tt[n].call, Pending(tt, n)) /\ tt[n].started = TRUE
      BY <3>2, <3>4, <3>5
    <3>7. QED
      BY ONLY <2>2, <3>6 DEF CallHolds
  <2>3. CASE i < n
    <3> PICK j : j = i + 1
      OBVIOUS
    <3>1. i \in 1 .. n /\ j \in 1 .. n /\ i # n /\ i # Len(tt)
      BY <1>2, <2>3
    <3>2. tt[i] = st[i] /\ tt[j].call = st[j].call
      BY <1>1, <1>2, <3>1
    <3>3. Pending(tt, i) = Pending(st, i)
      BY <3>1, <3>2 DEF Pending
    <3>4. CallHolds(st, FALSE, i)
      BY <3>1 DEF CallsHold
    <3>5. QED
      BY <1>2, <2>3, <3>2, <3>3, <3>4 DEF CallHolds
  <2>4. i = n + 1 \/ i = n \/ i < n
    OBVIOUS
  <2>5. QED
    BY ONLY <2>1, <2>2, <2>3, <2>4
<1>5. QED
  BY <1>2, <1>4 DEF CallsHold

\* What is left to decide once the first of the calls has returned.
LEMMA FirstOf ==
  ASSUME NEW c \in CallSet, NEW todo \in Seq(CallSet), NEW calls, calls = <<c>> \o todo
  PROVE  /\ calls \in Seq(CallSet) /\ Len(calls) = Len(todo) + 1 /\ calls[1] = c
         /\ \A i \in 1 .. Len(todo) : calls[i + 1] = todo[i]
         /\ AllUnder(calls) = Under(c) \cup AllUnder(todo)
<1> PICK one : one = <<c>>
  OBVIOUS
<1>1. one \in Seq(CallSet) /\ Len(one) = 1 /\ one[1] = c
  OBVIOUS
<1> PICK n \in Nat : n = Len(todo)
  BY LenProperties
<1>2. /\ calls \in Seq(CallSet) /\ Len(calls) = 1 + n
      /\ \A i \in 1 .. 1 + n : calls[i] = IF i <= 1 THEN one[i] ELSE todo[i - 1]
  BY <1>1, ConcatProperties
<1>3. calls[1] = c
  BY <1>1, <1>2
<1>4. ASSUME NEW i \in 1 .. n PROVE calls[i + 1] = todo[i]
  <2>1. i + 1 \in 1 .. 1 + n /\ ~(i + 1 <= 1) /\ (i + 1) - 1 = i
    OBVIOUS
  <2>2. QED
    BY <1>2, <2>1
<1>5. AllUnder(calls) = Under(c) \cup AllUnder(todo)
  BY <1>1, AllUnderConcat, AllUnderOne
<1>6. QED
  BY <1>2, <1>3, <1>4, <1>5

LEMMA ChoiceFailed ==
  ASSUME NEW d \in CallSet, KindOf(d) = "anyOf", NEW c \in CallSet, NEW todo \in Seq(CallSet),
         Decide(d, <<c>> \o todo), Wrong(c) # {}
  PROVE  Decide(d, todo)
<1> PICK calls : calls = <<c>> \o todo
  OBVIOUS
<1> PICK n \in Nat : n = Len(todo)
  BY LenProperties
<1>1. Len(calls) = n + 1 /\ calls[1] = c /\ \A i \in 1 .. n : calls[i + 1] = todo[i]
  BY FirstOf
<1>2. Wrong(d) = Here(\A i \in 1 .. n + 1 : Wrong(calls[i]) # {})
  BY <1>1 DEF Decide
<1>3. (\A i \in 1 .. n + 1 : Wrong(calls[i]) # {}) <=> \A i \in 1 .. n : Wrong(todo[i]) # {}
  <2>1. ASSUME NEW i \in 1 .. n + 1, \A j \in 1 .. n : Wrong(todo[j]) # {}
        PROVE  Wrong(calls[i]) # {}
    <3>1. CASE i = 1
      BY <1>1, <3>1
    <3>2. CASE i # 1
      <4> PICK j : j = i - 1
        OBVIOUS
      <4>1. j \in 1 .. n /\ i = j + 1
        BY <3>2
      <4>2. calls[i] = todo[j]
        BY <1>1, <4>1
      <4>3. QED
        BY <2>1, <4>1, <4>2
    <3>3. QED
      BY <3>1, <3>2
  <2>2. ASSUME NEW j \in 1 .. n, \A i \in 1 .. n + 1 : Wrong(calls[i]) # {}
        PROVE  Wrong(todo[j]) # {}
    <3> PICK i : i = j + 1
      OBVIOUS
    <3>1. i \in 1 .. n + 1 /\ calls[i] = todo[j]
      BY <1>1
    <3>2. QED
      BY <2>2, <3>1
  <2>3. QED
    BY <2>1, <2>2
<1>4. Wrong(d) = Here(\A i \in 1 .. n : Wrong(todo[i]) # {})
  BY ONLY <1>2, <1>3 DEF Here
<1>5. QED
  BY <1>4 DEF Decide

LEMMA ChoiceFound ==
  ASSUME NEW d \in CallSet, KindOf(d) = "anyOf", NEW c \in CallSet, NEW todo \in Seq(CallSet),
         Decide(d, <<c>> \o todo), Wrong(c) = {}
  PROVE  Wrong(d) = {}
<1> PICK calls : calls = <<c>> \o todo
  OBVIOUS
<1>1. calls[1] = c /\ 1 \in 1 .. Len(calls)
  <2>1. Len(todo) \in Nat
    BY LenProperties
  <2>2. QED
    BY <2>1, FirstOf
<1>2. Wrong(d) = Here(\A i \in 1 .. Len(calls) : Wrong(calls[i]) # {})
  BY DEF Decide
<1>3. ~(\A i \in 1 .. Len(calls) : Wrong(calls[i]) # {})
  BY <1>1
<1>4. QED
  BY <1>2, <1>3 DEF Here

LEMMA NotReturns ==
  ASSUME NEW d \in CallSet, KindOf(d) = "not", NEW c \in CallSet, NEW todo \in Seq(CallSet),
         Decide(d, <<c>> \o todo)
  PROVE  Wrong(d) = Here(Wrong(c) = {})
<1> PICK calls : calls = <<c>> \o todo
  OBVIOUS
<1>1. calls[1] = c
  BY FirstOf
<1>2. Wrong(d) = Here(Wrong(calls[1]) = {})
  BY DEF Decide
<1>3. QED
  BY <1>1, <1>2

LEMMA OtherReturns ==
  ASSUME NEW d \in CallSet, KindOf(d) \notin {"anyOf", "not"}, NEW c \in CallSet,
         NEW todo \in Seq(CallSet), Decide(d, <<c>> \o todo)
  PROVE  /\ Under(c) \in SUBSET Wrong(d)
         /\ Wrong(c) = {} => Decide(d, todo)
<1> PICK calls : calls = <<c>> \o todo
  OBVIOUS
<1>1. Wrong(d) = AllUnder(calls)
  BY DEF Decide
<1>2. Wrong(d) = Under(c) \cup AllUnder(todo)
  BY <1>1, FirstOf
<1>3. Wrong(c) = {} => Under(c) = {}
  BY DEF Under, Below
<1>4. Wrong(c) = {} => Wrong(d) = AllUnder(todo)
  BY <1>2, <1>3
<1>5. QED
  BY <1>2, <1>4 DEF Decide

-----------------------------------------------------------------------------
(* The verdict.                                                            *)

AllRight == TypeInv /\ PathsBalanced /\ CallsInv /\ VerdictInv

LEMMA RightInit ==
  ASSUME Init
  PROVE  CallsInv /\ VerdictInv
<1>1. stack = <<>> /\ scans = 0
  BY DEF Init
<1>2. Len(stack) = 0 /\ ~Over
  BY <1>1 DEF Over
<1>3. CallsInv
  BY <1>2 DEF CallsInv, CallsHold
<1>4. QED
  BY <1>1, <1>2, <1>3 DEF VerdictInv

\* What has to be shown of a step.
RightNext ==
  /\ CallsHold(stack', result'.done)
  /\ stack' # <<>> /\ result'.done = TRUE =>
       Right(result', paths', Wrong(stack'[Len(stack')].call))
  /\ stack' # <<>> => /\ stack'[1].call = Scan(subject'[1], NoPath, subject'[2])
                      /\ scans' > 0
  /\ scans' > 0 /\ stack' = <<>> => Right(result', <<>>, Faults[subject'])

LEMMA NextRight == RightNext => CallsInv' /\ VerdictInv'
BY DEF RightNext, CallsInv, VerdictInv, Over, Top

LEMMA ErrorIsRight ==
  ASSUME NEW path \in Path, NEW res, res.ok = FALSE, res.at = path,
         NEW places, <<>> \in places
  PROVE  Right(res, path, places)
<1>1. path = path \o <<>>
  BY ConcatEmptySeq DEF Path
<1>2. QED
  BY <1>1 DEF Right

LEMMA OkIsRight ==
  ASSUME NEW path, NEW res, res.ok = TRUE
  PROVE  Right(res, path, {})
BY DEF Right

LEMMA ValidateRight ==
  ASSUME AllRight, NEW s \in Schemas, Validate(s)
  PROVE  RightNext
<1>1. PICK d \in Datas, fr \in FrameSet :
        /\ fr.call = Scan(s, NoPath, d) /\ fr.started = FALSE
        /\ subject' = <<s, d>> /\ stack = <<>> /\ stack' = <<fr>>
        /\ paths' = <<>> /\ paths = <<>> /\ result' = Running
        /\ panicked' = panicked /\ scans' = scans + 1
  BY ValidateIs DEF AllRight
<1>2. scans \in Nat
  BY DEF AllRight, TypeInv
<1>3. Len(stack') = 1 /\ stack'[1] = fr /\ stack' # <<>>
  BY <1>1
<1>4. result'.done = FALSE
  BY <1>1 DEF Running
<1>5. CallsHold(stack', result'.done)
  <2> PICK tt : tt = stack'
    OBVIOUS
  <2>1. ~(1 < Len(tt)) /\ tt[1].started = FALSE
    <3>1. Len(tt) = 1 /\ tt[1] = fr
      BY ONLY <1>3, tt = stack'
    <3>2. QED
      BY <1>1, <3>1
  <2>2. CallHolds(tt, result'.done, 1)
    BY ONLY <2>1 DEF CallHolds
  <2>3. \A i \in 1 .. Len(tt) : i = 1
    BY <1>3
  <2>4. QED
    BY <2>2, <2>3 DEF CallsHold
<1>6. stack'[1].call = Scan(subject'[1], NoPath, subject'[2]) /\ scans' > 0
  BY <1>1, <1>2, <1>3
<1>7. QED
  BY <1>3, <1>4, <1>5, <1>6 DEF RightNext

LEMMA LookRight ==
  ASSUME SchemasAreTrees, AllRight, Look
  PROVE  RightNext
<1> stack \in Seq(FrameSet) /\ paths \in Path
  BY DEF AllRight, TypeInv
<1> PICK n \in Nat : n = Len(stack)
  BY LenProperties
<1>1. /\ stack # <<>> /\ Top.started = FALSE /\ result.done = FALSE /\ Top.call \in CallSet
      /\ subject' = subject /\ paths' = paths /\ scans' = scans
      /\ \/ Refuses(Top.call) /\ stack' = stack /\ result' = ErrorPos
         \/ \E calls : Started(calls)
  BY LookIs DEF AllRight
<1>2. /\ CallsHold(stack, result.done)
      /\ stack[1].call = Scan(subject[1], NoPath, subject[2]) /\ scans > 0
  BY <1>1 DEF AllRight, CallsInv, VerdictInv
<1>3. CASE Refuses(Top.call) /\ stack' = stack /\ result' = ErrorPos
  <2>1. <<>> \in Wrong(Top.call)
    BY <1>1, <1>3, RefusedIsWrong
  <2>2. result'.done = TRUE /\ result'.ok = FALSE /\ result'.at = paths
    BY <1>3 DEF ErrorPos
  <2>3. Right(result', paths, Wrong(Top.call))
    BY <2>1, <2>2, ErrorIsRight
  <2>4. Altered(stack, stack)
    BY DEF Altered
  <2>5. CallsHold(stack, TRUE)
    BY <1>1, <1>2, <2>4, AlteredHolds
  <2>6. QED
    BY <1>1, <1>2, <1>3, <2>2, <2>3, <2>5 DEF RightNext, Top
<1>4. CASE \E calls : Started(calls)
  <2> PICK calls : Started(calls)
    BY <1>4
  <2>1. /\ calls \in Calls(Top.call) /\ calls \in Seq(CallSet) /\ ~Refuses(Top.call)
        /\ Altered(stack, stack') /\ stack'[n].todo = calls /\ result' = result
    BY DEF Started
  <2>2. Decide(Top.call, calls)
    BY <1>1, <2>1, CallsProper DEF Proper
  <2>3. n # 0 /\ Len(stack') = n /\ stack'[n].call = stack[n].call /\ stack'[1].call = stack[1].call
    <3>1. n # 0
      BY <1>1, TopIs
    <3>2. n \in 1 .. n /\ 1 \in 1 .. n
      BY <3>1
    <3>3. QED
      BY <2>1, <3>1, <3>2 DEF Altered
  <2>4. Decide(stack'[n].call, stack'[n].todo)
    BY <2>1, <2>2, <2>3 DEF Top
  <2>5. CallsHold(stack', FALSE)
    <3> PICK tt : tt = stack'
      OBVIOUS
    <3>1. Altered(stack, tt) /\ Decide(tt[n].call, tt[n].todo)
      BY <2>1, <2>4
    <3>2. CallsHold(tt, FALSE)
      BY <1>1, <1>2, <3>1, AlteredHolds
    <3>3. QED
      BY <3>2
  <2>6. result'.done = FALSE /\ stack' # <<>>
    BY <1>1, <2>1, <2>3
  <2>7. QED
    BY <1>1, <1>2, <2>3, <2>5, <2>6 DEF RightNext
<1>5. QED
  BY <1>1, <1>3, <1>4

LEMMA DescendRight ==
  ASSUME AllRight, Descend
  PROVE  RightNext
<1> stack \in Seq(FrameSet)
  BY DEF AllRight, TypeInv
<1> PICK n \in Nat : n = Len(stack)
  BY LenProperties
<1>1. /\ stack # <<>> /\ Top.started = TRUE /\ result.done = FALSE /\ Top.todo # <<>>
      /\ subject' = subject /\ result' = result /\ scans' = scans
  BY DescendIs DEF AllRight
<1>2. PICK mid, call, fr : Called(mid, call, fr)
  BY DescendIs DEF AllRight
<1>3. /\ CallsHold(stack, FALSE)
      /\ stack[1].call = Scan(subject[1], NoPath, subject[2]) /\ scans > 0
  BY <1>1 DEF AllRight, CallsInv, VerdictInv
<1>4. /\ Altered(stack, mid) /\ mid[n].started = stack[n].started
      /\ mid[n].todo = Tail(stack[n].todo)
      /\ fr \in FrameSet /\ fr.call = Head(stack[n].todo) /\ fr.started = FALSE
      /\ stack' = Append(mid, fr)
  BY <1>2 DEF Called, Top
<1> PICK tt : tt = stack'
  OBVIOUS
<1>5. CallsHold(tt, FALSE)
  <2>1. stack[n].started = TRUE /\ stack[n].todo # <<>> /\ mid[n].started = TRUE
    BY <1>1, <1>4 DEF Top
  <2>2. tt = Append(mid, fr)
    BY <1>4
  <2>3. QED
    BY ONLY <1>1, <1>3, <1>4, <2>1, <2>2, CalledHolds, stack \in Seq(FrameSet), n = Len(stack)
<1>6. tt # <<>> /\ tt[1].call = stack[1].call
  <2>1. n # 0 /\ mid \in Seq(FrameSet) /\ Len(mid) = n /\ \A i \in 1 .. n : mid[i].call = stack[i].call
    BY <1>1, <1>4, TopIs DEF Altered
  <2>2. tt # <<>> /\ \A i \in 1 .. n : tt[i] = mid[i]
    BY <1>4, <2>1, AppendProperties
  <2>3. 1 \in 1 .. n
    BY <2>1
  <2>4. QED
    BY <2>1, <2>2, <2>3
<1>7. QED
  BY <1>1, <1>3, <1>5, <1>6 DEF RightNext

LEMMA FinishRight ==
  ASSUME AllRight, Finish
  PROVE  RightNext
<1> stack \in Seq(FrameSet) /\ paths \in Path
  BY DEF AllRight, TypeInv
<1> PICK n \in Nat : n = Len(stack)
  BY LenProperties
<1>1. /\ stack # <<>> /\ Top.started = TRUE /\ result.done = FALSE /\ Top.todo = <<>>
      /\ Top.call \in CallSet
      /\ result' = IF KindOf(Top.call) = "anyOf" THEN ErrorPos ELSE Ok
      /\ subject' = subject /\ stack' = stack /\ paths' = paths /\ scans' = scans
  BY FinishIs DEF AllRight
<1>2. /\ CallsHold(stack, FALSE)
      /\ stack[1].call = Scan(subject[1], NoPath, subject[2]) /\ scans > 0
  BY <1>1 DEF AllRight, CallsInv, VerdictInv
<1>3. Decide(Top.call, <<>>)
  <2>1. n \in 1 .. n
    BY <1>1, TopIs
  <2>2. CallHolds(stack, FALSE, n)
    BY <1>2, <2>1 DEF CallsHold
  <2>3. Pending(stack, n) = <<>> /\ stack[n].started = TRUE
    BY <1>1 DEF Pending, Top
  <2>4. QED
    BY <2>2, <2>3 DEF CallHolds, Top
<1>4. result'.done = TRUE /\ Right(result', paths, Wrong(Top.call))
  <2>1. CASE KindOf(Top.call) = "anyOf"
    <3>1. Wrong(Top.call) = Here(\A i \in 1 .. Len(<<>>) : Wrong(<<>>[i]) # {})
      BY <1>3, <2>1 DEF Decide
    <3>2. \A i \in 1 .. Len(<<>>) : Wrong(<<>>[i]) # {}
      OBVIOUS
    <3>3. <<>> \in Wrong(Top.call)
      BY ONLY <3>1, <3>2 DEF Here
    <3>4. result'.done = TRUE /\ result'.ok = FALSE /\ result'.at = paths
      BY <1>1, <2>1 DEF ErrorPos
    <3>5. QED
      BY <3>3, <3>4, ErrorIsRight
  <2>2. CASE KindOf(Top.call) # "anyOf"
    <3>1. KindOf(Top.call) # "not"
      <4>1. KindOf(Top.call) = "not" => Len(<<>>) = 1
        BY <1>3 DEF Decide
      <4>2. Len(<<>>) = 0
        OBVIOUS
      <4>3. QED
        BY ONLY <4>1, <4>2
    <3>2. Wrong(Top.call) = {}
      BY <1>3, <2>2, <3>1, AllUnderNone DEF Decide
    <3>3. result'.done = TRUE /\ result'.ok = TRUE
      BY <1>1, <2>2 DEF Ok
    <3>4. QED
      BY <3>2, <3>3, OkIsRight
  <2>3. QED
    BY <2>1, <2>2
<1>5. CallsHold(stack, TRUE)
  <2>1. Altered(stack, stack)
    BY DEF Altered
  <2>2. QED
    BY <1>1, <1>2, <2>1, AlteredHolds
<1>6. QED
  BY <1>1, <1>2, <1>4, <1>5 DEF RightNext, Top

\* A call of rest, the caller, is next if there is one.
LEMMA ReturnToNobody ==
  ASSUME AllRight, Return, NEW rest, NEW path, Returned(rest, path), rest = <<>>
  PROVE  RightNext
<1>1. /\ stack # <<>> /\ result.done = TRUE /\ Top.call \in CallSet
      /\ subject' = subject /\ scans' = scans
  BY ReturnIs DEF AllRight
<1>2. /\ stack' = <<>> /\ Len(stack) = 1 /\ paths' \in Path /\ path \in Path
      /\ paths = paths' \o path /\ paths' = FlattenSeq(Trail(rest)) /\ path = Top.call.path
  <2>1. /\ stack' = <<>> /\ Len(rest) = Len(stack) - 1 /\ stack \in Seq(FrameSet)
    BY DEF Returned, AllRight, TypeInv
  <2>2. Len(stack) \in Nat /\ Len(rest) = 0
    BY <2>1, LenProperties
  <2>3. QED
    BY <2>1, <2>2 DEF Returned
<1>3. /\ Right(result, paths, Wrong(Top.call)) /\ scans > 0
      /\ Top.call = Scan(subject[1], NoPath, subject[2])
  BY <1>1, <1>2 DEF AllRight, VerdictInv, Top
<1>4. path = <<>> /\ Wrong(Top.call) = Faults[subject]
  <2>1. subject \in Schemas \X Datas
    BY <1>3 DEF AllRight, TypeInv
  <2>2. subject = <<subject[1], subject[2]>>
    BY <2>1
  <2> PICK s : s = subject[1]
    OBVIOUS
  <2> PICK d : d = subject[2]
    OBVIOUS
  <2>3. Top.call.path = NoPath /\ Top.call.what = "scan" /\ Top.call.schema = s /\ Top.call.data = d
    BY <1>3 DEF Scan, Call
  <2>4. Wrong(Top.call) = Faults[<<s, d>>]
    BY <2>3 DEF Wrong
  <2>5. QED
    BY <1>2, <2>2, <2>3, <2>4 DEF NoPath
<1>5. paths = <<>>
  <2>1. Trail(rest) = <<>>
    BY DEF Trail
  <2>2. paths' = <<>>
    BY <1>2, <2>1 DEF FlattenSeq
  <2>3. QED
    BY <1>2, <1>4, <2>2
<1>6. result' = result
  BY DEF Return, Returned
<1>7. Right(result', <<>>, Faults[subject'])
  BY <1>1, <1>3, <1>4, <1>5, <1>6
<1>8. CallsHold(<<>>, result'.done)
  BY DEF CallsHold
<1>9. QED
  BY <1>2, <1>7, <1>8 DEF RightNext

LEMMA ReturnToCaller ==
  ASSUME SchemasAreTrees, AllRight, Return, NEW rest, NEW path, Returned(rest, path), rest # <<>>
  PROVE  RightNext
<1> PICK c : c = Top.call
  OBVIOUS
<1> PICK k \in Nat : k = Len(rest)
  BY LenProperties DEF Returned
<1> PICK d : d = rest[k].call
  OBVIOUS
<1> PICK todo : todo = rest[k].todo
  OBVIOUS
<1>1. /\ stack # <<>> /\ result.done = TRUE /\ c \in CallSet
      /\ subject' = subject /\ scans' = scans
  BY ReturnIs DEF AllRight
<1>2. /\ rest \in Seq(FrameSet) /\ stack' = rest /\ Len(rest) = Len(stack) - 1
      /\ stack[Len(stack)].call = c /\ \A i \in 1 .. Len(rest) : rest[i] = stack[i]
      /\ paths' \in Path /\ path \in Path /\ paths = paths' \o path /\ path = c.path
  BY DEF Returned, Top
<1>3. /\ k # 0 /\ d \in CallSet /\ todo \in Seq(CallSet)
  BY <1>2, TopIs
<1>4. /\ CallsHold(stack, TRUE) /\ Right(result, paths, Wrong(c))
      /\ stack[1].call = Scan(subject[1], NoPath, subject[2]) /\ scans > 0
  BY <1>1 DEF AllRight, CallsInv, VerdictInv
<1>5. stack \in Seq(FrameSet) /\ result.ok \in BOOLEAN /\ paths \in Path
  BY DEF AllRight, TypeInv
<1>6. Decide(d, <<c>> \o todo)
  BY <1>2, <1>3, <1>4, <1>5, WaitsFor
<1>7. rest[1].call = Scan(subject[1], NoPath, subject[2])
  <2>1. 1 \in 1 .. Len(rest)
    BY <1>3
  <2>2. QED
    BY <1>2, <1>4, <2>1
<1> PICK caller : caller = KindOf(d)
  OBVIOUS
<1>8. result' = CASE caller = "anyOf" /\ ~result.ok -> Running
                  [] caller = "not" -> IF result.ok THEN [ErrorPos EXCEPT !.at = paths'] ELSE Ok
                  [] caller \notin {"anyOf", "not", "nobody"} /\ result.ok -> Running
                  [] OTHER -> result
  <2>1. Front(stack) = rest /\ Last(rest) = rest[k]
    BY DEF Returned, Last
  <2>2. caller = IF Front(stack) = <<>> THEN "nobody" ELSE KindOf(Last(Front(stack)).call)
    BY <2>1
  <2>3. QED
    BY <2>2 DEF Return
<1>9. caller # "nobody"
  <2>1. d.what \in {"scan", "params", "absent", "overlong"} /\ Shape[d.schema].kind \in Kinds
    BY <1>3, ValidatorAssumption DEF CallSet, IsShape
  <2>2. QED
    BY <2>1 DEF KindOf, Kinds
\* What is left to show.
<1>10. ASSUME result'.done = FALSE => Decide(d, todo),
              result'.done = TRUE => Right(result', paths', Wrong(d))
       PROVE  RightNext
  <2> PICK done : done = result'.done
    OBVIOUS
  <2>1. done = FALSE /\ Len(rest) # 0 => Decide(rest[Len(rest)].call, rest[Len(rest)].todo)
    BY <1>10
  <2>2. CallsHold(rest, done)
    BY ONLY <1>2, <1>4, <1>5, <2>1, RestHolds
  <2>3. QED
    BY <1>1, <1>2, <1>4, <1>7, <1>10, <2>2 DEF RightNext
<1>11. Wrong(c) = {} <=> result.ok = TRUE
  BY <1>4 DEF Right
<1>12. CASE caller = "anyOf" /\ result.ok = FALSE
  <2>1. result'.done = FALSE
    BY <1>8, <1>12 DEF Running
  <2>2. Decide(d, todo)
    BY <1>1, <1>3, <1>6, <1>11, <1>12, ChoiceFailed
  <2>3. QED
    BY <1>10, <2>1, <2>2
<1>13. CASE caller = "anyOf" /\ result.ok = TRUE
  <2>1. result' = result
    BY <1>8, <1>13
  <2>2. Wrong(d) = {}
    BY <1>1, <1>3, <1>6, <1>11, <1>13, ChoiceFound
  <2>3. QED
    BY <1>1, <1>10, <1>13, <2>1, <2>2, OkIsRight
<1>14. CASE caller = "not"
  <2>1. Wrong(d) = Here(Wrong(c) = {})
    BY <1>1, <1>3, <1>6, <1>14, NotReturns
  <2>2. CASE result.ok = TRUE
    <3>1. result' = [ErrorPos EXCEPT !.at = paths']
      BY <1>8, <1>14, <2>2
    <3>2. result'.done = TRUE /\ result'.ok = FALSE /\ result'.at = paths'
      BY <3>1 DEF ErrorPos
    <3>3. <<>> \in Wrong(d)
      BY <1>11, <2>1, <2>2 DEF Here
    <3>4. QED
      BY <1>2, <1>10, <3>2, <3>3, ErrorIsRight
  <2>3. CASE result.ok = FALSE
    <3>1. result' = Ok
      BY <1>8, <1>14, <2>3
    <3>2. Wrong(d) = {}
      BY <1>11, <2>1, <2>3 DEF Here
    <3>3. result'.done = TRUE /\ result'.ok = TRUE
      BY <3>1 DEF Ok
    <3>4. QED
      BY <1>10, <3>2, <3>3, OkIsRight
  <2>4. QED
    BY <1>5, <2>2, <2>3
<1>15. CASE caller \notin {"anyOf", "not"} /\ result.ok = TRUE
  <2>1. result'.done = FALSE
    BY <1>8, <1>9, <1>15 DEF Running
  <2>2. Decide(d, todo)
    BY <1>1, <1>3, <1>6, <1>11, <1>15, OtherReturns
  <2>3. QED
    BY <1>10, <2>1, <2>2
<1>16. CASE caller \notin {"anyOf", "not"} /\ result.ok = FALSE
  <2>1. result' = result
    BY <1>8, <1>16
  <2>2. PICK p \in Wrong(c) : result.at = paths \o p
    BY <1>4, <1>11, <1>16 DEF Right
  <2>3. path \o p \in Wrong(d)
    <3>1. path \o p \in Under(c)
      BY <1>2, <2>2 DEF Under, Below
    <3>2. Under(c) \in SUBSET Wrong(d)
      BY <1>1, <1>3, <1>6, <1>16, OtherReturns
    <3>3. QED
      BY <3>1, <3>2
  <2>4. result.at = paths' \o (path \o p)
    <3>1. p \in Path
      BY <1>1, <2>2, WrongType
    <3> PICK before \in Path : before = paths'
      BY <1>2
    <3>2. (before \o path) \o p = before \o (path \o p)
      <4>1. before \in Seq(Step) /\ path \in Seq(Step) /\ p \in Seq(Step)
        BY <1>2, <3>1 DEF Path
      <4>2. QED
        BY ONLY <4>1, ConcatAssociative
    <3>3. QED
      BY <1>2, <2>2, <3>2
  <2>5. Right(result, paths', Wrong(d))
    BY <1>16, <2>3, <2>4 DEF Right
  <2>6. result'.done = TRUE /\ Right(result', paths', Wrong(d))
    BY <1>1, <2>1, <2>5
  <2>7. QED
    BY ONLY <1>10, <2>6
<1>17. QED
  BY <1>5, <1>12, <1>13, <1>14, <1>15, <1>16

LEMMA StepRight ==
  ASSUME SchemasAreTrees
  PROVE  AllRight /\ [Next]_vars => AllRight'
<1> SUFFICES ASSUME AllRight, [Next]_vars PROVE AllRight'
  OBVIOUS
<1>1. TypeInv' /\ PathsBalanced'
  BY StackNext DEF AllRight
<1>2. ASSUME NEW s \in Schemas, Validate(s) PROVE CallsInv' /\ VerdictInv'
  BY <1>2, ValidateRight, NextRight
<1>3. ASSUME Look PROVE CallsInv' /\ VerdictInv'
  BY <1>3, LookRight, NextRight
<1>4. ASSUME Descend PROVE CallsInv' /\ VerdictInv'
  BY <1>4, DescendRight, NextRight
<1>5. ASSUME Finish PROVE CallsInv' /\ VerdictInv'
  BY <1>5, FinishRight, NextRight
<1>6. ASSUME Return PROVE CallsInv' /\ VerdictInv'
  <2>1. PICK rest, path : Returned(rest, path)
    BY <1>6, ReturnIs DEF AllRight
  <2>2. RightNext
    BY <1>6, <2>1, ReturnToNobody, ReturnToCaller
  <2>3. QED
    BY <2>2, NextRight
<1>7. ASSUME UNCHANGED vars PROVE CallsInv' /\ VerdictInv'
  <2>1. /\ subject' = subject /\ stack' = stack /\ paths' = paths /\ result' = result
        /\ scans' = scans
    BY <1>7 DEF vars
  <2>2. CallsInv /\ VerdictInv
    BY DEF AllRight
  <2>3. CallsInv'
    BY <2>1, <2>2 DEF CallsInv
  <2>4. VerdictInv'
    BY <2>1, <2>2 DEF VerdictInv, Over, Top
  <2>5. QED
    BY <2>3, <2>4
<1>8. CallsInv' /\ VerdictInv'
  BY <1>2, <1>3, <1>4, <1>5, <1>6, <1>7 DEF Next
<1>9. QED
  BY <1>1, <1>8 DEF AllRight

LEMMA RightVerdict ==
  ASSUME SchemasAreTrees, AllRight
  PROVE  VerdictRight
<1> SUFFICES ASSUME Over
             PROVE  IF Faults[subject] = {} THEN result.ok
                    ELSE ~result.ok /\ result.at \in Faults[subject]
  BY DEF VerdictRight
<1>1. Right(result, <<>>, Faults[subject])
  BY DEF AllRight, VerdictInv
<1>2. subject \in Schemas \X Datas
  BY DEF AllRight, TypeInv, Over
<1>3. CASE Faults[subject] = {}
  BY <1>1, <1>3 DEF Right
<1>4. CASE Faults[subject] # {}
  <2>1. result.ok = FALSE
    BY <1>1, <1>4 DEF Right
  <2>2. PICK p \in Faults[subject] : result.at = <<>> \o p
    BY <1>1, <1>4 DEF Right
  <2>3. p \in Seq(Step)
    BY <1>2, FaultsAre DEF Path
  <2>4. <<>> \o p = p
    BY <2>3, ConcatEmptySeq
  <2>5. QED
    BY <1>4, <2>1, <2>2, <2>4
<1>5. QED
  BY <1>3, <1>4

\* The validation accepts a value if and only if it fits the schema, however deep and
\* whatever the order in which the properties of an object are visited, and otherwise
\* reports an error at a place where something is wrong.  Schemas are built from
\* documents, so they are trees.
THEOREM Verdicts == SchemasAreTrees /\ Spec => []VerdictRight
<1> SUFFICES ASSUME SchemasAreTrees PROVE Spec => []VerdictRight
  OBVIOUS
<1>1. Init => AllRight
  BY InitTypes, BalancedInit, RightInit DEF AllRight
<1>2. AllRight /\ [Next]_vars => AllRight'
  BY StepRight
<1>3. AllRight => VerdictRight
  BY RightVerdict
<1>4. QED
  BY <1>1, <1>2, <1>3, PTL DEF Spec

=============================================================================
