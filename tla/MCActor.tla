------------------------------ MODULE MCActor ------------------------------
(* A tree of up to four actors, two of them children of the root, what may *)
(* be registered with them, and messages to feed it.                       *)
EXTENDS Exchange

CONSTANTS top, left, right, deep   \* actors

MayRegister == {<<top, "n", "plain">>, <<left, "n", "schema">>, <<left, "m", "plain">>,
                <<right, "m", "schema">>, <<deep, "m", "schema">>, <<deep, "n", "plain">>}
MayLink == {<<top, left>>, <<top, right>>, <<left, deep>>}

Id(type) == [type |-> type, val |-> 1]
Given == {Params(TRUE, <<>>), Params(TRUE, <<"atom", "slice">>), Params(TRUE, <<"nil">>),
          Params(FALSE, <<"atom">>), Params(FALSE, <<"typed slice">>), Params(FALSE, <<"nil">>)}
Calls == {SetTraceId(NewRequestMessage(Id(type), "m", params), "t") :
            type \in {"int", "string"}, params \in Given}
           \cup {SetTraceId(NewRequestMessage(Id(type), "m", Params(TRUE, <<"atom">>)), "t") :
                   type \in {"int64", "other"}}
Notes == {NewNotifyMessage("n", params) : params \in Given}
AllAsked == Calls \cup Notes

AllSignatures == {<<>>, <<"interface", "typed">>, <<"typed">>, <<"interface">>}

Fields == {Null, Json("atom"), Json("slice")}
AllUnions == {Union(id, method, params, result, error, "t") :
                id \in {NoId, Id("int"), Id("other")}, method \in {"", "n"},
                params \in Fields, result \in {Null, Json("atom")},
                error \in {"null", "error", "bad"}}

AllOthers == {Union(FreshId, "", Null, Json("atom"), "null", "u"),
              Union(Id("int"), "", Null, Null, "error", "u"),
              Union(Id("string"), "n", Json("atom"), Null, "null", "u")}
=============================================================================
