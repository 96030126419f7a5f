----------------------------- MODULE MCPlanCache -----------------------------
(* Three documents of two operations, of which two differ in a literal alone *)
(* and the third is resolved by a data source with its own copy of the       *)
(* factory; a document with an operation name that takes the text of the     *)
(* first; one document that is not valid and one that does not parse.        *)
EXTENDS PlanCache

Find(id, copy) ==
    [literals |-> "a" :> id, source |-> [factory |-> copy, database |-> "db"]]
Version == [literals |-> <<>>, source |-> NoSource]
Document(printed, normalised, operations) ==
    [parses |-> TRUE, valid |-> TRUE, printed |-> printed, normalised |-> normalised,
     operations |-> operations]

Finder(id, find, copy) ==
    Document(<<find, "B {version}">>, <<"A {find($a)}", "B {version}">>,
             (<<"A">> :> Find(id, copy)) @@ (<<"B">> :> Version))
First == Finder(1, "A {find(1)}", "shared")
Second == Finder(2, "A {find(2)}", "shared")
Slow == Document(<<"A {slow(2)}">>, <<"A {slow($a)}">>, <<"A">> :> Find(2, "with timeout"))
Rest == Document(<<"B {version}">>, <<"B {version}">>, <<"B">> :> Version)
NotValid == [Document(<<"{none}">>, <<"{none}">>, <<"C">> :> Version) EXCEPT !.valid = FALSE]
NotParsed == [NotValid EXCEPT !.parses = FALSE]

Ask(doc, name, variables) == [doc |-> doc, operationName |-> name, variables |-> variables]

MCBodies == { Ask(First, <<"A">>, "a" :> 3), Ask(Second, <<"A">>, <<>>), Ask(Slow, <<>>, <<>>),
              Ask(Rest, <<"A", "A {find(1)}">>, <<>>),
              Ask(NotValid, <<>>, <<>>), Ask(NotParsed, <<>>, <<>>) }
=============================================================================
