------------------------------ MODULE MCReading ------------------------------
(* Model answers for Reading: 121 documents of two keys, with chatter.     *)
EXTENDS Reading

\* Answers with a nested value, a quoted brace and an escaped quote.
Quoted(s) == <<"\"">> \o s \o <<"\"">>
Leaves == {<<"1", "2">>, <<"0", ".", "9">>, Quoted(<<"x">>), Quoted(<<"}", ",">>), Quoted(<<"\\", "\"">>)}
Pair(k, v) == Quoted(<<k>>) \o <<":">> \o v
Nested == {<<"{">> \o Pair("k", v) \o <<"}">> : v \in {<<"1", "2">>, Quoted(<<"}", ",">>)}}
          \cup {<<"[">> \o v \o <<",">> \o v \o <<"]">> : v \in {<<"0", ".", "9">>, Quoted(<<"x">>)}}
MCAnswers == {<<"{">> \o Pair("a", v) \o <<",">> \o Pair("b", w) \o <<"}">> :
                v \in Leaves \cup Nested, w \in Leaves \cup Nested}
MCPreambles == {<<>>, <<"c">>}
MCEpilogues == {<<>>, <<"c">>}
MCPins == [at : {NoPlace, 0, 2}, why : {FALSE}, conf : {0, 900}] \cup {[at |-> 1, why |-> TRUE, conf |-> 500]}

ADocument == CHOOSE d \in Documents : TRUE
=============================================================================
