------------------------------- MODULE MCLinks -------------------------------
EXTENDS Links, TLC
Leads == ("g1" :> "a1") @@ ("g2" :> "a2")
Publishes == ("a1" :> "afp") @@ ("a2" :> "bbc")
Tells == [i \in Links |-> "s"]
Again == <<"g1">>
Before == {<<"g2">>}
=============================================================================
