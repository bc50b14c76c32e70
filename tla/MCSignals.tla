----------------------------- MODULE MCSignals -----------------------------
\* Two quakes with one title, reported together or one alone, three posts on one
\* story, two of them the same page and one the page of a quake.
EXTENDS Signals

CONSTANTS quake1, quake2, post1, post2, post3, page1, page2, page3

MCDoc == (quake1 :> page1) @@ (quake2 :> page2) @@ (post1 :> page3) @@ (post2 :> page3) @@ (post3 :> page2)
MCOutlet == (quake1 :> "usgs") @@ (quake2 :> "gdacs") @@ (post1 :> "bbc") @@ (post2 :> "bbc") @@ (post3 :> "afp")
MCCategory == [i \in Items |-> IF i \in {quake1, quake2} THEN "disaster" ELSE "conflict"]
MCAlike == {{quake1, quake2}, {post1, post3}, {post2, post3}}
MCGrades == [i \in Items |-> IF i \in {quake2, post3} THEN {1, 2} ELSE {1}]
MCStarts == {{}, {quake1, quake2}, {post1, post3}, {post2, post3}}
MCHazardBatches == {<<quake1, quake2>>, <<quake2, quake1>>, <<quake2>>}
MCOsintBatches == {<<post1, post3>>, <<post2, post1>>}
=============================================================================
