------------------------------- MODULE Reading -------------------------------
(***************************************************************************)
(* What is read out of a model's answer.  services/llm.py trims chatter    *)
(* around a JSON value and, when the output ceiling cut the answer off,    *)
(* salvages the part that is complete; services/geolocate.py and imint.py  *)
(* read every vision answer this way.  The model says a document one       *)
(* symbol at a time; the ceiling may stop it after any of them.            *)
(***************************************************************************)
EXTENDS Naturals, Integers, FiniteSets, SequencesExt

CONSTANTS
    Documents,   \* documents a model may say, as sequences of symbols
    Preambles, \* chatter before the document
    Epilogues, \* chatter after it
    Pins       \* places a vision answer may name: see NormCandidate

VARIABLES
    meant,  \* the document
    before, \* the chatter before it
    saying, \* all the model would say
    said    \* what it has said so far

readingVars == <<meant, before, saying, said>>

Digits == {"0", "1", "2", "9"}
Closers == {"}", "]"}
NoDocument == [ok |-> FALSE, next |-> 0, leaves |-> {}]
-----------------------------------------------------------------------------
(* json.loads(): the leaves of a value, each with its path, its text and   *)
(* the place where it ends.                                                *)

Leaf(path, kind, text, end) == [path |-> path, kind |-> kind, text |-> text, end |-> end]

\* The place of the quote that ends the string opened before i, or 0.
StringEnd(t, i) ==
    LET RECURSIVE end(_)
        end(j) == IF j > Len(t) THEN 0
                  ELSE IF t[j] = "\\" THEN end(j + 2)
                  ELSE IF t[j] = "\"" THEN j ELSE end(j + 1)
    IN  end(i)

NumberEnd(t, i) ==
    CHOOSE j \in i..Len(t) :
        /\ \A k \in i..j : t[k] \in Digits \cup {"."}
        /\ j < Len(t) => t[j + 1] \notin Digits \cup {"."}

IsNumber(s) == s[1] # "." /\ s[Len(s)] # "." /\ Cardinality({i \in 1..Len(s) : s[i] = "."}) <= 1

RECURSIVE Value(_, _, _), Elements(_, _, _, _, _)
Value(t, i, path) ==
    IF i > Len(t) THEN NoDocument
    ELSE IF t[i] = "\"" THEN
        LET e == StringEnd(t, i + 1)
        IN  IF e = 0 THEN NoDocument
            ELSE [ok |-> TRUE, next |-> e + 1,
                  leaves |-> {Leaf(path, "string", SubSeq(t, i + 1, e - 1), e)}]
    ELSE IF t[i] \in Digits THEN
        LET e == NumberEnd(t, i)
        IN  IF ~IsNumber(SubSeq(t, i, e)) THEN NoDocument
            ELSE [ok |-> TRUE, next |-> e + 1,
                  leaves |-> {Leaf(path, "number", SubSeq(t, i, e), e)}]
    ELSE IF t[i] = "{" THEN Elements(t, i + 1, "}", path, 1)
    ELSE IF t[i] = "[" THEN Elements(t, i + 1, "]", path, 1)
    ELSE NoDocument

\* The n-th and later members of an object or array that close ends.
Elements(t, i, close, path, n) ==
    IF n = 1 /\ i <= Len(t) /\ t[i] = close
    THEN [ok |-> TRUE, next |-> i + 1, leaves |-> {}]
    ELSE LET key == IF close = "]" THEN [ok |-> TRUE, next |-> i, leaves |-> {}]
                    ELSE IF i <= Len(t) /\ t[i] = "\"" THEN Value(t, i, <<>>) ELSE NoDocument
             colon == IF close = "]" THEN 0 ELSE 1
             name == IF close = "]" THEN <<n>> ELSE (CHOOSE k \in key.leaves : TRUE).text
             item == IF ~key.ok \/ (colon = 1 /\ (key.next > Len(t) \/ t[key.next] # ":"))
                     THEN NoDocument
                     ELSE Value(t, key.next + colon, Append(path, name))
             j == item.next
             rest == IF ~item.ok \/ j > Len(t) THEN NoDocument
                     ELSE IF t[j] = close THEN [ok |-> TRUE, next |-> j + 1, leaves |-> {}]
                     ELSE IF t[j] = "," THEN Elements(t, j + 1, close, path, n + 1)
                     ELSE NoDocument
         IN  [rest EXCEPT !.leaves = IF rest.ok THEN @ \cup item.leaves ELSE {}]

Loads(t) ==
    LET v == Value(t, 1, <<>>) IN IF v.ok /\ v.next = Len(t) + 1 THEN v ELSE NoDocument
-----------------------------------------------------------------------------
Places(t, symbol) == {i \in 1..Len(t) : t[i] = symbol}
Earliest(S) == CHOOSE x \in S : \A y \in S : x <= y
Latest(S) == CHOOSE x \in S : \A y \in S : y <= x

OuterEnd(t, symbol) == Latest(Places(t, symbol))

\* clean_json(): the outermost object, else array, else everything.
CleanJson(t) ==
    LET fits(lo, hi) == Places(t, lo) # {} /\ Places(t, hi) # {}
                        /\ Earliest(Places(t, lo)) < OuterEnd(t, hi)
        cut(lo, hi) == SubSeq(t, Earliest(Places(t, lo)), OuterEnd(t, hi))
    IN  IF fits("{", "}") THEN cut("{", "}")
        ELSE IF fits("[", "]") THEN cut("[", "]") ELSE t

\* One pass over the text: whether position i lies in a string, what is open.
Strings(t) ==
    LET at[i \in 0..Len(t)] ==
          IF i = 0 THEN [quoted |-> FALSE, escaped |-> FALSE]
          ELSE LET p == at[i - 1]
               IN  IF p.escaped THEN [p EXCEPT !.escaped = FALSE]
                   ELSE IF p.quoted /\ t[i] = "\\" THEN [p EXCEPT !.escaped = TRUE]
                   ELSE IF t[i] = "\"" THEN [p EXCEPT !.quoted = ~@] ELSE p
    IN  at

Open(t, strings) ==
    LET open[i \in 0..Len(t)] ==
          IF i = 0 THEN <<>>
          ELSE IF strings[i - 1].quoted THEN open[i - 1]
          ELSE IF t[i] = "{" THEN <<"}">> \o open[i - 1]
          ELSE IF t[i] = "[" THEN <<"]">> \o open[i - 1]
          ELSE IF t[i] \in Closers /\ open[i - 1] # <<>> THEN Tail(open[i - 1])
          ELSE open[i - 1]
    IN  open

CloseQuote(t, quoted) == IF quoted THEN <<"\"">> ELSE <<>> \* mutant: an open string is closed
EndsHonestly(t, quoted) == <<>>

WithoutComma(t) == IF t # <<>> /\ t[Len(t)] = "," THEN Front(t) ELSE t

\* salvage_truncated_json(): cut back to the whole text, unless it ends in a
\* string, or to a comma outside strings, close what is open, take the longest
\* that parses.
Salvage(text) ==
    IF Places(text, "{") = {} THEN NoDocument
    ELSE LET t == SubSeq(text, Earliest(Places(text, "{")), Len(text))
             strings == Strings(t)
             open == Open(t, strings)
             candidate(n) == IF n = Len(t)
                             THEN WithoutComma(t) \o EndsHonestly(t, strings[n].quoted) \o open[n]
                             ELSE WithoutComma(SubSeq(t, 1, n)) \o open[n]
             commas == {i - 1 : i \in {k \in Places(t, ",") : ~strings[k - 1].quoted}}
             usable == {n \in commas \cup {Len(t)} :
                          Loads(candidate(n)).ok /\ candidate(n)[1] = "{"}
         IN  IF usable = {} THEN NoDocument ELSE Loads(candidate(Latest(usable)))

\* geolocate() and interpret(): the trimmed answer, else what can be salvaged;
\* anything but an object is no reading.
ReadOut(text) ==
    LET clean == CleanJson(text)
    IN  IF Loads(clean).ok
        THEN IF clean[1] = "{" THEN Loads(clean) ELSE NoDocument
        ELSE Salvage(text)
-----------------------------------------------------------------------------
(* Pins.  A raw candidate is [at, why, conf]: a place on a line or NoPlace, *)
(* whether it gives a reason, and a confidence in thousandths of 1, which   *)
(* the model may say as a fraction or, times 100, as a percentage.          *)

NoPlace == -1
NoPin == [at |-> NoPlace, why |-> FALSE, conf |-> 0]

NormalizeConfidence(v) ==
    LET f == IF v > 1000 THEN v \div 100 ELSE v
    IN  IF f < 0 THEN 0 ELSE IF f > 1000 THEN 1000 ELSE f

\* A candidate without a usable coordinate is dropped.
NormCandidate(c) == IF c.at = NoPlace THEN NoPin ELSE [c EXCEPT !.conf = NormalizeConfidence(@)]

Away(c, d) == (c.at - d.at) * (c.at - d.at)

\* The pin of "act", else the first of "decide"; what it lacks is taken from the
\* nearest candidate.
BestPin(act, decide) ==
    LET usable == SelectSeq([i \in 1..Len(decide) |-> NormCandidate(decide[i])],
                            LAMBDA c : c # NoPin)
        own == NormCandidate(act)
        best == IF own # NoPin THEN own ELSE IF usable # <<>> THEN usable[1] ELSE NoPin
        candidates == IF usable = <<>> THEN <<best>> ELSE usable
        nearest == candidates[Earliest({i \in 1..Len(candidates) :
                     \A j \in 1..Len(candidates) : Away(candidates[i], best) <= Away(candidates[j], best)})]
    IN  IF best = NoPin THEN NoPin
        ELSE [best EXCEPT !.conf = IF @ = 0 THEN nearest.conf ELSE @,
                          !.why = @ \/ nearest.why]

\* The headline of interpret(): the same choice, nothing is filled in.
BestAssessment(act, decide) ==
    LET own == NormCandidate(act)
        usable == SelectSeq([i \in 1..Len(decide) |-> NormCandidate(decide[i])], LAMBDA c : c # NoPin)
    IN  IF own # NoPin THEN own ELSE IF usable # <<>> THEN usable[1] ELSE NoPin
-----------------------------------------------------------------------------
ReadingInit ==
    /\ meant \in Documents /\ before \in Preambles
    /\ \E after \in Epilogues : saying = before \o meant \o after
    /\ said = <<>>

\* The model goes on, one symbol, until it is done or the ceiling stops it.
SayMore ==
    /\ Len(said) < Len(saying)
    /\ said' = Append(said, saying[Len(said) + 1])
    /\ UNCHANGED <<meant, before, saying>>

ReadingNext == SayMore
ReadingSpec == ReadingInit /\ [][ReadingNext]_readingVars
-----------------------------------------------------------------------------
Finding(l) == [path |-> l.path, kind |-> l.kind, text |-> l.text]
Read == {Finding(l) : l \in ReadOut(said).leaves}
Salvaged == {Finding(l) : l \in Salvage(said).leaves}
Meant == {Finding(l) : l \in Loads(meant).leaves}

\* Wherever the ceiling cuts, every string that is read is one the model said in
\* full, under the keys it said; of a number it may be the first digits alone.
ReadingIsFaithful ==
    \A l \in Read \cup Salvaged :
        \/ l \in Meant
        \/ l.kind = "number" /\ \E w \in Meant : w.path = l.path /\ IsPrefix(l.text, w.text)

\* Nothing the model finished before the cut is lost to the salvage.
FinishedIsSalvaged ==
    Len(said) <= Len(before) + Len(meant) =>
        \A l \in Loads(meant).leaves :
            Len(before) + l.end < Len(said) => Finding(l) \in Salvaged

\* Chatter around a finished document changes nothing.
WholeIsRead == Len(said) >= Len(before) + Len(meant) => Read = Meant

\* A model that says 90 and one that says 0.9 are read alike, whichever of their
\* pins is chosen and whatever is filled in from which.
PercentReadsAsFraction ==
    said = saying =>
        LET percent(c) == [c EXCEPT !.conf = IF @ > 10 THEN 100 * @ ELSE @]
        IN  \A act \in Pins, c, d \in Pins :
                /\ BestPin(percent(act), <<percent(c), d>>) = BestPin(act, <<c, d>>)
                /\ BestAssessment(act, <<percent(c), d>>) = BestAssessment(percent(act), <<c, d>>)

\* services/llm.py and geolocate.py: wherever an answer is cut off, what is read
\* from it is what the model said.
ReadingIsSound ==
    /\ ReadingIsFaithful /\ FinishedIsSalvaged
    /\ WholeIsRead /\ PercentReadsAsFraction
-----------------------------------------------------------------------------
(* What the sources say and the code does not do.                          *)

\* llm.py:109, "a salvaged parse contains only key/values the model fully emitted":
\* a number that the ceiling cut in two parses as a shorter one.
OnlyWholeValues == Read \subseteq Meant
=============================================================================
