----------------------------- MODULE Calibration -----------------------------
(***************************************************************************)
(* The arithmetic of consequence_engine/calibration.py, and the scores     *)
(* that routes/benchmark.py, scripts/backtest_cpe.py and the validation    *)
(* scripts make of it.  Probabilities and outcomes are whole numbers of    *)
(* 1/Unit, a quotient is a pair <<numerator, denominator>> with a positive *)
(* denominator, so that nothing is rounded.                                *)
(***************************************************************************)
EXTENDS Rows, FiniteSets, FiniteSetsExt, Functions

CONSTANTS Unit,       \* the probability 1
          Said, MarketSaid,  \* the engine's forecasts, of events and of questions
          CrowdSaid,  \* forecasts of the market, at forecast time
          MinPoints,  \* MIN_CALIBRATION_POINTS
          Bins,       \* n_bins
          MaxGraded,  \* bound: graded forecasts
          NoSkill, NoCrowd

ASSUME CalibrationAssumption ==
    /\ Unit \in Nat /\ Unit > 0 /\ Unit % 2 = 0
    /\ Said \subseteq 0..Unit /\ MarketSaid \subseteq 0..Unit /\ CrowdSaid \subseteq 0..Unit
    /\ MinPoints \in Nat /\ MinPoints > 0 /\ Bins \in Nat /\ Bins > 0
    /\ MaxGraded \in Nat
    /\ NoSkill \notin Int \X Int

VARIABLE graded  \* the resolved ledger rows, oldest first: [p, o, source, crowd]

\* outcome_worker grades by later evidence, the market by YES or NO.
EngineRows == [p : Said, o : {0, Unit \div 2, Unit}, source : {"engine"}, crowd : {NoCrowd}]
MarketRows == [p : MarketSaid, o : {0, Unit}, source : {"manifold"}, crowd : CrowdSaid \cup {NoCrowd}]

\* Quotients, in lowest terms.
Quot(n, d) ==
    LET g == Max({x \in 1..d : d % x = 0 /\ n % x = 0}) IN <<n \div g, d \div g>>
Less(a, b) == a[1] * b[2] < b[1] * a[2]
AtMost(a, b) == a[1] * b[2] <= b[1] * a[2]
Same(a, b) == a[1] * b[2] = b[1] * a[2]
Plus(a, b) == Quot(a[1] * b[2] + b[1] * a[2], a[2] * b[2])
Minus(a, b) == Plus(a, <<-b[1], b[2]>>)
Times(a, b) == Quot(a[1] * b[1], a[2] * b[2])

\* The sum of the quotients part[x] over the places x below n that have one.
SumBelow(part, n) ==
    LET below[x \in 0..n] ==
            IF x = 0 THEN <<0, 1>>
            ELSE IF x - 1 \in DOMAIN part THEN Plus(below[x - 1], part[x - 1])
            ELSE below[x - 1]
    IN  below[n]

Count(s) == Len(s)
-----------------------------------------------------------------------------
(* Scoring.                                                                *)

SquaredError(s) == Total([i \in DOMAIN s |-> (s[i].p - s[i].o) * (s[i].p - s[i].o)])

\* Mean squared error of the forecasts, in units of 1/Unit^2.
MeanBrier(s) == Quot(SquaredError(s), Count(s))

\* The base-rate forecast has the squared error n*sum(o^2) - sum(o)^2 over n^2.
Hits(s) == Total([i \in DOMAIN s |-> s[i].o])
ReferenceError(s) == Count(s) * Total([i \in DOMAIN s |-> s[i].o * s[i].o]) - Hits(s) * Hits(s)

BrierSkill(s) ==
    IF s = <<>> \/ ReferenceError(s) = 0 THEN NoSkill
    ELSE Quot(ReferenceError(s) - Count(s) * SquaredError(s), ReferenceError(s))

\* The distinct forecasts, and what came of those from a to b.
Forecasts(s) == {s[i].p : i \in DOMAIN s}
HitsIn(s, a, b) == Total([i \in DOMAIN s |-> IF a <= s[i].p /\ s[i].p <= b THEN s[i].o ELSE 0])
CountIn(s, a, b) == Total([i \in DOMAIN s |-> IF a <= s[i].p /\ s[i].p <= b THEN 1 ELSE 0])

Reliability(s) ==
    SumBelow([p \in Forecasts(s) |->
        LET k == CountIn(s, p, p)  gap == k * p - HitsIn(s, p, p)
        IN  Quot(gap * gap, k * Count(s))], Unit + 1)
Resolution(s) ==
    SumBelow([p \in Forecasts(s) |->
        LET k == CountIn(s, p, p)
            spread == Count(s) * HitsIn(s, p, p) - k * Hits(s)
        IN  Quot(spread * spread, k * Count(s) * Count(s) * Count(s))], Unit + 1)
Uncertainty(s) == Quot(Hits(s) * (Count(s) * Unit - Hits(s)), Count(s) * Count(s))
Murphy(s) == Plus(Minus(Reliability(s), Resolution(s)), Uncertainty(s))

\* Bins of equal width; the last takes 1 as well.
InBin(p, b) == /\ b * Unit <= Bins * p
               /\ Bins * p < (b + 1) * Unit \/ (b = Bins - 1 /\ p = Unit)
-----------------------------------------------------------------------------
(* Isotonic recalibration: pool adjacent violators.                        *)

\* What became of the forecasts from a to b: the rate of a block.
Rate(s, a, b) == <<HitsIn(s, a, b), CountIn(s, a, b)>>

\* Blocks are known by the forecasts they start at; a block ends before the next.
\* The starts at which a block up to x need not take in the block before it.
Settled(s, starts, x) ==
    {c \in starts \cup {x} :
        LET earlier == {a \in starts : a < c}
        IN  earlier # {} => ~Less(Rate(s, c, x), Rate(s, Max(earlier), c - 1))}

\* x starts a block of its own, which takes in the block before it for as long
\* as that one has the higher rate.
PoolOnce(s, starts, x) == \* mutant: a violator is pooled with its neighbour only
    IF starts = {} \/ x \in Settled(s, starts, x) THEN starts \cup {x} ELSE starts
Pool(s, starts, x) == {a \in starts \cup {x} : a <= Max(Settled(s, starts, x))}

Blocks(s) ==
    LET below[x \in 0..Unit + 1] ==
            IF x = 0 THEN {}
            ELSE IF x - 1 \in Forecasts(s) THEN Pool(s, below[x - 1], x - 1)
            ELSE below[x - 1]
    IN  below[Unit + 1]

StartOf(starts, x) == Max({c \in starts : c <= x})
EndOf(starts, x) == Max({b \in x..Unit : \A c \in starts : c <= x \/ b < c})

\* The fitted points: for each distinct forecast the rate of its block.
FitIsotonic(s) ==
    IF Count(s) < MinPoints THEN [x \in {} |-> <<x, 1>>]
    ELSE LET starts == Blocks(s)
         IN  [x \in Forecasts(s) |-> Rate(s, StartOf(starts, x), EndOf(starts, x))]

\* Flat outside the fitted range, linear between two fitted points.
ApplyIsotonic(model, p) ==
    LET xs == DOMAIN model IN
    IF xs = {} THEN <<p, 1>>
    ELSE IF p <= Min(xs) THEN model[Min(xs)]
    ELSE IF p >= Max(xs) THEN model[Max(xs)]
    ELSE LET right == Min({x \in xs : x >= p})
             left == Max({x \in xs : x < p})
         IN  Plus(model[left], Times(Minus(model[right], model[left]), <<p - left, right - left>>))

\* summarize(): the sample recalibrated by its own fit.
Recalibrated(s) ==
    LET model == FitIsotonic(s) IN [i \in DOMAIN s |-> ApplyIsotonic(model, s[i].p)]
RecalibratedBrier(s) ==
    LET fitted == Recalibrated(s)
        gap == [i \in DOMAIN s |-> Minus(fitted[i], <<s[i].o, 1>>)]
    IN  Times(SumBelow([i \in DOMAIN s |-> Times(gap[i], gap[i])], Count(s) + 1), <<1, Count(s)>>)
-----------------------------------------------------------------------------
(* The public scores: gated per source, the headline the engine's own.     *)

From(s, source) == Meeting(s, {r \in Range(s) : r.source = source})
WithCrowd(s) == Meeting(s, {r \in Range(s) : r.crowd # NoCrowd})
Withheld(n) == [status |-> "withheld", n |-> n]

BucketSkill(s) ==
    IF Count(s) < MinPoints THEN Withheld(Count(s))
    ELSE [status |-> "ready", n |-> Count(s), brier |-> MeanBrier(s), bss |-> BrierSkill(s)]

EngineVsCrowd(s) ==
    LET both == WithCrowd(From(s, "manifold"))
        crowd == [i \in DOMAIN both |-> [both[i] EXCEPT !.p = both[i].crowd]]
    IN  IF Count(both) < MinPoints THEN Withheld(Count(both))
        ELSE [status |-> "ready", n |-> Count(both),
              delta |-> Minus(MeanBrier(crowd), MeanBrier(both))]

HeadlineSkill(s) == BucketSkill(From(s, "engine"))

SummarizeEngineSkill(s) ==
    [headline |-> HeadlineSkill(s),
     bySource |-> [src \in {s[i].source : i \in DOMAIN s} |-> BucketSkill(From(s, src))],
     vsCrowd |-> EngineVsCrowd(s)]

\* backtest_cpe: the soft labels dropped, and whether the base rate is beaten.
DecisiveOnly(s) == Meeting(s, {r \in Range(s) : r.o \in {0, Unit}})
BeatsBaseRate(s) == Count(s) * SquaredError(s) < ReferenceError(s)
-----------------------------------------------------------------------------
CalibrationInit == graded = <<>>

\* One more forecast is graded.
GradedRow(row) ==
    /\ Len(graded) < MaxGraded
    /\ graded' = Append(graded, row)

CalibrationNext == \E row \in EngineRows \cup MarketRows : GradedRow(row)

CalibrationSpec == CalibrationInit /\ [][CalibrationNext]_graded
-----------------------------------------------------------------------------
Decisive == DecisiveOnly(graded)

\* On yes-or-no outcomes the three parts add up to the Brier score exactly,
\* and resolution less reliability is the skill: two formulas, one number.
MurphyAddsUp ==
    Decisive # <<>> =>
        /\ Same(Murphy(Decisive), MeanBrier(Decisive))
        /\ BrierSkill(Decisive) # NoSkill =>
             Same(Times(BrierSkill(Decisive), Uncertainty(Decisive)),
                  Minus(Resolution(Decisive), Reliability(Decisive)))

\* The backtest's verdict and the scoreboard's skill agree: the model beats the
\* base rate exactly if there is a skill and it is positive.
VerdictsAgree ==
    BeatsBaseRate(graded) <=> BrierSkill(graded) # NoSkill /\ BrierSkill(graded)[1] > 0

\* Pooling yields the isotonic regression: the fit at a forecast is the largest,
\* over starts up to it, of the smallest, over ends from it on, of the rates.
IsotonicIsTheRegression ==
    LET model == FitIsotonic(graded) IN
    \A x \in DOMAIN model :
        /\ \A a \in 0..x : \E b \in x..Unit : AtMost(Rate(graded, a, b), model[x])
        /\ \E a \in 0..x :
             /\ \A b \in x..Unit : AtMost(model[x], Rate(graded, a, b))
             /\ \E b \in x..Unit : Same(Rate(graded, a, b), model[x])

\* Recalibration keeps the order of forecasts, is exact at the fitted points, stays
\* among the outcomes seen and never worsens the Brier score of the sample it was
\* fitted on.
RecalibrationIsSound ==
    LET model == FitIsotonic(graded) IN
    Count(graded) >= MinPoints =>
        /\ \A p, q \in 0..Unit : p <= q =>
             AtMost(ApplyIsotonic(model, p), ApplyIsotonic(model, q))
        /\ \A p \in 0..Unit : AtMost(<<0, 1>>, ApplyIsotonic(model, p))
                              /\ AtMost(ApplyIsotonic(model, p), <<Unit, 1>>)
        /\ \A x \in DOMAIN model : Same(ApplyIsotonic(model, x), model[x])
        /\ AtMost(RecalibratedBrier(graded), MeanBrier(graded))

\* Every forecast is in one bin.
BinsPartition ==
    \A p \in Forecasts(graded) : Cardinality({b \in 0..Bins - 1 : InBin(p, b)}) = 1

\* The headline is what it would be had no market question been graded, and the
\* comparison with the crowd what it would be without the engine's own forecasts.
HeadlineIsInternal ==
    LET all == SummarizeEngineSkill(graded)
        markets == Meeting(graded, {r \in Range(graded) : r.source # "engine"})
    IN  /\ all.headline = SummarizeEngineSkill(From(graded, "engine")).headline
        /\ all.vsCrowd = SummarizeEngineSkill(markets).vsCrowd

\* consequence_engine/calibration.py and what builds on it: whatever rows are graded,
\* the skill scores agree with one another and recalibration is the isotonic regression.
CalibrationIsSound ==
    graded # <<>> =>
        /\ MurphyAddsUp /\ VerdictsAgree /\ HeadlineIsInternal
        /\ IsotonicIsTheRegression /\ RecalibrationIsSound /\ BinsPartition
=============================================================================
