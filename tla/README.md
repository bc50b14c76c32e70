# The Narrative: a TLA+ verification project

This directory models The Narrative (`src/backend` and the scripts that write
its tables): how an article becomes a member of an event, how an event gets its
consequence maps and links, how forecasts are published and graded, how what was
found reaches people, and how the workers and requests that do it share tables
and caches. TLC checks the models on small instances; TLAPS proves the central
theorems for every instance.

## 1. The system

The backend is one Postgres database, Redis, a FastAPI application, and a
scheduler process (`scheduler.py`) that runs nineteen workers, each in an endless
"run, then sleep" loop (`_run_with_interval`). Sessions do not autoflush and do
not expire on commit (`database.py:16-21`), the isolation level is READ
COMMITTED, and no worker takes a lock. An administrator can start any worker
beside the scheduler (`api/routes/admin.py`), and a comment in
`scheduler.py:118-121` speaks of several hosts that run the same scheduler. Workers never
call each other: they meet in rows, flags on rows, and the order of commits.

| part | state | hard behaviour | what makes it correct | module |
|---|---|---|---|---|
| Article intake | `articles`, `narrative_events` | four workers and the ingest change the same rows between a read and a commit | nothing is attached twice, no event is hollow, nothing is left behind | Intake |
| Source health | `sources` | overlapping runs write back stale counts; one commit for all | quarantine is earned, and ends | Harvest |
| Consequence synthesis | `event_consequence_maps`, `event_revisions` | the model is asked between reading a version and writing the next; one long transaction | versions 1, 2, 3 ..., revisions keep step, no event dropped | Synthesis |
| Feed ingest, merging | events with a source, documents, triage log | batches in one transaction with and without savepoints, unique indexes, a merge script | every chain of merges ends at a shown event, no document lost, a bad item falls alone | Signals |
| Google News redirects | a memo per process, `articles.url` | budget, give-up, trimming, overlapping calls | the backlog drains; a newsroom counts once | Links |
| Digest delivery | `alert_subscriptions`, `deliveries` | mail leaves before its row is committed; hosts wait in circles | one digest per recipient and window | Delivery |
| Plans, follows, alerts | `users`, `follows` | webhooks repeated and reordered; check, then insert | the plan follows the subscription; limits hold but for races | Plans |
| Organizations | `memberships` | two admins remove each other | an organization keeps an admin but for races | Tenancy |
| Forecast ledger | `benchmark_ledger`, manifests, outcomes | entries and roots are committed apart; two graders; midnight | what is anchored is what was entered; graded once | Ledger |
| Calibration | none | pooling, bins, empty sets | scores agree, recalibration is the regression | Calibration |
| Advisories | `advisories` | overlapping runs supersede each other | a current sheet, the latest | Advice |
| Event graph | `event_connections` | a pair met from both ends, runs that die, a rebuild script | links lead forward in time, once, for all | EventGraph |
| Exposure | none | cycles, cuts, attribution | scores are explained by their parts | Exposure |
| Operator and analyst | a question, the settings and their copies | three paths with budgets of their own; a gate read anew before each call | calls bounded, answers say what they are | Operator |
| Reading of answers | none | an answer cut off anywhere | what is read is what was said, but for a number cut in two | Reading |
| Readers | `segment_feed_cache`, event rows | a stale cache over rows that change | one rule on every route | Readers |
| Site register, travel | `sites`, `trips` | keys that depend on ambiguity; overdue travellers | a file uploaded again changes nothing; time drops nobody | Register, Travel |
| Entity look-ups | Redis | partial answers are cached | answers catch up | Enrichment |

`PROJECT.json` lists every component, with those left out, every hazard at its
line, and the lines each definition stands for.

## 2. Modules

    Corpus ---- Intake ------ Pipeline -- PipelineProofs
        \                     /
          ---- Synthesis ----             MapHistory  <- Synthesis
    Delivery -- DeliveryProofs            DeliveryLog <- Delivery
    Ledger ---- LedgerProofs              LedgerBook  <- Ledger
    EventGraph -- GraphProofs
    Signals, Tenancy, Plans, Advice, Travel -- ServicesProofs
    Operator, Harvest, Register, Readers ----- DesksProofs
    Rows -- Register, Readers, ScoresProofs
    Calibration -- ScoresProofs -- ExposureProofs -- Exposure
    MCIntake    = Intake + Links
    MCRounds    = EventGraph + Delivery
    MCHistories = Delivery + Synthesis + Exposure + Calibration + Reading
    MCDesks     = Operator + Harvest + Enrichment
    MCServices  = Signals + Tenancy + Plans + Advice + Register + Travel + Readers

The other MC modules hold the constants of an instance: MCGraph, MCDelivery,
MCReading, MCReckoning, MCSignals.

* **Corpus, Intake, Synthesis, Pipeline** - the core. A worker that reads,
  computes and writes is a `...Select` and a `...Commit` action; an exception or a
  dead process between them is `...Fail` or `...Crash`. The mapping worker is
  `MapSelect`, `MapSkip` or `MapAsk` for each event, `MapAnswer`
  (the version is read only now), and `MapCommit`. The evolution worker holds its
  drafts and marks back until `EvolveCommit`, because its run is one transaction.
  Pipeline runs both halves on the same variables.
* **MapHistory, DeliveryLog, LedgerBook** - the abstract specifications: a commit
  publishes the next version of some events; the delivery table is append-only
  with one row per key, and "sent" is said only of messages that left; a forecast
  is entered once, never altered or removed, and graded once.
* **Signals** - `hazard_ingest_worker` and `osint_ingest_worker` with their
  sessions (`added`, `flushed`, savepoints, row locks), the triage of posts with
  its cool-down, and the merge script, which plans on a stale list. Intake and
  Synthesis take what one signal writes as one step. `beaten` remembers the items
  that themselves lost a deadlock or the race for their document.
* **Links** - `gnews_resolve` with its memo per process, the budget of a cycle,
  overlapping calls and restarts; what the ingest stores; the repair script.
* **Harvest** - a scrape run loads the rows, visits or skips each source or raises
  at it (`Stumble`: the count goes up, the row is not stamped), and writes the
  columns that differ from what it loaded.
* **Delivery** - a run on a host is `Start`, `Compose` for each subscription,
  `Lookup` of the key for each recipient, `Send`, a `Savepoint` in which `Insert`
  stores the row or `InsertFails`, one `Commit`, or a `Crash`. Rows of an open
  transaction make inserts of other runs wait (`Waits`), and one of a circle is
  refused (`Deadlocked`).
* **Ledger** - publishers commit each statement: `StartInside`/`StartOutside`
  read the batch and the day, `Insert` one row, `ReadDay`, `Upsert` of the root,
  `WriteManifestFile`, `Score`. Graders hold one transaction: `GradeSelect`,
  `Judge` for each map, `GradeCommit`; the resolver of market questions likewise.
  A hash is the tuple it is computed from.
* **EventGraph** - a graph run with what it has added (`new`), rewritten and
  flushed, and the rebuild script, which deletes first and commits in portions;
  `bereft` names the events that were connected when one died after its delete.
* **Operator** - the path of a question (`agent`, `deep`, `plain`), its counters,
  and the settings row with a copy per process.
* **Tenancy, Plans, Advice** - each request or run reads in one step and commits
  in another; `current` records whether something was committed in between.
* **Register, Travel, Readers, Enrichment** - the routes that edit, import and
  show, over tables and caches that other components change.
* **Exposure, Calibration, Reading** - pure computations. The scores, the
  isotonic regression (pool adjacent violators) and the repair of a truncated
  answer are operators translated from the code, compared with definitions of
  what they should be over every small graph, set of grades, or cut. Numbers are
  exact: a link of step s passes on `Gain[s]` parts in `Whole` of an effect, and a
  quotient is a pair. Loops are recursive functions: the rounds of the diffusion up
  to `MAX_ITERS`, the pops of the heap up to `MaxPops`, a bound of the model that
  the search never reaches with entries left (`SearchEnds`). Only Reading, a parser,
  is made of recursive operators.

Definitions marked `mutant` are plausible mistakes in the definition after them;
`PROJECT.json` pairs each with the property that it breaks, and no specification
uses them.

### Parts side by side

MCServices, MCDesks, MCIntake, MCRounds and MCHistories put components next to
each other in one run that are asked nothing together: the variable `part` is
chosen at the start and only that component moves. The properties need no such
guard because their variables keep their initial values elsewhere. Each part keeps the
fairness of its own specification (`OperatorPart` and so on); nothing is said
about two of these components together: they share no table, except Intake and
Links, which both add articles but agree in no more than that a url is stored
once. Components that do interact are composed in Pipeline.

### What is abstracted

Similarity, time decay, centroids: the cluster worker may choose any event or a
new one; which pairs of events are related is a constant of the graph. Scores are
kept as far as the code distinguishes them. What a model says is any value of
the right kind; what a feed delivers is any item. Distance, importance and the
outlets of a situation come down to whether a digest leaves it out, holds it
back or escalates it. Logging, metrics, wording and layout are left out.

## 3. Runs

Eight runs pass, and every property of theirs has a mutant of the code that breaks
it. Four are expected to find a violation.

| run | instance | asks |
|---|---|---|
| `intake` | 3 articles, 2 events, batches of 2; 2 redirects | `EveryEventHasEvidence`, `NeverRehomed`, `NoArticleLeftBehind`, `BacklogDrains` |
| `pipeline` | 1 article, 2 events, 2 mapping runs, limits 1 | `MapNotLost`, `IntakeIsTheEnvironment`, `EveryArticleReachesAMap` |
| `histories` | see below | `LogSpec` (refinement), `NobodyDropped`, `RevisionsFollowMaps`, `KeepsHistory` (refinement), `ScoresAreExplained`, `CalibrationIsSound`, `ReadingIsSound` |
| `ledger_publish` | 1 map, 2 questions, 2 publishers, 2 days, 1 failure | `LedgerIsSound`, `EveryMarketGraded` |
| `ledger_grade` | 2 maps of one event, 2 hosts, 2 graders, 1 relabelling or dead run | `BookSpec` (refinement), `GradeIsEarned`, `EveryForecastPublished` |
| `rounds` | see below | `DirectionFollowsTime`, `LinksAreWhole`, `EveryMappedGetsConnected`, `LeaversLeftAlone`, `OneCopyPerRun`, `EveryoneAnswered` |
| `desks` | see below | `AnswersAreHonest`, `BatchFollowsSettings`, `HealthIsEarned`, `ReturningFeedRejoins`, `AnswersCatchUp` |
| `services` | see below | `StoriesStayWhole`, `BadItemFallsAlone`, `CurrentIsLatest`, `PlanFollowsSubscription`, `LimitsBreakInARace`, `LastAdminGoesInARace`, `RegisterIsConsistent`, `TimeDropsNobody`, `OneRuleOnEveryRoute` |
| `double_outlet` | 2 links | counterexample to `NoSelfCorroboration` |
| `operator_turns` | as in `desks` | counterexample to `TurnsBounded` |
| `reading_cut` | as in `histories` | counterexample to `OnlyWholeValues` |
| `signals_chain` | as in `services` | counterexample to `DuplicatesPointAtCanonical` |

`intake`: beside the rows, two links with a budget of one, a memo of one and a
restart. `rounds`: three events, one graph run at a time and a rebuild, one fault; two days, a
weekly list of one host, one person, one situation, one dead run. `histories`: two
hosts, one of which sends, and two people; two articles, two events, two versions,
batches of two, one row sent; every graph of ten listed links on four events (five of
them loaded at most, cycles among them, one event unbacked, free readers see one),
walked up to three links deep; up to three graded rows; answers of two fields cut
anywhere. `desks`: one question with two turns, one thread, one change of
settings; one source with two overlapping runs, a bar of two failures and one visit
that raises or run that is lost; one
kind of entity with two providers. `services`: two ingests of five items (three
of them posts) and the merge script, where two events that tell one story are stored
at the start, so that both ingests and the script can be under way at once; one organization, three users, two requests
at once; two accounts, two posts, one redelivered webhook; three sheets and two
advisory runs; five import files and three edits; a trip over four days; two
reports, five changes under a cache.

**Why the bounds are enough.** In `intake`, `rounds`, `ledger_publish` and `ledger_grade` a batch is smaller than the
table, so that the LIMIT leaves something over (in `pipeline` and `histories` it holds
all there is); two events make two drafts in one transaction, or a fold, possible; two
versions let a map follow a map; two runs are enough for every race named in
section 1, since no action looks at more than the transactions of two. Two days in the
ledger
with a midnight between them cover a root filed after the day ended; three
events have links in both directions and a path; two days with a "week" of two
have a day that is due and one that is not. Where a larger instance could differ
(any number of publishers, graders, runs, requests, people) the safety part is
proved for all of them. Deadlock is not checked: an idle system with nothing left
to do stops under the bounds.

**Fairness.** `_run_with_interval` starts a worker again whatever became of its
last run, so a run that can start does (weak fairness of the `Select`, `Start`,
`Begin` and step actions). A worker that is tried for ever neither dies nor gets
an error every time, and a market, a provider or Redis that is asked for ever
answers some time (strong fairness of `Commit`, `Answer`, `PollOne`,
`FillCache`, `Enrich`); without this nothing holds of a model that never answers.
Nothing is assumed of people, news, webhooks, the rebuild of caches by readers,
the archive or the evolution worker. Several liveness properties name what lets
them off: `NoArticleLeftBehind` and `EveryArticleReachesAMap` that something
expires, `EveryMappedGetsConnected` that runs overlapped, `EveryMarketGraded` that rows which
wait in vain for ever suffice to fill a batch, `BacklogDrains` that the memo forgot, `EveryoneAnswered` that the day ended or the person left.

**Findings.**
1. `double_outlet`: a link stored first as a Google redirect and, offered again,
   as its page counts as two outlets of one event. A comment says that one
   newsroom cannot corroborate itself (`events.py:170-171`).
2. `operator_turns`: the synthesis (`operator_loop.py:160`) is a call on top of the
   turns of the loop, where `operator_loop.py:29` says that a request "runs at most
   this many LLM turns". What does hold is `CallsBounded`: one call more, and, when
   the loop fails or ran no tool, those of the reasoner and of the plain answer. The
   theorem `QuestionsAreBounded` has it for any limits.
3. `reading_cut`: the repair takes a number that was cut in two for a whole one: `0.9`
   cut behind the `0` is read as 0, because the whole text is the first candidate
   (`llm.py:145`). `llm.py:108-110` promises only what "the model fully emitted".
   `ReadingIsFaithful` is what is left: strings are whole, and the model's number
   begins with the one that is read.
4. `signals_chain`: the merge script points the duplicates it finds at their canonical
   event, but not the earlier duplicates of those (`merge_duplicate_events.py:103-112`),
   and a refresh or a re-upload takes one step only (`hazard_ingest_worker.py:219-224`).
   So an event may point at an event that is hidden itself, where
   `007_event_merge.py:7-9` says that duplicates point at the canonical one, and its
   refreshes corroborate what no reader sees. `StoriesStayWhole` says what is left:
   that each chain of merges ends at a shown event, though no code follows it there.

**Other behaviour met while modelling**, which no run is about:
* *Intake.* The cluster worker's query has neither an embedding nor an archived
  filter (`clusterer.py:130-139`): rows archived before they were clustered are
  the oldest, can never be clustered, and once there are 500 fill its batch. Feed
  events get no document unless the item has an evidence url of its own
  (`hazard_ingest_worker.py:164`, `:303`). A page whose markup changed yields
  nothing and counts as read (`bs4_scraper.py:54-57`, `engine.py:78`, `:144`).
  The upload of old maps takes any hundred of them and marks none, so it may take
  the same ones again (`archive_worker.py:66-73`).
* *Synthesis.* What makes the evolution worker ask (any new article) and what it
  sends and marks (the ten best) are different sets (`evolution_worker.py:60`,
  `:127`); articles that join a scored event keep importance 0 and sort behind.
  Two runs of the mapping worker can give one event the same version twice.
* *Delivery.* The content hash names what is escalated but only counts what is
  held (`digest_worker.py:122-128`), so a digest in which one held situation took
  another's place is a duplicate. A run that dies after a send leaves no row, and
  the next sends again; `OneCopyPerRun` says this is the only way. A weekly digest
  is due on Monday only. `add_member` refuses an address that was removed. A row that
  did not lead to a message stops later sends under its key all the same
  (`digest_worker.py:323-328`): a failed one, and one that says "suppressed" because
  sending was off. A host with sending off that shared the table with the one that
  sends would so keep it from sending; which hosts share a database the sources leave
  to the deployment.
* *Plans.* A subscription webhook that is overtaken leaves an old plan in place
  (`PlanFollowsSubscription` is about accounts whose notices came in order).
* *Ledger.* The cached score counts resolved market questions as well
  (`benchmark_worker.py:72-78`) where the live one does not
  (`routes/benchmark.py:350`), although its docstring says that the two can never
  disagree. Publishing does not ask whether an outcome exists, so a forecast may
  be entered after its event was graded (`publish_ledger.py:101-114`), where
  `routes/benchmark.py:241-242` says it is committed before; such an entry is
  never graded. The resolver reads 200 unresolved rows in no order
  (`external_resolution_worker.py:79-91`), and rows whose question is open, void or
  unknown stay among them: once there are 200 of these, every batch may consist of
  them and a settled question is never graded. `EveryMarketGraded` is therefore about
  a table in which fewer rows than a batch wait in vain from some time on.
* *Signals.* An item without geography is passed over
  (`hazard_ingest_worker.py:146-147`), as if the feed had not offered it.
* *Graph.* The rebuild commits its DELETE and then its links in portions
  (`recompute_connections.py:100-122`). If it dies in between, the pairs that were
  connected already have no link, and no later run of the worker makes one, since their
  events keep `is_graph_connected`; only another rebuild does. `LinksAreWhole` excuses
  exactly the pairs of such events (`bereft`). Two overlapping runs may insert one pair twice; from then on its events
  fail (`graph_connector.py:106`), which is why `LinksAreWhole` and
  `EveryMappedGetsConnected` ask nothing once runs have overlapped. The traced graph
  lists links of unbacked events among its `connections` (`graph.py:109-118`,
  `:157-168`), while the events it lists are backed. An exposure snapshot is taken without the
  corroboration that the route applies (`exposure_snapshot_worker.py:29-33`).
* *Travel.* A traveller under way who returns beyond the window is not listed
  until the return comes into it (`people.py:192-205`); what is promised, and
  holds, is that an overdue one stays.

## 4. Proofs

Eight modules hold theorems; each assumes only the ASSUME of its model and what is
said here. A theorem names the property of a run that it states for every value
of the constants. Every strengthening was first checked by TLC.

* **PipelineProofs, Intake and the composition**. The intake first (`OneClusterer`:
  one cluster run at a time).
  `IntakeInv`: that flags and references agree is not inductive; it needs that the
  rows a run *holds* are still unclustered when it commits (`BatchUnclustered`),
  which needs that the ingest attaches only rows not stored before. No hollow
  event, and a home is final. Then the composition: the environment that Synthesis
  assumes is the one it gets, so what is proved of the halves holds of the whole.
* **PipelineProofs, Synthesis**, in three layers, by what they ask of the workers.
  `SharedInv` holds of *any number* of mapping and evolution runs side by side:
  no map is lost, no article consumed in vain, no version skipped. The last is the
  interesting one. Runs that overlap may write one version twice, so a version that
  is held need not be the next one; what survives every interleaving is that it is
  at most one above the highest (`HeldFollows`), and that this is so for each in
  every order of commits. `RevisionInv` needs one mapping run (`OneMapper`): an
  event that it has in hand is unmapped, so revisions keep step with maps.
  `VersionInv` needs one run of each (`OneWriterEach`): `MappingIsAhead` and
  `DraftsAreNext` say that a version in hand is the next of its event, because a
  mapping run works only on events that are not mapped and an evolution run only
  on events that are. Contiguous versions follow, and that Synthesis implements
  MapHistory.
* **DeliveryProofs**. `LogInv` speaks of committed and pending rows together;
  `DeliveryImplementsLog` maps every step to a `MailOne`, an `Append` or a
  stutter. `Accounted`: while no run died, everyone a run owes a digest has a row
  or is still to come in that run. `LeaversInv`: who had left when a run began is
  not among its recipients. `SoloInv` counts messages against dead runs;
  `DeliveryOneCopyPerRun` assumes a single host, and is false of two.
* **LedgerProofs**, for any maps, markets, publishers, graders and days.
  `Anchoring` strengthens `ManifestTellsTruth` and `ManifestComplete` by what
  holds of a run in progress (`RunIsSound`): it enters rows of its own day only;
  what it has read is among the day's hashes; a run that is alone really has no
  other on its day; and whatever a run is about to write under a complete day is
  what is there already. `Grading`: rows a transaction has updated are published,
  ungraded, and held by no other transaction, and no map a grader still holds is
  of an event that it has an outcome for (`Fresh`). `Polling`: what the resolver
  found is what the market said, and markets settle once. From these:
  `LedgerIsSoundAlways`, `GradesAreEarned`, and `LedgerImplementsBook`, where an
  insert is `Enter`, a commit is `GradeSome` and everything else a stutter.
* **GraphProofs**. `GraphInv`: not only the stored links but those in every open
  transaction and in the rebuild lead forward in time, and turning a row round
  for the other end and back is the identity (`OrientFollowsTime`). Hence
  `LinksFollowTime`, for any number of runs that overlap or die. `WholeInv`, as
  long as nothing overlapped (`disturbed`): whoever works is alone (`Alone`); a run
  has a link for each pair it has met, stored or its own (`RunsWhole`); and the
  rebuild, which deletes first, has one for each pair up to where it is
  (`RebuildWhole`), among rows of the corpus it loaded, since a failed embedding
  only ever takes events out of it (`BoundFades`). A dead rebuild leaves `bereft`
  behind, and a link is missing between two of these events at most. Hence
  `LinksStayWhole`, with `disturbed` set by overlaps alone.
* **ServicesProofs, Signals**, for any feeds and any number of ingest runs beside the merge
  script. `SignalsInv` joins five parts. `Stored`: merges are `Sound`, which means
  that every set of events has one that is merged out of it or not at all - circles
  are excluded without speaking of paths - and each document is with an event of
  its story. `Planned`: no event is both kept and merged away in a plan, so that
  carrying it out, even on a stale list, makes no circle (`SoundMerged`
  and its neighbours). `RunsFit`: what a run has written could join the store as it
  is now (`Grounded`), and each of its rows is unflushed, due, or locked by it.
  `HeldApart`: no two runs have locked one row, which is what the unique index
  does. `KeptMeansStored`: a post logged as kept has its event. Hence
  `NoStoryIsLost`; and `OneItemFallsAlone`, as a hazard item that was taken is
  stored, written or itself beaten.
* **ServicesProofs, accounts, advisories and trips**. The arguments are that what a
  request read is still so while nobody else has committed. `TenancyInv` (`UpToDate`, the count of admins)
  gives `LastAdminIsSafeAlone`; `PlansInv` (`StillRoom`, the count of follows, and
  `Caught`, the notices that remain lead to the plan that is paid for)
  gives `LimitsBreakOnlyInARace` and `PlansFollowSubscriptions`; `AdviceInv` gives
  `CurrentStaysLatest`: drafts of different runs are different rows
  (`DraftsApart`), a run that has put no sheet in front leaves in front the one
  that is there (`BackedUp`), and while no runs overlapped the sheet in front is
  one only and of the newest date, and what the active run has read still holds
  (`InOrderAlone`). `NobodyIsDropped` says of any window that days do
  not take a trip off the list.
* **DesksProofs**. `ChatInv`: counters are bounded by what the present step of
  the question allows (`AgentCost`, `ReasonerCost`), and text, findings and tools
  have a call behind them (`Sourced`). Hence `QuestionsAreBounded` and
  `AnswersSayWhatTheyAre`, however settings change meanwhile. `HarvestInv`: of
  every run under way, what its copy of a row says is what the feed did, also for
  the rows that it will write over another run's (`RunKnows`); counts are never
  above the failures in a row while no runs overlapped (`CountsAreEarned`). Hence
  `HealthStaysEarned`, for feeds that are pages only in its second half.
  `RegisterStaysConsistent`: `Working` says what an import has done after each row
  of the file - a key of the file leads to the last row that has it, a row it
  added shares its key with no other, every other row is as it was. From this
  follows that the import leaves the *same* identifiers ambiguous
  (`AmbiguityStays`), so that the second upload computes the same keys, finds its
  rows, and ends with what is there. `RoutesShareOneRule`: what a route filters is
  a list of gated events, whatever the cache names; the label and the predicate
  agree; a shorter beginning is a beginning of a longer one.

* **ScoresProofs**, about Calibration, for any scale, forecasts and number of rows.
  The invariant (`RowsAreGraded`) only says what the rows are; the work is in what
  is computed from them. Sums are recursive functions with the usual laws
  (`TotalLinear`, `TotalOrder`, `RowsByForecast`: a sum over rows is the sum over
  forecasts of the sums over their rows). A quotient in lowest terms is spoken of by
  any numerator and denominator it is worth (`Worth`), and sums of quotients are
  brought to a common denominator (`CommonMultiple`, `SumBelowWorth`). With these
  `MurphyIsTheBrier` is algebra, and `SkillIsTheVerdict` says that the scoreboard and
  the backtest round the same number to the same side. `BlocksArePooled`: after each
  row, the blocks that pooling keeps have rising rates, and no beginning of a block
  has a lower rate than the block; a block's rate is therefore the max-min of the
  isotonic regression (`RegressionLemma`). Recalibrated forecasts keep their order
  (`ApplyOrder`), and are no worse in the sample they were fitted on: the gain is a
  sum over rows of a rising weight times what is left of the outcomes, which the
  blocks make nonnegative by summation by parts (`LiftIsNatural`). Hence
  `CalibrationCorrect`.
* **ExposureProofs**, about Exposure, for any finite set of events, links, impacts and
  limits. `GraphIsLinkedOnce`: two events are linked at most once. Then five
  arguments on sums over finite sets (`SumExchange`, `SumMix`, `SumSubset`).
  *Attribution*: every round keeps the sum of an event's parts equal to its effect
  (`AttributionStep`: two sums change places), early stop or not. *Diffusion*: the
  rounds are compared with rounds that never stop (`Katz`). Where links lead upwards,
  after k rounds nothing moves any more at an event with fewer than k before it
  (`UpwardsDies`), so the diffusion settles, and what it had when it stopped is no
  more than all paths together (`KatzGrows`). *Links*: with one link less every round
  moves less, so the smaller graph stops no later and has no more when it stops
  (`FewerStopEarlier`). *Scale*: 100 bounds what saturation and stress make, and a
  weighted mean lies between the least and greatest (`ProfileIs`). *Chain*: the lazy
  search is correct although it is cut by hops. `IsTrail`: every label is the cost of
  a walk with as many links as its depth, its last link comes from a label exactly
  that much cheaper, and an event that no entry of the heap waits for has handed its
  label on (`Handled`). The number of entries plus the sum of all labels falls with
  every pop (`DropShrinks`, `ExpandShrinks`), which bounds the pops (`SearchEnds`) and
  ends with an empty heap. A strongest path with few links is then found link by link
  (`StraightIsFound`): each beginning of it is itself a strongest one that short.
  Hence `ExposureCorrect`.

**Induction over data.** The library's induction theorems take an operator as a
parameter and cannot be used. Where a definition goes through a list row by row
(an import, a filter, a diffusion round by round) the proofs do without: the
set of row numbers at which the statement fails is a set of numbers, a set of
numbers that is not empty has a least (`HasLeast`, `LeastNumber`), and that one is
neither 0 nor the successor of a row at which the statement holds. That a recursive
function is what its equation says is shown once for any rule that is a function
(`Recursion`, `Iteration`), and what holds of the empty set and survives one more
member holds of every finite set (`BuildUp`, by the number of members). For this Register, Readers,
Calibration and Exposure write their loops as recursive functions and not as folds,
and Signals describes the canonical events by what they are.

**Only model-checked.** All liveness (temporal reasoning under fairness is out of
the prover's reach); the four counterexamples; `ReadingIsSound`, because Reading is a
parser made of recursive operators, which a module with a theorem cannot reach; Links
and Enrichment, whose properties are liveness or a counterexample. Every other
invariant and action property of a run is stated by a theorem.

## 5. Not modelled

* Feed adapters and parsers of third-party formats, the geocoder, image handling,
  the geometry of what lies near a site: no state, and no order of steps to get
  wrong. What they deliver is any value.
* Search, notification and log-in routes, rate limiting, the MCP server: queries
  over tables the other components write.
* The RQ queue behind the admin trigger and the worker metrics: a run that is
  triggered is a second run in the models.
* The temporal layer and the analogs of the graph routes, their row limits and the
  world graph's gate on nodes, the data sets and reports of the benchmark scripts.
* Of an ingest, the generic exceptions of an item (`hazard_ingest_worker.py:339-340`)
  and the limit of 200 candidates a duplicate is looked for among (`:63-104`); of an
  import of sites, the row the database refuses, which its savepoint undoes
  (`sites.py:448-450`): `Files` holds rows that can be stored. The import reads the
  stored rows in no order; the model takes the order of insertion, which matters only
  where several have one key.
* The web client, the demo and development servers, migrations.

What would come next: the parser of Reading as functions over positions, so that it
can be proved about; that Signals, when the merge script is done, implements the
single step which Intake takes for it; and a composition of Ledger with Synthesis,
which makes the maps that Ledger takes as given.
