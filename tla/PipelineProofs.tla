--------------------------- MODULE PipelineProofs ---------------------------
(***************************************************************************)
(* First synthesis, for any articles, events and limits, in three layers:  *)
(* what any number of overlapping runs keeps, what needs one mapping run   *)
(* at a time, and what needs one run of each worker; the workers always    *)
(* interleave with each other, with the importance worker and with the     *)
(* ingest.  Then the intake half, for any batch limits, with at most one   *)
(* run of the cluster worker at a time, and the two halves put together:   *)
(* what is shown of each of them alone holds of the whole.                 *)
(***************************************************************************)
EXTENDS Pipeline, TLAPS

-----------------------------------------------------------------------------
(* Any number of runs.                                                     *)
MapsOnlyOfMapped == \A e \in Events : maps[e] # <<>> => e \in mapped

(* The articles a run holds belong to the event it sent them for.          *)
RowsBelong ==
    /\ \A m \in Mappers : \A a \in mapRows[m] :
          mapCur[m] # NoEvent /\ home[a] = mapCur[m]
    /\ \A v \in Evolvers : \A a \in evoRows[v] :
          evoCur[v] # NoEvent /\ home[a] = evoCur[v]
    /\ \A v \in Evolvers : \A a \in evoMarks[v] :
          home[a] \in Events /\ evoDraft[v][home[a]] # 0

(* An event of the mapping queue has an article, so it is never marked     *)
(* mapped for having none.                                                 *)
EventsHaveArticles ==
    \A e \in events \ mapped : \E a \in Articles : home[a] = e

ArticleInv ==
    /\ RowsBelong
    /\ ProcessedWasMapped
    /\ EventsHaveArticles
    /\ MapNotLost

CoreInv == SynthTypeOK /\ MapsOnlyOfMapped /\ ArticleInv

(* max(version) is the version of some map, or 0.                          *)
HasLatest ==
    \A e \in Events : \E n \in {0} \cup Range(maps[e]) :
        \A k \in Range(maps[e]) : n >= k

(* Runs that overlap may give one event the same version twice, but none is*)
(* ever skipped: below a version there are all the smaller ones.           *)
VersionsLeaveNoGap ==
    \A e \in Events : \A n \in Range(maps[e]) :
        \A k \in 1..n : k \in Range(maps[e])

(* n may come next among versions that leave no gap.                       *)
Follows(n, e) == n \in Nat \ {0} /\ n - 1 \in {0} \cup Range(maps[e])

HeldFollows ==
    /\ \A m \in Mappers :
          mapNext[m] # 0 => mapCur[m] # NoEvent /\ Follows(mapNext[m], mapCur[m])
    /\ \A v \in Evolvers, e \in Events :
          evoDraft[v][e] # 0 => e \in mapped /\ Follows(evoDraft[v][e], e)

NumberInv == HasLatest /\ VersionsLeaveNoGap /\ HeldFollows

SharedInv == CoreInv /\ NumberInv

-----------------------------------------------------------------------------
(* One mapping run at a time, any number of evolution runs: no other worker*)
(* maps the event a mapping run waits for.                                 *)
OneMapper == \A m, n \in Mappers : m = n

UnmappedInHand ==
    \A m \in Mappers : mapCur[m] # NoEvent => mapCur[m] \notin mapped

RevisionInv == UnmappedInHand /\ RevisionsFollowMaps

-----------------------------------------------------------------------------
(* One run of each.  An event a mapping run works on is not mapped yet, and*)
(* every event an evolution run works on is: so the version either of them *)
(* read is still the next one when it commits.                             *)
MappingIsAhead ==
    \A m \in Mappers :
        mapNext[m] # 0 => mapNext[m] = Len(maps[mapCur[m]]) + 1

DraftsAreNext ==
    \A v \in Evolvers, e \in Events :
        evoDraft[v][e] # 0 => evoDraft[v][e] = Len(maps[e]) + 1

VersionInv ==
    /\ VersionsContiguous
    /\ MappingIsAhead
    /\ DraftsAreNext

SynthInv == SharedInv /\ RevisionInv /\ VersionInv

-----------------------------------------------------------------------------
(* The highest version is a number, and the one after it may come next.    *)
LEMMA LatestFollows ==
    ASSUME SynthTypeOK, HasLatest, NEW e \in Events
    PROVE  /\ LatestVersion(e) \in Nat
           /\ Follows(LatestVersion(e) + 1, e)
<1> DEFINE S == {0} \cup Range(maps[e])
<1>1. S \subseteq Nat
  BY DEF SynthTypeOK, Range
<1>2. PICK n \in S : \A k \in S : n >= k
  <2>1. PICK n \in {0} \cup Range(maps[e]) : \A k \in Range(maps[e]) : n >= k
    BY DEF HasLatest
  <2> QED BY <1>1, <2>1
<1> HIDE DEF S
<1>3. Max(S) \in S
  BY <1>2 DEF Max
<1>4. LatestVersion(e) = Max(S)
  BY DEF LatestVersion, S
<1>5. S = {0} \cup Range(maps[e])
  BY DEF S
<1> QED BY <1>1, <1>3, <1>4, <1>5 DEF Follows

(* With contiguous versions the highest one is how many there are.         *)
LEMMA LatestIsLength ==
    ASSUME NEW e \in Events, maps[e] \in Seq(Nat),
           \A i \in DOMAIN maps[e] : maps[e][i] = i
    PROVE  LatestVersion(e) = Len(maps[e])
<1> DEFINE S == {0} \cup Range(maps[e])
<1>1. S = 0..Len(maps[e])
  BY DEF Range
<1>2. Len(maps[e]) \in S /\ \A y \in S : Len(maps[e]) >= y
  BY <1>1, SMTT(20)
<1>3. \A x \in S : (\A y \in S : x >= y) => x = Len(maps[e])
  BY <1>1, <1>2
<1> HIDE DEF S
<1>4. Max(S) = Len(maps[e])
  BY <1>2, <1>3 DEF Max
<1> QED BY <1>4 DEF LatestVersion, S

LEMMA AppendRange ==
    ASSUME NEW s \in Seq(Nat), NEW n \in Nat
    PROVE  Range(Append(s, n)) = Range(s) \cup {n}
<1>1. /\ DOMAIN Append(s, n) = 1..(Len(s) + 1) /\ DOMAIN s = 1..Len(s)
      /\ \A i \in 1..Len(s) : Append(s, n)[i] = s[i]
      /\ Append(s, n)[Len(s) + 1] = n /\ Len(s) \in Nat
  OBVIOUS
<1>2. ASSUME NEW x \in Range(Append(s, n)) PROVE x \in Range(s) \cup {n}
  BY <1>1 DEF Range
<1>3. ASSUME NEW x \in Range(s) \cup {n} PROVE x \in Range(Append(s, n))
  BY <1>1 DEF Range
<1> QED BY <1>2, <1>3

LEMMA SynthInvInit == SynthInit => SynthInv
<1> SUFFICES ASSUME SynthInit PROVE SynthInv
  OBVIOUS
<1> USE CorpusAssumption DEF SynthInit, SynthOwnInit, CorpusInit
<1>1. CoreInv
  <2>1. SynthTypeOK
    BY DEF SynthTypeOK, CorpusTypeOK, Depths, NoDraft
  <2>2. ArticleInv /\ MapsOnlyOfMapped
    BY DEF ArticleInv, RowsBelong, ProcessedWasMapped, EventsHaveArticles,
           MapNotLost, MapsOnlyOfMapped
  <2> QED BY <2>1, <2>2 DEF CoreInv
<1>2. NumberInv
  BY DEF NumberInv, HasLatest, VersionsLeaveNoGap, HeldFollows, NoDraft, Range
<1>3. RevisionInv
  BY DEF RevisionInv, UnmappedInHand, RevisionsFollowMaps
<1>4. VersionInv
  BY DEF VersionInv, VersionsContiguous, MappingIsAhead, DraftsAreNext, NoDraft
<1> QED BY <1>1, <1>2, <1>3, <1>4 DEF SynthInv, SharedInv

-----------------------------------------------------------------------------
(* Homes that do not move keep the articles in hand with their event, and  *)
(* the processed ones with a map.                                          *)
LEMMA HomesKept ==
    ASSUME CoreInv,
           \A b \in Articles : home[b] # NoEvent => home'[b] = home[b],
           UNCHANGED <<processed, mapRunVars, evoRunVars>>,
           mapped \subseteq mapped',
           \A e \in Events : maps[e] # <<>> => maps'[e] # <<>>
    PROVE  RowsBelong' /\ ProcessedWasMapped'
<1> USE CorpusAssumption DEF CoreInv, ArticleInv, SynthTypeOK, CorpusTypeOK,
   mapRunVars, evoRunVars
<1>1. RowsBelong'
  <2>1. \A e \in Events : e # NoEvent
    OBVIOUS
  <2>2. ASSUME NEW m \in Mappers, NEW a \in mapRows[m]
        PROVE  mapCur[m] # NoEvent /\ home'[a] = mapCur[m]
    <3>1. a \in Articles /\ mapCur[m] # NoEvent /\ home[a] = mapCur[m]
      BY <2>2 DEF RowsBelong
    <3> QED BY <3>1
  <2>3. ASSUME NEW v \in Evolvers, NEW a \in evoRows[v]
        PROVE  evoCur[v] # NoEvent /\ home'[a] = evoCur[v]
    <3>1. a \in Articles /\ evoCur[v] # NoEvent /\ home[a] = evoCur[v]
      BY <2>3 DEF RowsBelong
    <3> QED BY <3>1
  <2>4. ASSUME NEW v \in Evolvers, NEW a \in evoMarks[v]
        PROVE  home'[a] \in Events /\ evoDraft[v][home'[a]] # 0
    <3>1. a \in Articles /\ home[a] \in Events /\ evoDraft[v][home[a]] # 0
      BY <2>4 DEF RowsBelong
    <3>2. home'[a] = home[a]
      BY <3>1, <2>1
    <3> QED BY <3>1, <3>2
  <2> QED BY <2>2, <2>3, <2>4 DEF RowsBelong
<1>2. ProcessedWasMapped'
  <2>1. SUFFICES ASSUME NEW a \in processed
                 PROVE  home'[a] \in mapped' /\ maps'[home'[a]] # <<>>
    BY DEF ProcessedWasMapped
  <2>2. home[a] \in mapped /\ maps[home[a]] # <<>> /\ home[a] \in Events
    BY DEF ProcessedWasMapped
  <2>3. home'[a] = home[a]
    BY <2>2
  <2> QED BY <2>2, <2>3
<1> QED BY <1>1, <1>2

(* The cluster worker attaches articles: events grow, no home moves.       *)
LEMMA AttachStep ==
    ASSUME CoreInv, Attach PROVE CoreInv'
<1> USE DEF Attach, synthVars, tableVars, eventVars
<1>1. PICK A \in SUBSET {a \in Articles : home[a] = NoEvent} :
        \E choice \in [A -> Events] :
           /\ home' = [a \in Articles |-> IF a \in A THEN choice[a]
                                                     ELSE home[a]]
           /\ events' = events \cup {choice[a] : a \in A}
  OBVIOUS
<1>2. PICK choice \in [A -> Events] :
           /\ home' = [a \in Articles |-> IF a \in A THEN choice[a]
                                                     ELSE home[a]]
           /\ events' = events \cup {choice[a] : a \in A}
  BY <1>1
<1>3. SynthTypeOK'
  BY <1>2 DEF CoreInv, SynthTypeOK, CorpusTypeOK, mapRunVars, evoRunVars
<1>4. MapsOnlyOfMapped'
  BY DEF CoreInv, MapsOnlyOfMapped
<1>5. \A a \in Articles : home[a] # NoEvent => home'[a] = home[a]
  BY <1>2
<1>6. \A e \in Events : e # NoEvent
  BY CorpusAssumption
<1>7. RowsBelong' /\ ProcessedWasMapped'
  <2>1. \A e \in Events : maps[e] # <<>> => maps'[e] # <<>>
    OBVIOUS
  <2>2. mapped \subseteq mapped'
    OBVIOUS
  <2>3. UNCHANGED <<processed, mapRunVars, evoRunVars>>
    OBVIOUS
  <2> QED BY <1>5, <2>1, <2>2, <2>3, HomesKept
<1>8. EventsHaveArticles'
  <2>1. SUFFICES ASSUME NEW e \in events' \ mapped
                 PROVE  \E a \in Articles : home'[a] = e
    BY DEF EventsHaveArticles
  <2>2. CASE e \in events
    BY <2>2, <1>5, <1>6 DEF CoreInv, ArticleInv, EventsHaveArticles,
       SynthTypeOK, CorpusTypeOK
  <2>3. CASE \E a \in A : e = choice[a]
    BY <2>3, <1>2
  <2> QED BY <2>1, <2>2, <2>3, <1>2
<1>9. MapNotLost'
  BY DEF CoreInv, ArticleInv, MapNotLost
<1> QED BY <1>3, <1>4, <1>7, <1>8, <1>9 DEF CoreInv, ArticleInv

LEMMA RevectorStep ==
    ASSUME CoreInv, Revector PROVE CoreInv'
BY DEF Revector, CoreInv, ArticleInv, synthVars, tableVars, eventVars,
   mapRunVars, evoRunVars, SynthTypeOK, CorpusTypeOK, MapsOnlyOfMapped,
   RowsBelong, ProcessedWasMapped, EventsHaveArticles, MapNotLost

LEMMA StutterStep ==
    ASSUME CoreInv, UNCHANGED <<corpusVars, synthVars>> PROVE CoreInv'
BY DEF corpusVars, CoreInv, ArticleInv, synthVars, tableVars, eventVars,
   mapRunVars, evoRunVars, SynthTypeOK, CorpusTypeOK, MapsOnlyOfMapped,
   RowsBelong, ProcessedWasMapped, EventsHaveArticles, MapNotLost

(* The ingest attaches at most one article, one that had no event.         *)
LEMMA FeedAttachStep ==
    ASSUME CoreInv, NEW e \in Events, FeedAttach(e), e \in mapped',
           events' \subseteq events \cup mapped', mapped \subseteq mapped',
           \A f \in Events : maps[f] # <<>> => maps'[f] # <<>>
    PROVE  /\ home' \in [Articles -> Events \cup {NoEvent}]
           /\ importance' \in [Articles -> 0..1]
           /\ RowsBelong' /\ ProcessedWasMapped' /\ EventsHaveArticles'
<1>1. /\ home \in [Articles -> Events \cup {NoEvent}] /\ events \subseteq Events
      /\ importance \in [Articles -> 0..1]
  BY DEF CoreInv, SynthTypeOK, CorpusTypeOK
<1>2. /\ home' \in [Articles -> Events \cup {NoEvent}]
      /\ importance' \in [Articles -> 0..1]
      /\ \A b \in Articles : home[b] # NoEvent => home'[b] = home[b]
  BY <1>1 DEF FeedAttach
<1>3. EventsHaveArticles'
  <2>1. SUFFICES ASSUME NEW f \in events' \ mapped'
                 PROVE  \E a \in Articles : home'[a] = f
    BY DEF EventsHaveArticles
  <2>2. PICK a \in Articles : home[a] = f
    BY <2>1 DEF CoreInv, ArticleInv, EventsHaveArticles
  <2> QED BY <1>1, <1>2, <2>1, <2>2, CorpusAssumption
<1>4. RowsBelong' /\ ProcessedWasMapped'
  BY <1>2, HomesKept DEF FeedAttach
<1> QED BY <1>2, <1>3, <1>4

(* A new event comes with a map.                                           *)
LEMMA FeedNewStep ==
    ASSUME CoreInv, NEW e \in Events, FeedNew(e)
    PROVE  CoreInv'
<1> USE CorpusAssumption DEF CoreInv, mapRunVars, evoRunVars, Born
<1>1. /\ e \notin events /\ events' = events \cup {e}
      /\ e \notin mapped /\ e \notin scored /\ maps[e] = <<>>
      /\ maps' = [maps EXCEPT ![e] = <<1>>]
      /\ mapped' = mapped \cup {e} /\ scored' = scored \cup {e}
      /\ <<1>> \in Seq(Nat) /\ <<1>> # <<>>
  BY DEF FeedNew, SynthTypeOK, MapsOnlyOfMapped
<1>2. \A f \in Events : maps[f] # <<>> => maps'[f] # <<>>
  BY <1>1 DEF SynthTypeOK
<1>3. /\ home' \in [Articles -> Events \cup {NoEvent}]
      /\ importance' \in [Articles -> 0..1]
      /\ RowsBelong' /\ ProcessedWasMapped' /\ EventsHaveArticles'
  <2>1. e \in mapped' /\ events' \subseteq events \cup mapped'
        /\ mapped \subseteq mapped'
    BY <1>1
  <2> QED BY <1>2, <2>1, FeedAttachStep DEF FeedNew
<1>4. SynthTypeOK'
  BY <1>1, <1>3 DEF FeedNew, FeedAttach, SynthTypeOK, CorpusTypeOK
<1>5. MapsOnlyOfMapped'
  BY <1>1 DEF MapsOnlyOfMapped, SynthTypeOK
<1>6. MapNotLost'
  BY <1>1 DEF FeedNew, ArticleInv, MapNotLost, SynthTypeOK
<1> QED BY <1>3, <1>4, <1>5, <1>6 DEF ArticleInv

(* A merged duplicate comes without a map.                                 *)
LEMMA FeedFoldStep ==
    ASSUME CoreInv, NEW d \in Events, NEW e \in Events, FeedFoldInto(d, e)
    PROVE  CoreInv'
<1> USE CorpusAssumption DEF CoreInv, mapRunVars, evoRunVars, Born, Findable
<1>1. /\ d \notin events /\ events' = events \cup {d} /\ d \notin mapped
      /\ mapped' = mapped \cup {d} /\ scored' = scored \cup {d}
      /\ merged' = merged \cup {d} /\ maps' = maps
      /\ e \in mapped /\ maps[e] # <<>>
  BY DEF FeedFoldInto, SynthTypeOK
<1>2. /\ home' \in [Articles -> Events \cup {NoEvent}]
      /\ importance' \in [Articles -> 0..1]
      /\ RowsBelong' /\ ProcessedWasMapped' /\ EventsHaveArticles'
  <2>1. e \in mapped' /\ events' \subseteq events \cup mapped'
        /\ mapped \subseteq mapped'
        /\ \A f \in Events : maps[f] # <<>> => maps'[f] # <<>>
    BY <1>1
  <2> QED BY <2>1, FeedAttachStep DEF FeedFoldInto
<1>3. PICK s \in Depths, t \in Depths :
        t >= score[e] /\ score' = [score EXCEPT ![d] = s, ![e] = t]
  BY DEF FeedFoldInto
<1>4. /\ score' \in [Events -> Depths]
      /\ \A f \in Events \ {d, e} : score'[f] = score[f]
  BY <1>3 DEF SynthTypeOK
<1>5. active' \subseteq Events
  BY DEF FeedFoldInto, SynthTypeOK
<1>6. CorpusTypeOK'
  BY <1>1, <1>2 DEF FeedFoldInto, FeedAttach, SynthTypeOK,
     CorpusTypeOK
<1>7. UNCHANGED <<processed, revisions, mapTodo, mapCur, mapRows, mapNext,
                  evoTodo, evoCur, evoRows, evoDraft, evoMarks>>
  BY DEF FeedFoldInto, FeedAttach
<1>8. SynthTypeOK'
  BY <1>1, <1>2, <1>4, <1>5, <1>6, <1>7 DEF SynthTypeOK
<1>9. MapsOnlyOfMapped'
  BY <1>1 DEF MapsOnlyOfMapped
<1>10. MapNotLost'
  BY <1>1, <1>4 DEF ArticleInv, MapNotLost, SynthTypeOK, CorpusTypeOK
<1> QED BY <1>2, <1>8, <1>9, <1>10 DEF ArticleInv

LEMMA FeedRefreshStep ==
    ASSUME CoreInv, NEW e \in Events, FeedRefresh(e)
    PROVE  CoreInv'
<1> USE CorpusAssumption DEF CoreInv, mapRunVars, evoRunVars, Findable
<1>1. /\ home' \in [Articles -> Events \cup {NoEvent}]
      /\ importance' \in [Articles -> 0..1]
      /\ RowsBelong' /\ ProcessedWasMapped' /\ EventsHaveArticles'
  <2>1. e \in mapped' /\ events' \subseteq events \cup mapped'
        /\ mapped \subseteq mapped'
        /\ \A f \in Events : maps[f] # <<>> => maps'[f] # <<>>
    BY DEF FeedRefresh
  <2> QED BY <2>1, FeedAttachStep DEF FeedRefresh
<1>2. SynthTypeOK' /\ MapsOnlyOfMapped'
  BY <1>1 DEF FeedRefresh, FeedAttach, SynthTypeOK, CorpusTypeOK,
     MapsOnlyOfMapped
<1>3. MapNotLost'
  BY DEF FeedRefresh, ArticleInv, MapNotLost, SynthTypeOK
<1> QED BY <1>1, <1>2, <1>3 DEF ArticleInv

(* Scoring touches only events that are not mapped.                        *)
LEMMA ScoreStep ==
    ASSUME CoreInv, Score PROVE CoreInv'
<1> USE DEF CoreInv, mapRunVars, evoRunVars, corpusVars
<1>1. PICK S \in SUBSET ((events \ scored) \ mapped) :
         /\ scored' = scored \cup S
         /\ \E grade \in [{e \in S : Members(e) # {}} -> Depths] :
              score' = [e \in Events |-> IF e \in DOMAIN grade THEN grade[e]
                                                               ELSE score[e]]
         /\ \E grade \in [UNION {Members(e) : e \in S} -> 0..1] :
              importance' = [a \in Articles |->
                               IF a \in DOMAIN grade THEN grade[a]
                                                     ELSE importance[a]]
  BY DEF Score
<1>2. /\ score' \in [Events -> Depths]
      /\ \A e \in Events : e \notin S => score'[e] = score[e]
  BY <1>1 DEF SynthTypeOK
<1>3. importance' \in [Articles -> 0..1]
  BY <1>1 DEF SynthTypeOK
<1>4. SynthTypeOK'
  BY <1>1, <1>2, <1>3 DEF Score, SynthTypeOK, CorpusTypeOK
<1>5. MapsOnlyOfMapped'
  BY DEF Score, MapsOnlyOfMapped
<1>6. RowsBelong' /\ ProcessedWasMapped' /\ EventsHaveArticles'
  BY DEF Score, ArticleInv, RowsBelong, ProcessedWasMapped, EventsHaveArticles
<1>7. MapNotLost'
  BY <1>1, <1>2 DEF Score, ArticleInv, MapNotLost, SynthTypeOK,
     CorpusTypeOK
<1> QED BY <1>4, <1>5, <1>6, <1>7 DEF ArticleInv

-----------------------------------------------------------------------------
(* An event that another run has mapped meanwhile is mapped once more.     *)
LEMMA MapCommitStep ==
    ASSUME CoreInv, NEW m \in Mappers, MapCommit(m)
    PROVE  CoreInv'
<1> DEFINE e == mapCur[m]
<1> USE CorpusAssumption DEF CoreInv, evoRunVars, corpusVars
<1>1. /\ e \in Events /\ e \in events
      /\ mapNext[m] \in Nat /\ maps[e] \in Seq(Nat)
      /\ maps' = [maps EXCEPT ![e] = Append(@, mapNext[m])]
      /\ mapped' = mapped \cup {e}
  BY DEF MapCommit, SynthTypeOK, CorpusTypeOK
<1>2. Append(maps[e], mapNext[m]) \in Seq(Nat) \ {<<>>}
  BY <1>1
<1>3. /\ maps' \in [Events -> Seq(Nat)]
      /\ maps'[e] # <<>>
      /\ \A f \in Events : f # e => maps'[f] = maps[f]
  BY <1>1, <1>2 DEF SynthTypeOK
<1>4. /\ mapCur' = [mapCur EXCEPT ![m] = NoEvent]
      /\ mapRows' = [mapRows EXCEPT ![m] = {}]
      /\ mapNext' = [mapNext EXCEPT ![m] = 0]
  BY DEF MapCommit, MapDone
<1>5. SynthTypeOK'
  BY <1>1, <1>3, <1>4 DEF MapCommit, SynthTypeOK, CorpusTypeOK
<1>6. MapsOnlyOfMapped'
  BY <1>1, <1>3 DEF MapsOnlyOfMapped
<1>7. RowsBelong'
  BY <1>4 DEF MapCommit, ArticleInv, RowsBelong, SynthTypeOK
<1>8. ProcessedWasMapped'
  <2>1. \A a \in mapRows[m] : home[a] = e
    BY DEF ArticleInv, RowsBelong
  <2> QED BY <1>1, <1>3, <2>1 DEF MapCommit, ArticleInv, ProcessedWasMapped,
             SynthTypeOK, CorpusTypeOK
<1>9. EventsHaveArticles'
  BY DEF MapCommit, ArticleInv, EventsHaveArticles
<1>10. MapNotLost'
  BY <1>1, <1>3 DEF MapCommit, ArticleInv, MapNotLost, SynthTypeOK,
     CorpusTypeOK
<1> QED BY <1>5, <1>6, <1>7, <1>8, <1>9, <1>10 DEF ArticleInv

(* The other steps of a mapping run write no map.                          *)
LEMMA MapRunStep ==
    ASSUME CoreInv, HasLatest, NEW m \in Mappers, MapNextStep(m)
    PROVE  CoreInv'
<1> USE CorpusAssumption DEF CoreInv, evoRunVars, tableVars, eventVars,
   corpusVars
<1>1. CASE MapSelect(m)
  <2>1. PICK S \in TopSets(scored \ mapped, MapLimit, score) :
          mapTodo' = [mapTodo EXCEPT ![m] = S]
    BY <1>1 DEF MapSelect
  <2>2. S \subseteq events
    BY DEF TopSets, SynthTypeOK
  <2>3. SynthTypeOK'
    BY <1>1, <2>1, <2>2 DEF MapSelect, SynthTypeOK, CorpusTypeOK
  <2> QED BY <1>1, <2>3 DEF MapSelect, ArticleInv, MapsOnlyOfMapped,
     RowsBelong, ProcessedWasMapped, EventsHaveArticles, MapNotLost
<1>2. CASE MapAnswer(m)
  <2> DEFINE e == mapCur[m]
  <2>1. e \in Events
    BY <1>2 DEF MapAnswer, SynthTypeOK, CorpusTypeOK
  <2>2. LatestVersion(e) \in Nat
    BY <2>1, LatestFollows
  <2>3. SynthTypeOK'
    BY <1>2, <2>2 DEF MapAnswer, SynthTypeOK, CorpusTypeOK
  <2> QED BY <1>2, <2>3 DEF MapAnswer, ArticleInv,
     MapsOnlyOfMapped, RowsBelong, ProcessedWasMapped, EventsHaveArticles,
     MapNotLost
<1>3. CASE MapCommit(m)
  BY <1>3, MapCommitStep
<1>4. CASE MapFail(m) \/ MapCrash(m)
  <2>1. /\ mapCur' = [mapCur EXCEPT ![m] = NoEvent]
        /\ mapRows' = [mapRows EXCEPT ![m] = {}]
        /\ mapNext' = [mapNext EXCEPT ![m] = 0]
        /\ mapTodo' \in [Mappers -> SUBSET events]
        /\ UNCHANGED <<evoRunVars, tableVars, corpusVars>>
    BY <1>4 DEF MapFail, MapCrash, MapDone, SynthTypeOK
  <2>2. SynthTypeOK'
    BY <2>1 DEF SynthTypeOK, CorpusTypeOK
  <2>3. RowsBelong'
    BY <2>1 DEF ArticleInv, RowsBelong, SynthTypeOK
  <2> QED BY <2>1, <2>2, <2>3 DEF ArticleInv, MapsOnlyOfMapped,
     ProcessedWasMapped, EventsHaveArticles, MapNotLost
<1>5. ASSUME NEW e \in Events, MapSkip(m, e)
      PROVE  CoreInv'
  <2>1. /\ e \in events
        /\ e \in mapped \/ score[e] = 0
        /\ mapped' = mapped \cup {e}
    <3>1. e \in events
      BY <1>5 DEF MapSkip, NextInPlan, SynthTypeOK
    <3>2. e \notin mapped => Members(e) # {}
      BY <3>1 DEF ArticleInv, EventsHaveArticles, Members
    <3> QED BY <1>5, <3>1, <3>2 DEF MapSkip
  <2>2. SynthTypeOK'
    BY <1>5, <2>1 DEF MapSkip, NextInPlan, SynthTypeOK, CorpusTypeOK
  <2> QED BY <1>5, <2>1, <2>2 DEF MapSkip, ArticleInv,
     MapsOnlyOfMapped, RowsBelong, ProcessedWasMapped, EventsHaveArticles,
     MapNotLost
<1>6. ASSUME NEW e \in Events, MapAsk(m, e)
      PROVE  CoreInv'
  <2>1. PICK R \in TopSets(Members(e), RowLimit, importance) :
          mapRows' = [mapRows EXCEPT ![m] = R]
    BY <1>6 DEF MapAsk
  <2>2. R \subseteq Articles /\ \A a \in R : home[a] = e
    BY DEF TopSets, Members
  <2>3. e \in events
    BY <1>6 DEF MapAsk, NextInPlan, SynthTypeOK
  <2>4. SynthTypeOK'
    BY <1>6, <2>1, <2>2, <2>3 DEF MapAsk, NextInPlan, SynthTypeOK,
       CorpusTypeOK
  <2>5. RowsBelong'
    BY <1>6, <2>1, <2>2, <2>3 DEF MapAsk, ArticleInv, RowsBelong,
       SynthTypeOK, CorpusTypeOK
  <2> QED BY <1>6, <2>4, <2>5 DEF MapAsk, ArticleInv,
     MapsOnlyOfMapped, ProcessedWasMapped, EventsHaveArticles, MapNotLost
<1> QED BY <1>1, <1>2, <1>3, <1>4, <1>5, <1>6 DEF MapNextStep

-----------------------------------------------------------------------------
(* Every draft is of a mapped event.                                       *)
LEMMA EvolveCommitStep ==
    ASSUME CoreInv, HeldFollows, NEW v \in Evolvers, EvolveCommit(v)
    PROVE  CoreInv'
<1> USE CorpusAssumption DEF CoreInv, mapRunVars, corpusVars
<1>1. /\ \A e \in Drafted(v) : /\ e \in Events /\ e \in mapped
                               /\ evoDraft[v][e] \in Nat
                               /\ maps'[e] = Append(maps[e], evoDraft[v][e])
      /\ \A e \in Events \ Drafted(v) : maps'[e] = maps[e]
      /\ \A e \in Events : maps[e] \in Seq(Nat)
  BY DEF EvolveCommit, Drafted, HeldFollows, SynthTypeOK
<1>2. /\ maps' \in [Events -> Seq(Nat)]
      /\ revisions' \in [Events -> Nat]
      /\ active' \subseteq Events
  <2>1. maps' \in [Events -> Seq(Nat)]
    <3>1. ASSUME NEW e \in Events PROVE maps'[e] \in Seq(Nat)
      <4>1. CASE e \in Drafted(v)
        <5>1. \A s \in Seq(Nat), n \in Nat : Append(s, n) \in Seq(Nat)
          OBVIOUS
        <5> QED BY <1>1, <4>1, <5>1
      <4>2. CASE e \notin Drafted(v)
        BY <1>1, <4>2
      <4> QED BY <4>1, <4>2
    <3>2. maps' = [e \in Events |-> maps'[e]]
      BY DEF EvolveCommit
    <3> QED BY <3>1, <3>2
  <2>2. revisions' \in [Events -> Nat]
    BY DEF EvolveCommit, SynthTypeOK
  <2>3. active' \subseteq Events
    BY DEF EvolveCommit, Drafted, SynthTypeOK
  <2> QED BY <2>1, <2>2, <2>3
<1>3. /\ evoTodo' = [evoTodo EXCEPT ![v] = {}]
      /\ evoCur' = [evoCur EXCEPT ![v] = NoEvent]
      /\ evoRows' = [evoRows EXCEPT ![v] = {}]
      /\ evoDraft' = [evoDraft EXCEPT ![v] = NoDraft]
      /\ evoMarks' = [evoMarks EXCEPT ![v] = {}]
      /\ NoDraft \in [Events -> Nat]
  BY DEF EvolveCommit, EvolveEnd, NoDraft
<1>4. SynthTypeOK'
  BY <1>2, <1>3 DEF EvolveCommit, SynthTypeOK, CorpusTypeOK
<1>5. MapsOnlyOfMapped'
  BY <1>1 DEF EvolveCommit, MapsOnlyOfMapped
<1>6. \A e \in Events : maps[e] # <<>> \/ e \in Drafted(v) => maps'[e] # <<>>
  <2>1. \A s \in Seq(Nat), n \in Nat : Append(s, n) # <<>>
    OBVIOUS
  <2> QED BY <1>1, <2>1
<1>7. RowsBelong' /\ EventsHaveArticles'
  BY <1>3 DEF EvolveCommit, ArticleInv, RowsBelong, EventsHaveArticles,
              SynthTypeOK
<1>8. ProcessedWasMapped'
  <2>1. SUFFICES ASSUME NEW a \in processed'
                 PROVE  home[a] \in mapped /\ maps'[home[a]] # <<>>
    BY DEF EvolveCommit, ProcessedWasMapped
  <2>2. CASE a \in processed
    BY <2>2, <1>6 DEF ArticleInv, ProcessedWasMapped, SynthTypeOK,
       CorpusTypeOK
  <2>3. CASE a \in evoMarks[v]
    BY <2>3, <1>1, <1>6 DEF ArticleInv, RowsBelong, Drafted
  <2> QED BY <2>2, <2>3 DEF EvolveCommit
<1>9. MapNotLost'
  BY <1>6 DEF EvolveCommit, ArticleInv, MapNotLost, SynthTypeOK, CorpusTypeOK
<1> QED BY <1>4, <1>5, <1>7, <1>8, <1>9 DEF ArticleInv

(* The other steps of an evolution run commit nothing.                     *)
LEMMA EvolveRunStep ==
    ASSUME SharedInv, NEW v \in Evolvers, EvolveNextStep(v)
    PROVE  CoreInv'
<1> USE CorpusAssumption DEF SharedInv, CoreInv, mapRunVars, tableVars,
                             eventVars, corpusVars
<1>1. CASE EvolveSelect(v)
  <2>1. PICK S \in SUBSET (mapped \cap active) :
          evoTodo' = [evoTodo EXCEPT ![v] = S]
    BY <1>1 DEF EvolveSelect
  <2>2. SynthTypeOK'
    BY <1>1, <2>1 DEF EvolveSelect, SynthTypeOK, CorpusTypeOK
  <2> QED BY <1>1, <2>2 DEF EvolveSelect, ArticleInv,
     MapsOnlyOfMapped, RowsBelong, ProcessedWasMapped, EventsHaveArticles,
     MapNotLost
<1>2. CASE EvolveAnswer(v)
  <2> DEFINE e == evoCur[v]
  <2>1. e \in Events /\ e \in mapped
    BY <1>2 DEF EvolveAnswer, SynthTypeOK, CorpusTypeOK
  <2>2. PICK n \in Nat \ {0} : n = LatestVersion(e) + 1
    BY <2>1, LatestFollows DEF NumberInv, Follows
  <2>3. /\ evoDraft' = [evoDraft EXCEPT ![v][e] = n]
        /\ evoMarks' = [evoMarks EXCEPT ![v] = @ \cup evoRows[v]]
        /\ evoCur' = [evoCur EXCEPT ![v] = NoEvent]
        /\ evoRows' = [evoRows EXCEPT ![v] = {}]
    BY <1>2, <2>2 DEF EvolveAnswer
  <2>4. SynthTypeOK'
    BY <1>2, <2>1, <2>3 DEF EvolveAnswer, SynthTypeOK, CorpusTypeOK
  <2>5. RowsBelong'
    <3>1. \A a \in evoRows[v] : home[a] = e
      BY DEF ArticleInv, RowsBelong
    <3>2. /\ \A w \in Evolvers, f \in Events :
                evoDraft[w][f] # 0 => evoDraft'[w][f] # 0
          /\ evoDraft'[v][e] # 0
      BY <2>1, <2>3 DEF SynthTypeOK
    <3>3. \A a \in evoMarks'[v] :
             home[a] \in Events /\ evoDraft'[v][home[a]] # 0
      BY <2>1, <2>3, <3>1, <3>2 DEF ArticleInv, RowsBelong, SynthTypeOK
    <3>4. evoRows'[v] = {}
      BY <2>3 DEF SynthTypeOK
    <3>5. \A w \in Evolvers : w # v =>
            /\ evoMarks'[w] = evoMarks[w] /\ evoRows'[w] = evoRows[w]
            /\ evoCur'[w] = evoCur[w]
      BY <2>3 DEF SynthTypeOK
    <3>6. \A w \in Evolvers : \A a \in evoMarks'[w] :
             home[a] \in Events /\ evoDraft'[w][home[a]] # 0
      BY <3>2, <3>3, <3>5 DEF ArticleInv, RowsBelong
    <3> QED BY <1>2, <3>4, <3>5, <3>6 DEF EvolveAnswer, ArticleInv, RowsBelong
  <2> QED BY <1>2, <2>4, <2>5 DEF EvolveAnswer, ArticleInv,
     MapsOnlyOfMapped, ProcessedWasMapped, EventsHaveArticles, MapNotLost
<1>3. CASE EvolveFail(v)
  <2>1. SynthTypeOK'
    BY <1>3 DEF EvolveFail, SynthTypeOK, CorpusTypeOK
  <2>2. RowsBelong'
    BY <1>3 DEF EvolveFail, ArticleInv, RowsBelong, SynthTypeOK
  <2> QED BY <1>3, <2>1, <2>2 DEF EvolveFail, ArticleInv,
     MapsOnlyOfMapped, ProcessedWasMapped, EventsHaveArticles, MapNotLost
<1>4. CASE EvolveCommit(v)
  BY <1>4, EvolveCommitStep DEF NumberInv
<1>5. CASE EvolveCrash(v)
  <2>1. NoDraft \in [Events -> Nat] /\ \A e \in Events : NoDraft[e] = 0
    BY DEF NoDraft
  <2>2. SynthTypeOK'
    BY <1>5, <2>1 DEF EvolveCrash, EvolveEnd, SynthTypeOK,
       CorpusTypeOK
  <2>3. RowsBelong'
    BY <1>5, <2>1 DEF EvolveCrash, EvolveEnd, ArticleInv, RowsBelong,
       SynthTypeOK
  <2> QED BY <1>5, <2>2, <2>3 DEF EvolveCrash, ArticleInv,
     MapsOnlyOfMapped, ProcessedWasMapped, EventsHaveArticles, MapNotLost
<1>6. ASSUME NEW e \in Events, EvolveSkip(v, e)
      PROVE  CoreInv'
  <2>1. SynthTypeOK'
    BY <1>6 DEF EvolveSkip, SynthTypeOK, CorpusTypeOK
  <2> QED BY <1>6, <2>1 DEF EvolveSkip, ArticleInv, MapsOnlyOfMapped,
     RowsBelong, ProcessedWasMapped, EventsHaveArticles, MapNotLost
<1>7. ASSUME NEW e \in Events, EvolveAsk(v, e)
      PROVE  CoreInv'
  <2>1. PICK R \in TopSets(Members(e), RowLimit, importance) :
          evoRows' = [evoRows EXCEPT ![v] = R]
    BY <1>7 DEF EvolveAsk
  <2>2. R \subseteq Articles /\ \A a \in R : home[a] = e
    BY DEF TopSets, Members
  <2>3. e \in mapped /\ e # NoEvent
    BY <1>7 DEF EvolveAsk, SynthTypeOK
  <2>4. SynthTypeOK'
    BY <1>7, <2>1, <2>2, <2>3 DEF EvolveAsk, SynthTypeOK,
       CorpusTypeOK
  <2>5. RowsBelong'
    BY <1>7, <2>1, <2>2, <2>3 DEF EvolveAsk, ArticleInv, RowsBelong,
       SynthTypeOK
  <2> QED BY <1>7, <2>4, <2>5 DEF EvolveAsk, ArticleInv,
     MapsOnlyOfMapped, ProcessedWasMapped, EventsHaveArticles, MapNotLost
<1> QED BY <1>1, <1>2, <1>3, <1>4, <1>5, <1>6, <1>7 DEF EvolveNextStep

LEMMA CoreStep ==
    ASSUME SharedInv, [SynthNext]_<<corpusVars, synthVars>>
    PROVE  CoreInv'
<1> USE DEF SharedInv, NumberInv
<1>1. CASE SynthNext
  BY <1>1, AttachStep, RevectorStep, FeedNewStep, FeedFoldStep,
     FeedRefreshStep, ScoreStep, MapRunStep, EvolveRunStep
     DEF SynthNext, WorkerStep
<1>2. CASE UNCHANGED <<corpusVars, synthVars>>
  BY <1>2, StutterStep
<1> QED BY <1>1, <1>2

-----------------------------------------------------------------------------
(* Maps that have all but one or none more than before, which follows.     *)
Grows(e) ==
    \/ maps'[e] = maps[e]
    \/ \E n \in Nat \ {0} : Follows(n, e) /\ maps'[e] = Append(maps[e], n)

(* Every step adds versions that follow the ones there are.                *)
LEMMA MapsGrow ==
    ASSUME SharedInv, [SynthNext]_<<corpusVars, synthVars>>
    PROVE  \A e \in Events : Grows(e)
<1> USE CorpusAssumption DEF Grows
<1>1. ASSUME NEW e \in Events, FeedNew(e)
      PROVE  \A f \in Events : Grows(f)
  <2>1. maps[e] = <<>> /\ maps' = [maps EXCEPT ![e] = <<1>>]
        /\ maps \in [Events -> Seq(Nat)]
    BY <1>1 DEF FeedNew, Born, SharedInv, CoreInv, SynthTypeOK,
       MapsOnlyOfMapped
  <2>2. Append(maps[e], 1) = <<1>> /\ Follows(1, e) /\ 1 \in Nat \ {0}
    BY <2>1 DEF Follows
  <2> QED BY <2>1, <2>2
<1>2. ASSUME NEW m \in Mappers, MapCommit(m)
      PROVE  \A f \in Events : Grows(f)
  <2>1. /\ maps' = [maps EXCEPT ![mapCur[m]] = Append(@, mapNext[m])]
        /\ Follows(mapNext[m], mapCur[m]) /\ mapNext[m] \in Nat \ {0}
        /\ maps \in [Events -> Seq(Nat)]
    BY <1>2 DEF MapCommit, SharedInv, CoreInv, NumberInv, HeldFollows,
       SynthTypeOK
  <2> QED BY <2>1
<1>3. ASSUME NEW v \in Evolvers, EvolveCommit(v)
      PROVE  \A f \in Events : Grows(f)
  <2>1. \A e \in Drafted(v) : Follows(evoDraft[v][e], e)
                             /\ evoDraft[v][e] \in Nat \ {0}
    BY DEF Drafted, SharedInv, NumberInv, HeldFollows, CoreInv, SynthTypeOK
  <2>2. \A e \in Events :
          maps'[e] = IF e \in Drafted(v) THEN Append(maps[e], evoDraft[v][e])
                                         ELSE maps[e]
    BY <1>3 DEF EvolveCommit
  <2> QED BY <2>1, <2>2
<1>4. ASSUME NEW m \in Mappers, MapNextStep(m), ~MapCommit(m)
      PROVE  maps' = maps
  BY <1>4 DEF MapNextStep, MapSelect, MapAnswer, MapFail, MapCrash,
     MapSkip, MapAsk, tableVars
<1>5. ASSUME NEW v \in Evolvers, EvolveNextStep(v), ~EvolveCommit(v)
      PROVE  maps' = maps
  BY <1>5 DEF EvolveNextStep, EvolveSelect, EvolveAnswer, EvolveFail,
     EvolveCrash, EvolveSkip, EvolveAsk, tableVars
<1>6. ASSUME NEW d \in Events, NEW e \in Events,
             FeedRefresh(e) \/ FeedFoldInto(d, e)
      PROVE  maps' = maps
  BY <1>6 DEF FeedRefresh, FeedFoldInto
<1>7. CASE Score \/ Attach \/ Revector \/ UNCHANGED <<corpusVars, synthVars>>
  BY <1>7 DEF Score, Attach, Revector, synthVars, tableVars
<1> QED BY <1>1, <1>2, <1>3, <1>4, <1>5, <1>6, <1>7 DEF SynthNext, WorkerStep

(* What a run holds in its hands stays, goes, or is the version after the  *)
(* latest.                                                                 *)
LEMMA HandsStep ==
    ASSUME SharedInv, [SynthNext]_<<corpusVars, synthVars>>
    PROVE  /\ mapped \subseteq mapped'
           /\ \A m \in Mappers :
                \/ mapNext'[m] = 0
                \/ /\ mapCur'[m] = mapCur[m] /\ mapCur[m] # NoEvent
                   /\ mapNext'[m] \in {mapNext[m], LatestVersion(mapCur[m]) + 1}
           /\ \A v \in Evolvers, e \in Events :
                \/ evoDraft'[v][e] \in {0, evoDraft[v][e]}
                \/ e \in mapped /\ evoDraft'[v][e] = LatestVersion(e) + 1
<1> DEFINE Hands ==
      /\ mapped \subseteq mapped'
      /\ \A m \in Mappers :
           \/ mapNext'[m] = 0
           \/ /\ mapCur'[m] = mapCur[m] /\ mapCur[m] # NoEvent
              /\ mapNext'[m] \in {mapNext[m], LatestVersion(mapCur[m]) + 1}
      /\ \A v \in Evolvers, e \in Events :
           \/ evoDraft'[v][e] \in {0, evoDraft[v][e]}
           \/ e \in mapped /\ evoDraft'[v][e] = LatestVersion(e) + 1
<1> SUFFICES Hands
  OBVIOUS
<1> USE DEF SharedInv, CoreInv
<1>1. SynthTypeOK /\ HeldFollows
  BY DEF NumberInv
<1>2. \A m \in Mappers : mapNext[m] = 0 \/ mapCur[m] # NoEvent
  BY <1>1 DEF HeldFollows
<1>3. ASSUME mapped \subseteq mapped', UNCHANGED <<mapCur, mapNext, evoDraft>>
      PROVE  Hands
  BY <1>2, <1>3
<1>4. ASSUME NEW d \in Events, NEW e \in Events,
             FeedNew(e) \/ FeedRefresh(e) \/ FeedFoldInto(d, e)
      PROVE  Hands
  BY <1>4, <1>3 DEF FeedNew, FeedRefresh, FeedFoldInto, Born, FeedAttach,
     mapRunVars, evoRunVars
<1>5. CASE Score \/ Attach \/ Revector \/ UNCHANGED <<corpusVars, synthVars>>
  BY <1>5, <1>3 DEF Score, Attach, Revector, synthVars, tableVars, eventVars,
     mapRunVars, evoRunVars
<1>6. ASSUME NEW m \in Mappers, MapNextStep(m) PROVE Hands
  <2> USE DEF evoRunVars, tableVars, eventVars
  <2>1. CASE MapSelect(m)
    BY <2>1, <1>3 DEF MapSelect
  <2>2. CASE MapAnswer(m)
    BY <2>2, <1>1, <1>2 DEF MapAnswer, SynthTypeOK
  <2>3. CASE MapCommit(m)
    BY <2>3, <1>1, <1>2 DEF MapCommit, MapDone, SynthTypeOK
  <2>4. CASE MapFail(m) \/ MapCrash(m)
    BY <2>4, <1>1, <1>2 DEF MapFail, MapCrash, MapDone, SynthTypeOK
  <2>5. ASSUME NEW e \in Events, MapSkip(m, e) PROVE Hands
    BY <2>5, <1>3 DEF MapSkip
  <2>6. ASSUME NEW e \in Events, MapAsk(m, e) PROVE Hands
    BY <2>6, <1>1, <1>2 DEF MapAsk, NextInPlan, SynthTypeOK
  <2> QED BY <1>6, <2>1, <2>2, <2>3, <2>4, <2>5, <2>6 DEF MapNextStep
<1>7. ASSUME NEW v \in Evolvers, EvolveNextStep(v) PROVE Hands
  <2> USE DEF mapRunVars, tableVars, eventVars
  <2>1. CASE EvolveSelect(v) \/ EvolveFail(v)
    BY <2>1, <1>3 DEF EvolveSelect, EvolveFail
  <2>2. CASE EvolveAnswer(v)
    <3>1. /\ evoCur[v] \in mapped
          /\ evoDraft' = [evoDraft EXCEPT
                            ![v][evoCur[v]] = LatestVersion(evoCur[v]) + 1]
          /\ UNCHANGED <<mapCur, mapNext, mapped>>
      BY <2>2, <1>1 DEF EvolveAnswer, SynthTypeOK
    <3> QED BY <3>1, <1>1, <1>2 DEF SynthTypeOK
  <2>3. CASE EvolveCommit(v) \/ EvolveCrash(v)
    <3>1. /\ evoDraft' = [evoDraft EXCEPT ![v] = NoDraft]
          /\ UNCHANGED <<mapCur, mapNext, mapped>>
      BY <2>3 DEF EvolveCommit, EvolveCrash, EvolveEnd
    <3> QED BY <3>1, <1>1, <1>2 DEF SynthTypeOK, NoDraft
  <2>4. ASSUME NEW e \in Events, EvolveSkip(v, e) \/ EvolveAsk(v, e)
        PROVE  Hands
    BY <2>4, <1>3 DEF EvolveSkip, EvolveAsk
  <2> QED BY <1>7, <2>1, <2>2, <2>3, <2>4 DEF EvolveNextStep
<1> HIDE DEF Hands
<1> QED BY <1>4, <1>5, <1>6, <1>7 DEF SynthNext, WorkerStep

LEMMA NumberStep ==
    ASSUME SharedInv, [SynthNext]_<<corpusVars, synthVars>>
    PROVE  NumberInv'
<1>1. SynthTypeOK /\ HasLatest /\ VersionsLeaveNoGap /\ HeldFollows
  BY DEF SharedInv, CoreInv, NumberInv
<1>2. ASSUME NEW e \in Events
      PROVE  /\ Range(maps[e]) \subseteq Range(maps'[e])
             /\ \E n \in {0} \cup Range(maps'[e]) :
                  \A k \in Range(maps'[e]) : n >= k
             /\ \A n \in Range(maps'[e]) :
                  \A k \in 1..n : k \in Range(maps'[e])
  <2>1. /\ maps[e] \in Seq(Nat) /\ Range(maps[e]) \subseteq Nat
        /\ \A n \in Range(maps[e]) : \A k \in 1..n : k \in Range(maps[e])
    BY <1>1 DEF SynthTypeOK, Range, VersionsLeaveNoGap
  <2>2. PICK l \in {0} \cup Range(maps[e]) : \A k \in Range(maps[e]) : l >= k
    BY <1>1 DEF HasLatest
  <2>3. CASE maps'[e] = maps[e]
    BY <2>1, <2>2, <2>3
  <2>4. ASSUME NEW n \in Nat \ {0}, Follows(n, e),
               maps'[e] = Append(maps[e], n)
        PROVE  /\ Range(maps[e]) \subseteq Range(maps'[e])
               /\ \E x \in {0} \cup Range(maps'[e]) :
                    \A k \in Range(maps'[e]) : x >= k
               /\ \A x \in Range(maps'[e]) :
                    \A k \in 1..x : k \in Range(maps'[e])
    <3>1. Range(maps'[e]) = Range(maps[e]) \cup {n}
      BY <2>1, <2>4, AppendRange
    <3>2. n - 1 \in {0} \cup Range(maps[e])
      BY <2>4 DEF Follows
    <3>3. \A k \in 1..n : k \in Range(maps'[e])
      <4>1. SUFFICES ASSUME NEW k \in 1..n, k # n PROVE k \in Range(maps[e])
        BY <3>1
      <4>2. k \in 1..(n - 1) /\ n - 1 # 0
        BY <2>4, <4>1
      <4> QED BY <4>2, <3>2, <2>1
    <3>4. \E x \in {0} \cup Range(maps'[e]) :
            \A k \in Range(maps'[e]) : x >= k
      <4>1. CASE l >= n
        BY <4>1, <2>2, <3>1
      <4>2. CASE ~(l >= n)
        BY <4>2, <2>1, <2>2, <3>1
      <4> QED BY <4>1, <4>2
    <3> QED BY <2>1, <3>1, <3>3, <3>4
  <2> QED BY <2>3, <2>4, MapsGrow DEF Grows
<1>3. \A n, e : e \in Events /\ Follows(n, e) => Follows(n, e)'
  BY <1>2 DEF Follows
<1>4. HeldFollows'
  <2>1. ASSUME NEW m \in Mappers, mapNext'[m] # 0
        PROVE  mapCur'[m] # NoEvent /\ Follows(mapNext[m], mapCur[m])'
    <3>1. /\ mapCur'[m] = mapCur[m] /\ mapCur[m] # NoEvent
          /\ mapNext'[m] \in {mapNext[m], LatestVersion(mapCur[m]) + 1}
      BY <2>1, HandsStep
    <3>2. mapCur[m] \in Events
      BY <1>1, <3>1 DEF SynthTypeOK, CorpusTypeOK
    <3>3. Follows(mapNext'[m], mapCur[m])
      BY <1>1, <2>1, <3>1, <3>2, LatestFollows DEF HeldFollows
    <3> QED BY <1>3, <3>1, <3>2, <3>3 DEF Follows
  <2>2. ASSUME NEW v \in Evolvers, NEW e \in Events, evoDraft'[v][e] # 0
        PROVE  e \in mapped' /\ Follows(evoDraft[v][e], e)'
    <3>1. /\ \/ evoDraft'[v][e] = evoDraft[v][e]
             \/ e \in mapped /\ evoDraft'[v][e] = LatestVersion(e) + 1
          /\ mapped \subseteq mapped'
      BY <2>2, HandsStep
    <3>2. e \in mapped /\ Follows(evoDraft'[v][e], e)
      BY <1>1, <2>2, <3>1, LatestFollows DEF HeldFollows
    <3> QED BY <1>3, <3>1, <3>2 DEF Follows
  <2> QED BY <2>1, <2>2 DEF HeldFollows
<1> QED BY <1>2, <1>4 DEF NumberInv, HasLatest, VersionsLeaveNoGap

LEMMA SharedStep ==
    ASSUME SharedInv, [SynthNext]_<<corpusVars, synthVars>>
    PROVE  SharedInv'
BY CoreStep, NumberStep DEF SharedInv

-----------------------------------------------------------------------------
(* One mapping run: an event in its hand has no map, so that its first map *)
(* needs no revision; the maps of the evolution runs bring theirs.         *)
LEMMA RevisionStep ==
    ASSUME OneMapper, SharedInv, RevisionInv,
           [SynthNext]_<<corpusVars, synthVars>>
    PROVE  RevisionInv'
<1> USE CorpusAssumption DEF RevisionInv, SharedInv, CoreInv
<1>1. /\ maps \in [Events -> Seq(Nat)] /\ revisions \in [Events -> Nat]
      /\ \A m \in Mappers : mapCur[m] \in events \cup {NoEvent}
      /\ events \subseteq Events /\ mapped \subseteq events
      /\ \A e \in Events : maps[e] # <<>> => e \in mapped
      /\ mapCur \in [Mappers -> events \cup {NoEvent}]
  BY DEF SynthTypeOK, CorpusTypeOK, MapsOnlyOfMapped
<1>2. ASSUME UNCHANGED <<maps, revisions, mapped, mapCur>> PROVE RevisionInv'
  BY <1>2 DEF UnmappedInHand, RevisionsFollowMaps
<1>3. ASSUME NEW e \in Events, FeedNew(e) PROVE RevisionInv'
  <2>1. /\ e \notin events /\ mapped' = mapped \cup {e}
        /\ maps' = [maps EXCEPT ![e] = <<1>>] /\ Len(<<1>>) = 1
        /\ UNCHANGED <<revisions, mapCur>>
    BY <1>3 DEF FeedNew, Born, FeedAttach, mapRunVars
  <2>2. maps[e] = <<>> /\ revisions[e] = 0
    BY <1>1, <2>1, SMTT(20) DEF RevisionsFollowMaps
  <2>3. UnmappedInHand'
    BY <1>1, <2>1 DEF UnmappedInHand
  <2>4. RevisionsFollowMaps'
    BY <1>1, <2>1, <2>2 DEF RevisionsFollowMaps
  <2> QED BY <2>3, <2>4
<1>4. ASSUME NEW d \in Events, NEW e \in Events, FeedFoldInto(d, e)
      PROVE  RevisionInv'
  <2>1. /\ d \notin events /\ mapped' = mapped \cup {d}
        /\ UNCHANGED <<maps, revisions, mapCur>>
    BY <1>4 DEF FeedFoldInto, Born, FeedAttach, mapRunVars
  <2> QED BY <1>1, <2>1 DEF UnmappedInHand, RevisionsFollowMaps
<1>5. ASSUME NEW m \in Mappers, MapNextStep(m) PROVE RevisionInv'
  <2> USE DEF tableVars, eventVars
  <2>1. CASE MapSelect(m) \/ MapAnswer(m)
    BY <2>1, <1>2 DEF MapSelect, MapAnswer
  <2>2. CASE MapCommit(m)
    <3>1. /\ mapCur[m] \in Events /\ mapCur[m] \notin mapped
          /\ mapNext[m] \in Nat
          /\ maps' = [maps EXCEPT ![mapCur[m]] = Append(@, mapNext[m])]
          /\ mapCur' = [mapCur EXCEPT ![m] = NoEvent]
          /\ revisions' = revisions
      BY <1>1, <2>2 DEF MapCommit, MapDone, UnmappedInHand, SynthTypeOK
    <3>2. maps[mapCur[m]] = <<>> /\ Len(Append(<<>>, mapNext[m])) = 1
      BY <1>1, <3>1
    <3>3. RevisionsFollowMaps'
      BY <1>1, <3>1, <3>2 DEF RevisionsFollowMaps
    <3> QED BY <1>1, <3>1, <3>3 DEF OneMapper, UnmappedInHand
  <2>3. CASE MapFail(m) \/ MapCrash(m)
    BY <1>1, <2>3 DEF MapFail, MapCrash, MapDone, UnmappedInHand,
       RevisionsFollowMaps
  <2>4. ASSUME NEW e \in Events, MapSkip(m, e) PROVE RevisionInv'
    BY <2>4 DEF MapSkip, NextInPlan, OneMapper, UnmappedInHand,
       RevisionsFollowMaps
  <2>5. ASSUME NEW e \in Events, MapAsk(m, e) PROVE RevisionInv'
    BY <1>1, <2>5 DEF MapAsk, UnmappedInHand, RevisionsFollowMaps
  <2> QED BY <1>5, <2>1, <2>2, <2>3, <2>4, <2>5 DEF MapNextStep
<1>6. ASSUME NEW v \in Evolvers, EvolveNextStep(v) PROVE RevisionInv'
  <2> USE DEF mapRunVars, tableVars, eventVars
  <2>1. CASE EvolveCommit(v)
    <3>1. \A e \in Events :
            \/ maps'[e] = maps[e] /\ revisions'[e] = revisions[e]
            \/ /\ maps'[e] = Append(maps[e], evoDraft[v][e])
               /\ revisions'[e] = revisions[e] + 1
               /\ evoDraft[v][e] \in Nat
      BY <2>1 DEF EvolveCommit, Drafted, SynthTypeOK
    <3>2. ASSUME NEW e \in Events, NEW n \in Nat, maps'[e] = Append(maps[e], n),
                 revisions'[e] = revisions[e] + 1
          PROVE  revisions'[e] \in {Len(maps'[e]), Len(maps'[e]) - 1}
      <4>1. Len(maps'[e]) = Len(maps[e]) + 1 /\ Len(maps[e]) \in Nat
        BY <1>1, <3>2
      <4> QED BY <1>1, <3>2, <4>1 DEF RevisionsFollowMaps
    <3>3. RevisionsFollowMaps'
      BY <3>1, <3>2 DEF RevisionsFollowMaps
    <3> QED BY <2>1, <3>3 DEF EvolveCommit, UnmappedInHand
  <2>2. CASE ~EvolveCommit(v)
    BY <1>2, <1>6, <2>2 DEF EvolveNextStep, EvolveSelect, EvolveAnswer,
       EvolveFail, EvolveCrash, EvolveSkip, EvolveAsk
  <2> QED BY <2>1, <2>2
<1>7. ASSUME NEW e \in Events, FeedRefresh(e) PROVE RevisionInv'
  BY <1>2, <1>7 DEF FeedRefresh, FeedAttach, mapRunVars
<1>8. CASE Score \/ Attach \/ Revector \/ UNCHANGED <<corpusVars, synthVars>>
  BY <1>2, <1>8 DEF Score, Attach, Revector, synthVars, tableVars, eventVars,
     mapRunVars
<1> QED BY <1>3, <1>4, <1>5, <1>6, <1>7, <1>8 DEF SynthNext, WorkerStep

-----------------------------------------------------------------------------
(* One run of each: what a run holds is the next version when it commits.  *)
LEMMA VersionStep ==
    ASSUME OneWriterEach, SynthInv, [SynthNext]_<<corpusVars, synthVars>>
    PROVE  VersionInv'
<1> USE CorpusAssumption DEF SynthInv, VersionInv
<1>1. /\ maps \in [Events -> Seq(Nat)]
      /\ \A e \in Events : Len(maps[e]) \in Nat
      /\ events \subseteq Events /\ mapped \subseteq events
      /\ mapCur \in [Mappers -> events \cup {NoEvent}]
      /\ evoCur \in [Evolvers -> mapped \cup {NoEvent}]
      /\ mapNext \in [Mappers -> Nat] /\ evoDraft \in [Evolvers -> [Events -> Nat]]
      /\ \A e \in Events : maps[e] # <<>> => e \in mapped
      /\ \A m \in Mappers : mapCur[m] # NoEvent => mapCur[m] \notin mapped
      /\ \A m \in Mappers : mapNext[m] # 0 => mapCur[m] # NoEvent
      /\ \A v \in Evolvers, e \in Events : evoDraft[v][e] # 0 => e \in mapped
  BY DEF SharedInv, CoreInv, NumberInv, HeldFollows, RevisionInv,
         UnmappedInHand, SynthTypeOK, CorpusTypeOK, MapsOnlyOfMapped
<1>2. \A e \in Events : LatestVersion(e) = Len(maps[e])
  BY <1>1, LatestIsLength DEF VersionsContiguous
<1>3. ASSUME NEW e \in Events, maps'[e] = Append(maps[e], Len(maps[e]) + 1),
             NEW i \in DOMAIN maps'[e]
      PROVE  maps'[e][i] = i
  <2>1. i \in 1..(Len(maps[e]) + 1)
    BY <1>1, <1>3
  <2>2. CASE i = Len(maps[e]) + 1
    BY <1>1, <1>3, <2>2
  <2>3. CASE i \in 1..Len(maps[e])
    BY <1>1, <1>3, <2>3 DEF VersionsContiguous
  <2> QED BY <1>1, <2>1, <2>2, <2>3
<1>4. ASSUME \A e \in Events :
                \/ maps'[e] = maps[e]
                \/ maps'[e] = Append(maps[e], Len(maps[e]) + 1)
      PROVE  VersionsContiguous'
  BY <1>3, <1>4 DEF VersionsContiguous
<1>5. ASSUME NEW e \in Events, FeedNew(e) PROVE VersionInv'
  <2>1. /\ e \notin events /\ maps[e] = <<>>
        /\ maps' = [maps EXCEPT ![e] = <<1>>]
        /\ UNCHANGED <<mapCur, mapNext, evoDraft>>
        /\ Append(<<>>, Len(<<>>) + 1) = <<1>>
    BY <1>1, <1>5 DEF FeedNew, Born, FeedAttach, mapRunVars, evoRunVars
  <2>2. VersionsContiguous'
    BY <1>1, <1>4, <2>1
  <2>3. MappingIsAhead' /\ DraftsAreNext'
    BY <1>1, <2>1 DEF MappingIsAhead, DraftsAreNext
  <2> QED BY <2>2, <2>3
<1>6. ASSUME UNCHANGED <<maps, mapCur, mapNext, evoDraft>> PROVE VersionInv'
  BY <1>6 DEF VersionsContiguous, MappingIsAhead, DraftsAreNext
<1>7. ASSUME NEW m \in Mappers, MapNextStep(m) PROVE VersionInv'
  <2> USE DEF evoRunVars, tableVars, eventVars
  <2>1. CASE MapSelect(m)
    BY <1>6, <2>1 DEF MapSelect
  <2>2. CASE MapAnswer(m)
    <3>1. mapNext' = [mapNext EXCEPT ![m] = Len(maps[mapCur[m]]) + 1]
      <4>1. mapCur[m] \in Events
        BY <1>1, <2>2 DEF MapAnswer
      <4> QED BY <1>2, <2>2, <4>1 DEF MapAnswer
    <3>2. UNCHANGED <<maps, mapCur, evoDraft>>
      BY <2>2 DEF MapAnswer
    <3>3. MappingIsAhead'
      BY <1>1, <3>1, <3>2 DEF MappingIsAhead
    <3> QED BY <3>2, <3>3 DEF VersionsContiguous, DraftsAreNext
  <2>3. CASE MapCommit(m)
    <3>1. /\ mapCur[m] \in Events /\ mapCur[m] \notin mapped
          /\ maps' = [maps EXCEPT ![mapCur[m]] = Append(@, Len(@) + 1)]
          /\ mapNext' = [mapNext EXCEPT ![m] = 0]
          /\ evoDraft' = evoDraft
      BY <1>1, <2>3 DEF MapCommit, MapDone, MappingIsAhead
    <3>2. VersionsContiguous'
      BY <1>1, <1>4, <3>1
    <3>3. MappingIsAhead'
      BY <1>1, <3>1 DEF OneWriterEach, MappingIsAhead
    <3>4. DraftsAreNext'
      BY <1>1, <3>1 DEF DraftsAreNext
    <3> QED BY <3>2, <3>3, <3>4
  <2>4. CASE MapFail(m) \/ MapCrash(m)
    BY <1>1, <2>4 DEF MapFail, MapCrash, MapDone, VersionsContiguous,
       MappingIsAhead, DraftsAreNext
  <2>5. ASSUME NEW e \in Events, MapSkip(m, e) PROVE VersionInv'
    BY <1>6, <2>5 DEF MapSkip
  <2>6. ASSUME NEW e \in Events, MapAsk(m, e) PROVE VersionInv'
    BY <1>1, <2>6 DEF MapAsk, NextInPlan, VersionsContiguous, MappingIsAhead,
       DraftsAreNext
  <2> QED BY <1>7, <2>1, <2>2, <2>3, <2>4, <2>5, <2>6 DEF MapNextStep
<1>8. ASSUME NEW v \in Evolvers, EvolveNextStep(v) PROVE VersionInv'
  <2> USE DEF mapRunVars, tableVars
  <2>1. CASE EvolveAnswer(v)
    <3>1. /\ evoCur[v] \in Events
          /\ evoDraft' = [evoDraft EXCEPT
                            ![v][evoCur[v]] = Len(maps[evoCur[v]]) + 1]
      BY <1>1, <1>2, <2>1 DEF EvolveAnswer
    <3> QED BY <1>1, <2>1, <3>1 DEF EvolveAnswer, VersionsContiguous,
               MappingIsAhead, DraftsAreNext
  <2>2. CASE EvolveCommit(v)
    <3>1. /\ evoDraft' = [evoDraft EXCEPT ![v] = NoDraft]
          /\ UNCHANGED <<mapCur, mapNext>>
          /\ \A e \in Events :
               \/ maps'[e] = maps[e]
               \/ /\ e \in mapped
                  /\ maps'[e] = Append(maps[e], Len(maps[e]) + 1)
      BY <1>1, <2>2 DEF EvolveCommit, EvolveEnd, Drafted, DraftsAreNext
    <3>2. VersionsContiguous'
      BY <1>4, <3>1
    <3>3. MappingIsAhead'
      BY <1>1, <3>1, ZenonT(60) DEF MappingIsAhead
    <3>4. DraftsAreNext'
      BY <1>1, <3>1 DEF OneWriterEach, DraftsAreNext, NoDraft
    <3> QED BY <3>2, <3>3, <3>4
  <2>3. CASE EvolveCrash(v)
    BY <1>1, <2>3 DEF EvolveCrash, EvolveEnd, NoDraft, VersionsContiguous,
       MappingIsAhead, DraftsAreNext
  <2>4. CASE EvolveSelect(v) \/ EvolveFail(v)
    BY <1>6, <2>4 DEF EvolveSelect, EvolveFail
  <2>5. ASSUME NEW e \in Events, EvolveSkip(v, e) \/ EvolveAsk(v, e)
        PROVE  VersionInv'
    BY <1>6, <2>5 DEF EvolveSkip, EvolveAsk
  <2> QED BY <1>8, <2>1, <2>2, <2>3, <2>4, <2>5 DEF EvolveNextStep
<1>9. ASSUME NEW d \in Events, NEW e \in Events,
             FeedRefresh(e) \/ FeedFoldInto(d, e)
      PROVE  VersionInv'
  BY <1>6, <1>9 DEF FeedRefresh, FeedFoldInto, FeedAttach, mapRunVars,
     evoRunVars
<1>10. CASE Score \/ Attach \/ Revector \/ UNCHANGED <<corpusVars, synthVars>>
  BY <1>6, <1>10 DEF Score, Attach, Revector, synthVars, tableVars, mapRunVars,
     evoRunVars
<1> QED BY <1>5, <1>7, <1>8, <1>9, <1>10 DEF SynthNext, WorkerStep

-----------------------------------------------------------------------------
(* What any number of overlapping runs keeps: a run holds only articles of *)
(* the event it asks about, and versions that leave no gap.                *)
THEOREM RunsShareSafely == SynthSpec => []SharedInv
<1>1. SynthInit => SharedInv
  BY SynthInvInit DEF SynthInv
<1>2. SharedInv /\ [SynthNext]_<<corpusVars, synthVars>> => SharedInv'
  BY SharedStep
<1> QED BY <1>1, <1>2, PTL DEF SynthSpec

(* Columns and runs hold what they may hold; in particular what a run holds*)
(* exists, and an evolution run holds mapped events only.                  *)
THEOREM SynthTypeCorrect == SynthSpec => []SynthTypeOK
<1>1. SharedInv => SynthTypeOK
  BY DEF SharedInv, CoreInv
<1> QED BY <1>1, RunsShareSafely, PTL

(* No article is consumed without a map.                                   *)
THEOREM NoArticleConsumedInVain == SynthSpec => []ProcessedWasMapped
<1>1. SharedInv => ProcessedWasMapped
  BY DEF SharedInv, CoreInv, ArticleInv
<1> QED BY <1>1, RunsShareSafely, PTL

(* No event worth a map leaves the queue without one, however runs overlap.*)
THEOREM NoMapLost == SynthSpec => []MapNotLost
<1>1. SharedInv => MapNotLost
  BY DEF SharedInv, CoreInv, ArticleInv
<1> QED BY <1>1, RunsShareSafely, PTL

(* No version is ever skipped, though runs that overlap may use one twice. *)
THEOREM NoVersionSkipped == SynthSpec => []VersionsLeaveNoGap
<1>1. SharedInv => VersionsLeaveNoGap
  BY DEF SharedInv, NumberInv
<1> QED BY <1>1, RunsShareSafely, PTL

(* Revisions keep step with the maps, with one mapping run at a time.      *)
THEOREM RevisionsKeepStep ==
    ASSUME OneMapper PROVE SynthSpec => []RevisionsFollowMaps
<1>1. SynthInit => RevisionInv
  BY SynthInvInit DEF SynthInv
<1>2. SharedInv /\ RevisionInv /\ [SynthNext]_<<corpusVars, synthVars>>
        => RevisionInv'
  BY RevisionStep
<1>3. RevisionInv => RevisionsFollowMaps
  BY DEF RevisionInv
<1> QED BY <1>1, <1>2, <1>3, RunsShareSafely, PTL DEF SynthSpec

(* With one run of each worker the whole invariant is inductive.           *)
THEOREM SynthInvariant ==
    ASSUME OneWriterEach PROVE SynthSpec => []SynthInv
<1>1. SynthInit => SynthInv
  BY SynthInvInit
<1>2. SynthInv /\ [SynthNext]_<<corpusVars, synthVars>> => SynthInv'
  BY SharedStep, RevisionStep, VersionStep
     DEF SynthInv, OneWriterEach, OneMapper
<1> QED BY <1>1, <1>2, PTL DEF SynthSpec

(* Map versions are 1, 2, 3 ..., though nothing in the schema says so.     *)
THEOREM VersionsAreContiguous ==
    ASSUME OneWriterEach PROVE SynthSpec => []VersionsContiguous
<1>1. SynthInv => VersionsContiguous
  BY DEF SynthInv, VersionInv
<1> QED BY <1>1, SynthInvariant, PTL

-----------------------------------------------------------------------------
(* Every step publishes the next version of some events, or no map at all. *)
LEMMA PublishingStep ==
    ASSUME OneWriterEach, SynthInv, [SynthNext]_<<corpusVars, synthVars>>
    PROVE  [History!HistoryNext]_maps
<1> USE CorpusAssumption
<1>1. ASSUME NEW S \in SUBSET Events,
             maps' = [e \in Events |-> IF e \in S
                                       THEN Append(maps[e], Len(maps[e]) + 1)
                                       ELSE maps[e]]
      PROVE  [History!HistoryNext]_maps
  BY <1>1 DEF History!HistoryNext, History!Publish
<1>2. ASSUME NEW e \in Events, FeedNew(e)
      PROVE  [History!HistoryNext]_maps
  <2>1. maps[e] = <<>> /\ maps \in [Events -> Seq(Nat)]
    BY <1>2 DEF FeedNew, Born, SynthInv, SharedInv, CoreInv,
       SynthTypeOK, MapsOnlyOfMapped
  <2>2. Append(maps[e], Len(maps[e]) + 1) = <<1>>
    BY <2>1
  <2>3. maps' = [f \in Events |-> IF f \in {e}
                                  THEN Append(maps[f], Len(maps[f]) + 1)
                                  ELSE maps[f]]
    BY <1>2, <2>1, <2>2 DEF FeedNew
  <2> QED BY <2>3, <1>1
<1>3. ASSUME NEW m \in Mappers, MapCommit(m)
      PROVE  [History!HistoryNext]_maps
  <2> DEFINE e == mapCur[m]
  <2>1. /\ e \in Events /\ maps \in [Events -> Seq(Nat)]
        /\ mapNext[m] = Len(maps[e]) + 1
    BY <1>3 DEF MapCommit, SynthInv, SharedInv, CoreInv, VersionInv,
                SynthTypeOK, CorpusTypeOK, MappingIsAhead
  <2>2. maps' = [f \in Events |-> IF f \in {e}
                                  THEN Append(maps[f], Len(maps[f]) + 1)
                                  ELSE maps[f]]
    BY <1>3, <2>1 DEF MapCommit
  <2> QED BY <2>1, <2>2, <1>1, ZenonT(60)
<1>4. ASSUME NEW v \in Evolvers, EvolveCommit(v)
      PROVE  [History!HistoryNext]_maps
  <2>1. Drafted(v) \in SUBSET Events
    BY DEF Drafted
  <2>2. \A e \in Drafted(v) : evoDraft[v][e] = Len(maps[e]) + 1
    BY DEF Drafted, SynthInv, VersionInv, DraftsAreNext
  <2>3. maps' = [f \in Events |-> IF f \in Drafted(v)
                                  THEN Append(maps[f], Len(maps[f]) + 1)
                                  ELSE maps[f]]
    BY <1>4, <2>2 DEF EvolveCommit
  <2> QED BY <2>1, <2>3, <1>1
<1>5. ASSUME NEW m \in Mappers, MapNextStep(m), ~MapCommit(m)
      PROVE  maps' = maps
  BY <1>5 DEF MapNextStep, MapSelect, MapAnswer, MapFail, MapCrash,
     MapSkip, MapAsk, tableVars
<1>6. ASSUME NEW v \in Evolvers, EvolveNextStep(v), ~EvolveCommit(v)
      PROVE  maps' = maps
  BY <1>6 DEF EvolveNextStep, EvolveSelect, EvolveAnswer, EvolveFail,
     EvolveCrash, EvolveSkip, EvolveAsk, tableVars
<1>7. ASSUME NEW d \in Events, NEW e \in Events,
             FeedRefresh(e) \/ FeedFoldInto(d, e)
      PROVE  maps' = maps
  BY <1>7 DEF FeedRefresh, FeedFoldInto
<1>8. CASE Score \/ Attach \/ Revector \/ UNCHANGED <<corpusVars, synthVars>>
  BY <1>8 DEF Score, Attach, Revector, synthVars, tableVars
<1> QED BY <1>2, <1>3, <1>4, <1>5, <1>6, <1>7, <1>8 DEF SynthNext, WorkerStep

(* The workers implement MapHistory: whatever they interleave, the reader  *)
(* of an event's maps sees one version after the other appear.             *)
THEOREM WorkersKeepHistory ==
    ASSUME OneWriterEach PROVE SynthSpec => KeepsHistory
<1>1. SynthInit => History!HistoryInit
  BY DEF SynthInit, SynthOwnInit, History!HistoryInit
<1>2. SynthInv /\ [SynthNext]_<<corpusVars, synthVars>>
        => [History!HistoryNext]_maps
  BY PublishingStep
<1> QED BY <1>1, <1>2, SynthInvariant, PTL
           DEF SynthSpec, KeepsHistory, History!HistorySpec
-----------------------------------------------------------------------------
(* The intake half, and the whole.                                       *)

(* What keeps an article from being attached twice: a row a run holds was  *)
(* embedded and unclustered when the run read it, only that run clusters   *)
(* rows, and the feed ingest attaches only rows that are not stored yet.   *)
BatchUnclustered ==
    \A c \in Clusterers :
        /\ loaded[c] \cap clustered = {}
        /\ loaded[c] \subseteq Rows

FlagsOnlyOnRows ==
    /\ embedded \subseteq Rows
    /\ embedBatch \subseteq Rows
    /\ clustered \subseteq Rows

HomeIsAnEvent == \A a \in Articles : home[a] \in events \cup {NoEvent}

IntakeInv ==
    /\ IntakeTypeOK
    /\ FlagsOnlyOnRows
    /\ BatchUnclustered
    /\ HomeIsAnEvent
    /\ AttachedIffClustered
    /\ EveryEventHasEvidence

(* Appending a row keeps the rows there were.                              *)
LEMMA RowsAppend ==
    ASSUME scraped \in Seq(Articles), NEW a \in Articles,
           scraped' = Append(scraped, a)
    PROVE  /\ Rows' = Rows \cup {a}
           /\ scraped' \in Seq(Articles)
<1>1. /\ Len(scraped') = Len(scraped) + 1
      /\ DOMAIN scraped' = 1..(Len(scraped) + 1)
      /\ DOMAIN scraped = 1..Len(scraped)
      /\ scraped'[Len(scraped) + 1] = a
      /\ \A i \in 1..Len(scraped) : scraped'[i] = scraped[i]
      /\ Len(scraped) \in Nat
  OBVIOUS
<1>2. Rows' = Rows \cup {a}
  <2>1. ASSUME NEW x \in Rows' PROVE x \in Rows \cup {a}
    BY <1>1 DEF Rows
  <2>2. ASSUME NEW x \in Rows \cup {a} PROVE x \in Rows'
    BY <1>1 DEF Rows
  <2> QED BY <2>1, <2>2
<1> QED BY <1>2

LEMMA IntakeInvInit == IntakeInit => IntakeInv
<1> SUFFICES ASSUME IntakeInit PROVE IntakeInv
  OBVIOUS
<1> USE CorpusAssumption DEF IntakeInit, IntakeOwnInit, CorpusInit
<1>1. IntakeTypeOK
  BY DEF IntakeTypeOK, CorpusTypeOK
<1>2. FlagsOnlyOnRows /\ BatchUnclustered /\ HomeIsAnEvent
  BY DEF FlagsOnlyOnRows, BatchUnclustered, HomeIsAnEvent, Rows
<1>3. AttachedIffClustered /\ EveryEventHasEvidence
  BY DEF AttachedIffClustered, EveryEventHasEvidence
<1> QED BY <1>1, <1>2, <1>3 DEF IntakeInv

(* A feed signal for e that adds the events of N, with its document or     *)
(* without: the only home that changes is that of a row not stored before. *)
LEMMA FeedSignalStep ==
    ASSUME IntakeInv, NEW e \in events', NEW N \in SUBSET Events,
           Evidence(e), FeedUntouched,
           events' = events \cup N, fed' = fed \cup N,
           merged' \subseteq events', merged' \subseteq Events
    PROVE  /\ IntakeInv'
           /\ \A b \in Articles : home[b] # NoEvent => home'[b] = home[b]
<1> USE DEF IntakeInv, FeedUntouched
<1>1. /\ e \in Events
      /\ home \in [Articles -> Events \cup {NoEvent}] /\ events \subseteq Events
  BY DEF IntakeTypeOK, CorpusTypeOK
<1>2. ASSUME NEW a \in Articles, StoreEvidence(a, e)
      PROVE  /\ IntakeInv'
             /\ \A b \in Articles : home[b] # NoEvent => home'[b] = home[b]
  <2>1. /\ Rows' = Rows \cup {a} /\ scraped' \in Seq(Articles) /\ a \notin Rows
    BY <1>2, RowsAppend DEF StoreEvidence, IntakeTypeOK
  <2>2. home' = [home EXCEPT ![a] = e]
    BY <1>2 DEF StoreEvidence
  <2>3. home[a] = NoEvent
    BY <2>1 DEF AttachedIffClustered, FlagsOnlyOnRows, HomeIsAnEvent
  <2>4. IntakeTypeOK'
    BY <1>1, <1>2, <2>1, <2>2 DEF StoreEvidence, IntakeTypeOK, CorpusTypeOK
  <2>5. FlagsOnlyOnRows' /\ BatchUnclustered'
    BY <1>2, <2>1 DEF StoreEvidence, FlagsOnlyOnRows, BatchUnclustered
  <2>6. HomeIsAnEvent'
    BY <1>1, <2>2 DEF HomeIsAnEvent
  <2>7. AttachedIffClustered'
    BY <1>1, <1>2, <2>2, CorpusAssumption
       DEF StoreEvidence, AttachedIffClustered, HomeIsAnEvent
  <2>8. EveryEventHasEvidence'
    BY <1>1, <2>2, <2>3, CorpusAssumption DEF EveryEventHasEvidence, Members
  <2>9. \A b \in Articles : home[b] # NoEvent => home'[b] = home[b]
    BY <1>1, <2>2, <2>3
  <2> QED BY <2>4, <2>5, <2>6, <2>7, <2>8, <2>9
<1>3. ASSUME UNCHANGED <<scraped, home, clustered>>
      PROVE  /\ IntakeInv'
             /\ \A b \in Articles : home[b] # NoEvent => home'[b] = home[b]
  <2>1. IntakeTypeOK' /\ FlagsOnlyOnRows' /\ BatchUnclustered'
    BY <1>1, <1>3 DEF IntakeTypeOK, CorpusTypeOK, FlagsOnlyOnRows,
                      BatchUnclustered, Rows
  <2>2. HomeIsAnEvent' /\ AttachedIffClustered'
    BY <1>3, CorpusAssumption DEF HomeIsAnEvent, AttachedIffClustered
  <2>3. EveryEventHasEvidence'
    BY <1>3 DEF EveryEventHasEvidence, Members
  <2> QED BY <1>3, <2>1, <2>2, <2>3
<1> QED BY <1>2, <1>3 DEF Evidence

(* Clustering a batch: only this run's rows change home, and none of them  *)
(* had one.                                                                *)
LEMMA ClusterCommitStep ==
    ASSUME OneClusterer, IntakeInv, NEW c \in Clusterers, ClusterCommit(c)
    PROVE  /\ IntakeInv'
           /\ \A a \in Articles : home[a] # NoEvent => home'[a] = home[a]
<1> USE DEF IntakeInv
<1>1. PICK choice \in [loaded[c] -> Events] :
        /\ home' = [a \in Articles |->
                      IF a \in loaded[c] THEN choice[a] ELSE home[a]]
        /\ events' = events \cup {choice[a] : a \in loaded[c]}
  BY DEF ClusterCommit
<1>2. /\ \A a \in loaded[c] : a \in Articles /\ home[a] = NoEvent
      /\ loaded[c] \cap clustered = {}
      /\ loaded[c] \subseteq Rows
  BY DEF BatchUnclustered, AttachedIffClustered, HomeIsAnEvent,
         IntakeTypeOK, CorpusTypeOK
<1>3. IntakeTypeOK'
  BY <1>1, <1>2 DEF ClusterCommit, IntakeTypeOK, CorpusTypeOK
<1>4. FlagsOnlyOnRows' /\ BatchUnclustered'
  BY <1>2 DEF OneClusterer, ClusterCommit, FlagsOnlyOnRows,
     BatchUnclustered, Rows, IntakeTypeOK
<1>5. HomeIsAnEvent'
  BY <1>1 DEF HomeIsAnEvent
<1>6. AttachedIffClustered'
  BY <1>1, <1>2, CorpusAssumption
     DEF ClusterCommit, AttachedIffClustered, HomeIsAnEvent
<1>7. \A a \in Articles : home[a] # NoEvent => home'[a] = home[a]
  BY <1>1, <1>2
<1>8. EveryEventHasEvidence'
  <2>1. SUFFICES ASSUME NEW f \in events' \ fed PROVE Members(f)' # {}
    BY DEF EveryEventHasEvidence, ClusterCommit
  <2>2. CASE f \in events
    <3>1. PICK a \in Articles : home[a] = f
      BY <2>2 DEF EveryEventHasEvidence, Members
    <3>2. home'[a] = f
      BY <3>1, <2>2, <1>7, CorpusAssumption DEF IntakeTypeOK, CorpusTypeOK
    <3> QED BY <3>2 DEF Members
  <2>3. CASE \E a \in loaded[c] : f = choice[a]
    BY <2>3, <1>1, <1>2 DEF Members
  <2> QED BY <2>1, <2>2, <2>3, <1>1
<1> QED BY <1>3, <1>4, <1>5, <1>6, <1>7, <1>8

LEMMA IntakeStep ==
    ASSUME OneClusterer, IntakeInv, [IntakeNext]_<<corpusVars, intakeVars>>
    PROVE  /\ IntakeInv'
           /\ \A a \in Articles : home[a] # NoEvent => home'[a] = home[a]
<1> USE DEF IntakeInv
<1>1. ASSUME NEW a \in Articles, Scrape(a)
      PROVE  IntakeInv' /\ home' = home
  <2>1. Rows' = Rows \cup {a} /\ scraped' \in Seq(Articles)
    BY <1>1, RowsAppend DEF Scrape, IntakeTypeOK
  <2>2. IntakeTypeOK'
    BY <1>1, <2>1 DEF Scrape, corpusVars, IntakeTypeOK, CorpusTypeOK
  <2>3. FlagsOnlyOnRows' /\ BatchUnclustered'
    BY <1>1, <2>1 DEF Scrape, FlagsOnlyOnRows, BatchUnclustered
  <2>4. HomeIsAnEvent' /\ AttachedIffClustered' /\ EveryEventHasEvidence'
    BY <1>1 DEF Scrape, corpusVars, HomeIsAnEvent, AttachedIffClustered,
                EveryEventHasEvidence, Members
  <2> QED BY <1>1, <2>2, <2>3, <2>4 DEF Scrape, corpusVars
<1>2. ASSUME NEW d \in Events, NEW e \in Events,
             FeedEvent(e) \/ FeedAgain(e) \/ FeedFold(d, e)
      PROVE  IntakeInv' /\ \A b \in Articles :
                              home[b] # NoEvent => home'[b] = home[b]
  <2>1. CASE FeedEvent(e)
    <3>1. /\ e \in events'
          /\ merged' \subseteq events' /\ merged' \subseteq Events
          /\ events' = events \cup {e} /\ fed' = fed \cup {e}
          /\ {e} \in SUBSET Events
      BY <2>1 DEF FeedEvent, IntakeTypeOK, CorpusTypeOK
    <3> QED BY <2>1, <3>1, FeedSignalStep DEF FeedEvent
  <2>2. CASE FeedFold(d, e)
    <3>1. /\ e \in events'
          /\ merged' \subseteq events' /\ merged' \subseteq Events
          /\ events' = events \cup {d} /\ fed' = fed \cup {d}
          /\ {d} \in SUBSET Events
      BY <2>2 DEF FeedFold, IntakeTypeOK, CorpusTypeOK
    <3> QED BY <2>2, <3>1, FeedSignalStep DEF FeedFold
  <2>3. CASE FeedAgain(e)
    <3>1. /\ e \in events'
          /\ merged' \subseteq events' /\ merged' \subseteq Events
          /\ events' = events \cup {} /\ fed' = fed \cup {}
          /\ {} \in SUBSET Events
      BY <2>3 DEF FeedAgain, IntakeTypeOK, CorpusTypeOK
    <3> QED BY <2>3, <3>1, FeedSignalStep DEF FeedAgain
  <2> QED BY <1>2, <2>1, <2>2, <2>3
<1>3. CASE EmbedSelect
  <2>1. embedBatch' \subseteq Rows /\ Rows \subseteq Articles
    BY <1>3 DEF EmbedSelect, Oldest, Rows, IntakeTypeOK
  <2> QED BY <1>3, <2>1 DEF EmbedSelect, corpusVars, IntakeTypeOK,
             CorpusTypeOK, FlagsOnlyOnRows, BatchUnclustered, HomeIsAnEvent,
             AttachedIffClustered, EveryEventHasEvidence, Members, Rows
<1>4. CASE EmbedCommit
  BY <1>4 DEF EmbedCommit, IntakeTypeOK, CorpusTypeOK, FlagsOnlyOnRows,
     BatchUnclustered, HomeIsAnEvent, AttachedIffClustered,
     EveryEventHasEvidence, Members, Rows
<1>5. CASE EmbedFail
  BY <1>5 DEF EmbedFail, corpusVars, IntakeTypeOK, CorpusTypeOK,
     FlagsOnlyOnRows, BatchUnclustered, HomeIsAnEvent, AttachedIffClustered,
     EveryEventHasEvidence, Members, Rows
<1>6. ASSUME NEW c \in Clusterers, ClusterSelect(c)
      PROVE  IntakeInv' /\ home' = home
  <2>1. Oldest(Unclustered, ClusterLimit) \subseteq embedded \ clustered
    BY DEF Oldest, Unclustered
  <2>2. IntakeTypeOK'
    BY <1>6, <2>1 DEF ClusterSelect, corpusVars, IntakeTypeOK, CorpusTypeOK
  <2>3. FlagsOnlyOnRows' /\ BatchUnclustered'
    BY <1>6, <2>1 DEF ClusterSelect, FlagsOnlyOnRows, BatchUnclustered, Rows,
                      IntakeTypeOK
  <2>4. HomeIsAnEvent' /\ AttachedIffClustered' /\ EveryEventHasEvidence'
    BY <1>6 DEF ClusterSelect, corpusVars, HomeIsAnEvent,
                AttachedIffClustered, EveryEventHasEvidence, Members
  <2> QED BY <1>6, <2>2, <2>3, <2>4 DEF ClusterSelect, corpusVars
<1>7. ASSUME NEW c \in Clusterers, ClusterCommit(c)
      PROVE  IntakeInv' /\ \A b \in Articles :
                              home[b] # NoEvent => home'[b] = home[b]
  BY <1>7, ClusterCommitStep
<1>8. ASSUME NEW c \in Clusterers, ClusterFail(c)
      PROVE  IntakeInv' /\ home' = home
  BY <1>8 DEF ClusterFail, corpusVars, IntakeTypeOK, CorpusTypeOK,
     FlagsOnlyOnRows, BatchUnclustered, HomeIsAnEvent, AttachedIffClustered,
     EveryEventHasEvidence, Members, Rows
<1>9. CASE Age
  BY <1>9 DEF Age, corpusVars, IntakeTypeOK, CorpusTypeOK, FlagsOnlyOnRows,
     BatchUnclustered, HomeIsAnEvent, AttachedIffClustered,
     EveryEventHasEvidence, Members, Rows
<1>10. CASE Archive
  <2>1. Expired \subseteq Articles
    BY <1>10 DEF Expired, IntakeTypeOK
  <2> QED BY <1>10, <2>1 DEF Archive, IntakeTypeOK, CorpusTypeOK,
             FlagsOnlyOnRows, BatchUnclustered, HomeIsAnEvent,
             AttachedIffClustered, EveryEventHasEvidence, Members, Rows
<1>11. CASE UNCHANGED <<corpusVars, intakeVars>>
  BY <1>11 DEF corpusVars, intakeVars, IntakeTypeOK, CorpusTypeOK,
     FlagsOnlyOnRows, BatchUnclustered, HomeIsAnEvent, AttachedIffClustered,
     EveryEventHasEvidence, Members, Rows
<1>12. CASE EmbedSelect \/ EmbedCommit \/ EmbedFail \/ Age \/ Archive
  BY <1>12, <1>3, <1>4, <1>5, <1>9, <1>10
     DEF EmbedSelect, EmbedCommit, EmbedFail, Age, Archive, corpusVars
<1> QED
  BY <1>1, <1>2, <1>6, <1>7, <1>8, <1>11, <1>12
     DEF IntakeNext, corpusVars

(* The inductive invariant holds in every state.                           *)
THEOREM IntakeInvariant ==
    ASSUME OneClusterer PROVE IntakeSpec => []IntakeInv
<1>1. IntakeInit => IntakeInv
  BY IntakeInvInit
<1>2. IntakeInv /\ [IntakeNext]_<<corpusVars, intakeVars>> => IntakeInv'
  BY IntakeStep
<1> QED BY <1>1, <1>2, PTL DEF IntakeSpec

(* The tables always hold what their columns allow, and a run never holds  *)
(* an embedding of a row outside its batch.                                *)
THEOREM IntakeTypeCorrect ==
    ASSUME OneClusterer PROVE IntakeSpec => []IntakeTypeOK
<1>1. IntakeInv => IntakeTypeOK
  BY DEF IntakeInv
<1> QED BY <1>1, IntakeInvariant, PTL

(* is_clustered and narrative_event_id always agree.                       *)
THEOREM FlagAgreesWithHome ==
    ASSUME OneClusterer PROVE IntakeSpec => []AttachedIffClustered
<1>1. IntakeInv => AttachedIffClustered
  BY DEF IntakeInv
<1> QED BY <1>1, IntakeInvariant, PTL

(* No event of the cluster worker is ever without an article.              *)
THEOREM NoHollowEvent ==
    ASSUME OneClusterer PROVE IntakeSpec => []EveryEventHasEvidence
<1>1. IntakeInv => EveryEventHasEvidence
  BY DEF IntakeInv
<1> QED BY <1>1, IntakeInvariant, PTL

(* An article that has an event keeps it.                                  *)
THEOREM HomeIsFinal ==
    ASSUME OneClusterer PROVE IntakeSpec => NeverRehomed
<1>1. IntakeInv /\ [IntakeNext]_<<corpusVars, intakeVars>>
        => [\A a \in Articles : home[a] # NoEvent => home'[a] = home[a]]_home
  BY IntakeStep
<1> QED BY <1>1, IntakeInvariant, PTL DEF IntakeSpec, NeverRehomed
-----------------------------------------------------------------------------
(* A step of the pipeline is, to the intake half, a step of its own or     *)
(* none at all.                                                            *)
LEMMA IntakeHalf ==
    ASSUME [PipelineNext]_pipelineVars
    PROVE  [IntakeNext]_<<corpusVars, intakeVars>>
<1>1. CASE IntakeWorkerStep
  BY <1>1 DEF IntakeWorkerStep, IntakeNext
<1>2. CASE FeedStep
  BY <1>2 DEF FeedStep, IntakeNext
<1>3. CASE WorkerStep /\ UNCHANGED intakeVars
  <2>1. UNCHANGED corpusVars
    <3>1. CASE Score
      BY <3>1 DEF Score
    <3>2. ASSUME NEW m \in Mappers, MapNextStep(m) PROVE UNCHANGED corpusVars
      BY <3>2 DEF MapNextStep, MapSelect, MapAnswer, MapCommit, MapFail,
         MapCrash, MapSkip, MapAsk
    <3>3. ASSUME NEW v \in Evolvers, EvolveNextStep(v)
          PROVE  UNCHANGED corpusVars
      BY <3>3 DEF EvolveNextStep, EvolveSelect, EvolveAnswer, EvolveFail,
         EvolveCommit, EvolveCrash, EvolveSkip, EvolveAsk
    <3> QED BY <1>3, <3>1, <3>2, <3>3 DEF WorkerStep
  <2> QED BY <1>3, <2>1
<1>4. CASE UNCHANGED pipelineVars
  BY <1>4 DEF pipelineVars
<1> QED BY <1>1, <1>2, <1>3, <1>4 DEF PipelineNext

(* The cluster worker attaches only articles that have no event.           *)
LEMMA ClusteringAttaches ==
    ASSUME IntakeInv, NEW c \in Clusterers, ClusterCommit(c),
           UNCHANGED synthVars
    PROVE  Attach
<1>1. PICK choice \in [loaded[c] -> Events] :
        /\ home' = [a \in Articles |->
                      IF a \in loaded[c] THEN choice[a] ELSE home[a]]
        /\ events' = events \cup {choice[a] : a \in loaded[c]}
  BY DEF ClusterCommit
<1>2. loaded[c] \in SUBSET {a \in Articles : home[a] = NoEvent}
  BY DEF IntakeInv, BatchUnclustered, AttachedIffClustered, HomeIsAnEvent,
         IntakeTypeOK, CorpusTypeOK
<1>3. vectors' = vectors /\ merged' = merged
  BY DEF ClusterCommit
<1> QED BY <1>1, <1>2, <1>3 DEF Attach

(* To the synthesis half, too, every step is one it allows.                *)
LEMMA SynthHalf ==
    ASSUME IntakeInv, [PipelineNext]_pipelineVars
    PROVE  [SynthNext]_<<corpusVars, synthVars>>
<1>1. ASSUME NEW c \in Clusterers, ClusterCommit(c), UNCHANGED synthVars
      PROVE  SynthNext
  BY <1>1, ClusteringAttaches DEF SynthNext
<1>2. CASE EmbedCommit /\ UNCHANGED synthVars
  <2>1. vectors' \in SUBSET Articles
    BY <1>2 DEF EmbedCommit, IntakeInv, IntakeTypeOK, CorpusTypeOK
  <2> QED BY <1>2, <2>1 DEF EmbedCommit, Revector, SynthNext
<1>3. CASE Archive /\ UNCHANGED synthVars
  <2>1. vectors' \in SUBSET Articles
    BY <1>3 DEF Archive, IntakeInv, IntakeTypeOK, CorpusTypeOK
  <2> QED BY <1>3, <2>1 DEF Archive, Revector, SynthNext
<1>4. ASSUME NEW a \in Articles, Scrape(a) PROVE UNCHANGED corpusVars
  BY <1>4 DEF Scrape
<1>5. ASSUME NEW c \in Clusterers, ClusterSelect(c) \/ ClusterFail(c)
      PROVE  UNCHANGED corpusVars
  BY <1>5 DEF ClusterSelect, ClusterFail
<1>6. ASSUME EmbedSelect \/ EmbedFail \/ Age PROVE UNCHANGED corpusVars
  BY <1>6 DEF EmbedSelect, EmbedFail, Age
<1>7. CASE IntakeWorkerStep /\ UNCHANGED synthVars
  BY <1>1, <1>2, <1>3, <1>4, <1>5, <1>6, <1>7
     DEF IntakeWorkerStep, EmbedSelect, EmbedFail, Age
<1>8. CASE FeedStep
  BY <1>8 DEF FeedStep, SynthNext
<1>9. CASE WorkerStep
  BY <1>9 DEF SynthNext
<1>10. CASE UNCHANGED pipelineVars
  BY <1>10 DEF pipelineVars
<1> QED BY <1>7, <1>8, <1>9, <1>10 DEF PipelineNext

LEMMA PipelineKeepsIntakeInv ==
    ASSUME OneClusterer PROVE PipelineSpec => []IntakeInv
<1>1. PipelineInit => IntakeInv
  BY IntakeInvInit DEF PipelineInit, IntakeInit
<1>2. IntakeInv /\ [PipelineNext]_pipelineVars => IntakeInv'
  BY IntakeHalf, IntakeStep
<1> QED BY <1>1, <1>2, PTL DEF PipelineSpec

(* The pipeline implements Synthesis: the other workers never take a step  *)
(* the mapping and evolution workers were not proved to withstand.         *)
THEOREM PipelineImplementsSynthesis ==
    ASSUME OneClusterer PROVE PipelineSpec => IntakeIsTheEnvironment
<1>1. PipelineInit => SynthInit
  BY DEF PipelineInit, SynthInit
<1>2. IntakeInv /\ [PipelineNext]_pipelineVars
        => [SynthNext]_<<corpusVars, synthVars>>
  BY SynthHalf
<1> QED BY <1>1, <1>2, PipelineKeepsIntakeInv, PTL
           DEF PipelineSpec, SynthSpec, IntakeIsTheEnvironment

(* So the whole pipeline gives each worthwhile event a map before it leaves*)
(* the queue, however many mapping and evolution runs overlap ...          *)
THEOREM PipelineLosesNoMap ==
    ASSUME OneClusterer PROVE PipelineSpec => [](MapNotLost /\ ProcessedWasMapped)
<1>1. SynthSpec => []MapNotLost
  BY NoMapLost
<1>2. SynthSpec => []ProcessedWasMapped
  BY NoArticleConsumedInVain
<1>3. PipelineSpec => SynthSpec
  BY PipelineImplementsSynthesis DEF IntakeIsTheEnvironment
<1> QED BY <1>1, <1>2, <1>3, PTL

(* ... and with one run of each at a time numbers an event's maps 1, 2 ... *)
THEOREM PipelineVersionsContiguous ==
    ASSUME OneClusterer, OneWriterEach
    PROVE  PipelineSpec => []VersionsContiguous
<1>1. SynthSpec => []VersionsContiguous
  BY VersionsAreContiguous
<1>2. PipelineSpec => SynthSpec
  BY PipelineImplementsSynthesis DEF IntakeIsTheEnvironment
<1> QED BY <1>1, <1>2, PTL
=============================================================================
