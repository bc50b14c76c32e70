------------------------------ MODULE Operator ------------------------------
(***************************************************************************)
(* A question to the analyst and the settings it runs under.               *)
(* api/routes/chat.py answers with the operator loop, the deep reasoner or *)
(* a single call; each hands over to the next simpler path when the model  *)
(* fails.  services/runtime_config.py keeps the provider setting in a row  *)
(* and copies it to every process: an API process when an administrator    *)
(* reads or writes it, a batch process when it starts a run.  One question *)
(* is answered at a time by the process Desk; settings change meanwhile.   *)
(***************************************************************************)
EXTENDS Naturals, FiniteSets

CONSTANTS
    Citable,       \* mapped events a tool or a retrieval may return
    Desk,           \* the API process that answers
    Batch,          \* the batch process
    EnvProvider,    \* llm_provider of the environment
    MaxTurns,       \* MAX_LLM_CALLS of the operator loop
    MaxPerTurn,     \* MAX_CALLS_PER_TURN
    MaxThreads,     \* MAX_THREADS of the reasoner
    MaxDeepCalls,   \* MAX_LLM_CALLS of the reasoner
    MaxWrites, MaxQuestions \* bounds

Providers == {"ollama", "off"}
Processes == {Desk, Batch}

ASSUME OperatorAssumption ==
    /\ EnvProvider \in Providers
    /\ MaxTurns \in Nat /\ MaxPerTurn \in Nat \ {0} /\ MaxThreads \in Nat \ {0}
    /\ MaxDeepCalls \in Nat

VARIABLES
    stored,   \* the override row, or "unset"
    cache,    \* _CACHE of every process
    load,     \* per process: a load under way and the row it has read
    writes,
    chat,     \* the question under way
    questions

settingVars == <<stored, cache, load, writes>>
operatorVars == <<stored, cache, load, writes, chat, questions>>

NoLoad == [step |-> "none", row |-> "unset"]
NoReply == [path |-> "none", text |-> "none", degraded |-> FALSE, sources |-> {}]
NoChat == [pc |-> "idle", path |-> "none", turns |-> 0, pending |-> 0, ran |-> 0,
           found |-> {}, retrieved |-> {}, agentCalls |-> 0, deepCalls |-> 0, taken |-> 0,
           reached |-> FALSE, threads |-> 0, findings |-> 0, reply |-> NoReply]
-----------------------------------------------------------------------------
\* New processes have read nothing yet; the row may be left from earlier ones.
OperatorInit ==
    /\ stored \in Providers \cup {"unset"} /\ writes = 0
    /\ cache = [p \in Processes |-> "unset"]
    /\ load = [p \in Processes |-> NoLoad]
    /\ chat = NoChat /\ questions = 0

Effective(p) == IF cache[p] = "unset" THEN EnvProvider ELSE cache[p]

\* PATCH /config, on this host or another: the row and the audit entry are one
\* transaction; null deletes the row.  The host then loads.
WriteSetting(value) ==
    /\ writes < MaxWrites
    /\ stored' = value /\ writes' = writes + 1
    /\ UNCHANGED <<cache, load, chat, questions>>

\* load(): the rows are read, and other requests may run before they are used.
\* After a write, on GET /config, and at the start of a batch run.
FetchSettings(p) ==
    /\ load[p].step = "none"
    /\ load' = [load EXCEPT ![p] = [step |-> "fetched", row |-> stored]]
    /\ UNCHANGED <<stored, cache, writes, chat, questions>>

OverlaidCache(p) == \* mutant: the cache is not cleared first
    IF load[p].row = "unset" THEN cache[p] ELSE load[p].row
\* Cleared, then refilled from the rows.
Refilled(p) == load[p].row

FillCache(p) ==
    /\ load[p].step = "fetched"
    /\ cache' = [cache EXCEPT ![p] = Refilled(p)]
    /\ load' = [load EXCEPT ![p] = NoLoad]
    /\ UNCHANGED <<stored, writes, chat, questions>>

\* The table cannot be read: the old values stay in use.
LoadFails(p) ==
    /\ load[p].step = "fetched"
    /\ load' = [load EXCEPT ![p] = NoLoad]
    /\ UNCHANGED <<stored, cache, writes, chat, questions>>
-----------------------------------------------------------------------------
(* The model server answers or not, anew at every request.                 *)

\* llm_allowed(): the provider is on and its server is up.
Gate == IF Effective(Desk) = "off" THEN {FALSE} ELSE BOOLEAN

\* complete() and complete_tools() run in a thread and read the provider again;
\* during a refill they may find the cache empty.
ProviderRead == {Effective(Desk)} \cup IF load[Desk].step = "fetched" THEN {EnvProvider} ELSE {}

\* A call ends in an error or, within the retries of an empty completion, in a
\* text; with the provider off no request is sent.
Calls ==
    {call \in [text : BOOLEAN, sent : BOOLEAN] :
        /\ call.text => call.sent
        /\ \E p \in ProviderRead : call.sent <=> p # "off"}

Retrieved == SUBSET Citable

Becomes(c) == chat' = c /\ UNCHANGED settingVars /\ UNCHANGED questions
Finish(c, reply) == Becomes([c EXCEPT !.pc = "done", !.reply = reply])
Replied(path, text, sources) ==
    [path |-> path, text |-> text, degraded |-> text # "model", sources |-> sources]
-----------------------------------------------------------------------------
\* POST /chat of a paying account.
AskQuestion(path) ==
    /\ chat.pc = "idle" /\ questions < MaxQuestions
    /\ questions' = questions + 1
    /\ chat' = [NoChat EXCEPT !.path = path, !.pc = path]
    /\ UNCHANGED settingVars

\* A query of the retrieval fails: 502.
RetrievalFails ==
    /\ chat.pc \in {"deep", "plain"}
    /\ Finish(chat, [NoReply EXCEPT !.path = "unavailable"])

FallBack(c) == Becomes([c EXCEPT !.pc = "deep"])

\* The first gate of answer_question_agentic().
AgentBegins ==
    /\ chat.pc = "agent"
    /\ \E allowed \in Gate :
         IF allowed THEN Becomes([chat EXCEPT !.pc = "turn"]) ELSE FallBack(chat)

\* The loop's count and gate.
AgentTurn ==
    /\ chat.pc = "turn"
    /\ IF chat.turns >= MaxTurns THEN Becomes([chat EXCEPT !.pc = "synthesis"])
       ELSE \E allowed \in Gate :
              Becomes([chat EXCEPT !.pc = IF allowed THEN "call" ELSE "synthesis"])

GroundedAlways == TRUE \* mutant: an answer without any tool is taken
Grounded == chat.ran > 0

CountTurn(c, asked) == [c EXCEPT !.turns = @ + 1]

\* A turn of the model: it fails, asks for tools (MaxPerTurn of them are run),
\* or answers, perhaps with nothing.
AgentCall ==
    /\ chat.pc = "call"
    /\ \E call \in Calls, asked \in 0..MaxPerTurn, empty \in BOOLEAN :
         LET called == [CountTurn(chat, asked) EXCEPT !.agentCalls = @ + 1,
                                                      !.reached = @ \/ call.sent]
         IN  IF ~call.text THEN FallBack(called)
             ELSE IF asked > 0 THEN Becomes([called EXCEPT !.pc = "tools", !.pending = asked])
             ELSE IF ~Grounded THEN FallBack(called)
             ELSE IF empty THEN Becomes([called EXCEPT !.pc = "synthesis"])
             ELSE Finish(called, Replied("agent", "model", chat.found))

\* run_tool() never raises; events it returns become sources.
RunTool ==
    /\ chat.pc = "tools"
    /\ \E events \in Retrieved :
         Becomes([chat EXCEPT !.ran = @ + 1, !.found = @ \cup events, !.pending = @ - 1,
                              !.pc = IF chat.pending = 1 THEN "turn" ELSE "tools"])

\* After the loop, once more, outside its count and without its gate.
Synthesis ==
    /\ chat.pc = "synthesis"
    /\ IF ~Grounded THEN FallBack(chat)
       ELSE \E call \in Calls, empty \in BOOLEAN :
              LET called == [chat EXCEPT !.agentCalls = @ + 1, !.reached = @ \/ call.sent]
              IN  IF ~call.text \/ empty THEN FallBack(called)
                  ELSE Finish(called, Replied("agent", "model", chat.found))
-----------------------------------------------------------------------------
(* The deep reasoner: observe, orient, decide, act.                        *)

Observe ==
    /\ chat.pc = "deep"
    /\ \E events \in Retrieved, allowed \in Gate :
         IF allowed THEN Becomes([chat EXCEPT !.pc = "orient", !.retrieved = events])
         ELSE Finish(chat, Replied("deep", "template", events))

\* _llm(): what a call leaves behind and whether it gave a text.  It takes one
\* of the budget first, then passes the gate.
DeepCalls ==
    IF chat.taken >= MaxDeepCalls THEN {[chat |-> chat, text |-> FALSE]}
    ELSE LET took == [chat EXCEPT !.taken = @ + 1]
         IN  (IF FALSE \in Gate THEN {[chat |-> took, text |-> FALSE]} ELSE {})
             \cup
             (IF TRUE \in Gate
              THEN {[chat |-> [took EXCEPT !.deepCalls = @ + 1, !.reached = @ \/ call.sent],
                     text |-> call.text] : call \in Calls}
              ELSE {})

ThreadsKept(n) == IF n > MaxThreads THEN MaxThreads ELSE n

\* No text, or one that names no thread, leaves the question as its only thread.
Orients ==
    /\ chat.pc = "orient"
    /\ \E called \in DeepCalls, n \in 0..MaxThreads + 1 :
         Becomes([called.chat EXCEPT !.pc = "decide",
                    !.threads = IF called.text /\ n > 0 THEN ThreadsKept(n) ELSE 1])

Decides ==
    /\ chat.pc = "decide"
    /\ \E called \in DeepCalls :
         IF called.text
         THEN Becomes([called.chat EXCEPT !.findings = @ + 1, !.threads = @ - 1,
                         !.pc = IF chat.threads = 1 THEN "act" ELSE "decide"])
         ELSE Becomes([called.chat EXCEPT !.pc = "act"])

Acts ==
    /\ chat.pc = "act"
    /\ \E called \in DeepCalls :
         Finish(called.chat,
                Replied("deep", IF called.text THEN "model"
                                ELSE IF chat.findings > 0 THEN "stitched" ELSE "template",
                        chat.retrieved))
-----------------------------------------------------------------------------
\* answer_question(): one gated call, or the template.
PlainAnswer ==
    /\ chat.pc = "plain"
    /\ \E events \in Retrieved, allowed \in Gate, call \in Calls :
         Finish([chat EXCEPT !.reached = allowed /\ call.sent],
                Replied("plain", IF allowed /\ call.text THEN "model" ELSE "template", events))

Reply == chat.pc = "done" /\ Becomes(NoChat)
-----------------------------------------------------------------------------
AgentStep == AgentBegins \/ AgentTurn \/ AgentCall \/ RunTool \/ Synthesis
ReasonerStep == Observe \/ Orients \/ Decides \/ Acts
AnswerStep == AgentStep \/ ReasonerStep \/ PlainAnswer \/ RetrievalFails \/ Reply

SettingsStep ==
    \/ \E value \in Providers \cup {"unset"} : WriteSetting(value)
    \/ \E p \in Processes : FetchSettings(p) \/ FillCache(p) \/ LoadFails(p)

OperatorNext ==
    \/ SettingsStep \/ AnswerStep
    \/ \E path \in {"agent", "deep", "plain"} : AskQuestion(path)

OperatorSpec == OperatorInit /\ [][OperatorNext]_operatorVars

\* Requests are run to their end; the batch process starts run after run, and
\* reads the table now and then.
OperatorFairness ==
    /\ WF_operatorVars(AnswerStep)
    /\ WF_operatorVars(FetchSettings(Batch))
    /\ SF_operatorVars(FillCache(Batch))

LiveOperatorSpec == OperatorSpec /\ OperatorFairness
-----------------------------------------------------------------------------
Replies == [path : {"none", "agent", "deep", "plain", "unavailable"},
            text : {"none", "model", "stitched", "template"},
            degraded : BOOLEAN, sources : SUBSET Citable]

Chats == [pc : {"idle", "agent", "turn", "call", "tools", "synthesis", "deep", "orient",
                "decide", "act", "plain", "done"},
          path : {"none", "agent", "deep", "plain"},
          turns : Nat, pending : Nat, ran : Nat,
          found : SUBSET Citable, retrieved : SUBSET Citable,
          agentCalls : Nat, deepCalls : Nat, taken : Nat, reached : BOOLEAN,
          threads : Nat, findings : Nat, reply : Replies]

\* Types.
OperatorTypeOK ==
    /\ stored \in Providers \cup {"unset"}
    /\ cache \in [Processes -> Providers \cup {"unset"}]
    /\ load \in [Processes -> [step : {"none", "fetched"}, row : Providers \cup {"unset"}]]
    /\ writes \in Nat /\ questions \in Nat
    /\ chat \in Chats

\* However the provider is switched and the model fails, and whatever hands over
\* to what, one question costs at most the loop's turns, its synthesis call and
\* the reasoner's chain; and the chain's own budget is never what cuts it short.
CallsBounded ==
    /\ chat.agentCalls <= MaxTurns + 1
    /\ chat.deepCalls <= MaxThreads + 2
    /\ chat.pc \in {"orient", "decide", "act"} /\ MaxDeepCalls >= MaxThreads + 2
         => chat.taken < MaxDeepCalls

\* An answer of the operator follows at least one tool it ran, and an answer that
\* is not marked degraded was written by the model; one that was never asked, or
\* never reached, answers with the template.
AnswersAreHonest ==
    chat.pc = "done" /\ chat.reply.path # "unavailable" =>
        /\ chat.reply.path = "agent" => chat.ran > 0 /\ chat.path = "agent"
        /\ ~chat.reply.degraded => chat.reached
        /\ chat.reply.text = "stitched" => chat.findings > 0
        /\ ~chat.reached => chat.reply.text = "template"

\* When administrators stop writing, the batch process comes to use what they
\* stored last, a deleted override included.
BatchFollowsSettings == <>[](cache[Batch] = stored)
-----------------------------------------------------------------------------
(* What the sources say and the code does not do.                          *)

\* operator_loop.py:29, "One agentic request runs at most this many LLM turns": the
\* synthesis comes on top of the turns of the loop.
TurnsBounded == chat.agentCalls <= MaxTurns
=============================================================================
