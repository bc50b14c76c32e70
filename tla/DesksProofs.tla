---------------------------- MODULE DesksProofs -----------------------------
(***************************************************************************)
(* Proofs about Operator: what a question costs and what its answer says   *)
(* of itself, for any limits of the loop and of the reasoner and however   *)
(* the provider is switched and the model fails meanwhile.  And about      *)
(* Harvest: what the console says of a news source, for any sources and    *)
(* any number of runs at once.  And about Register and Readers, whose      *)
(* loops over the rows of a file or of a query are well defined, and what  *)
(* they have done after each row.                                          *)
(***************************************************************************)
EXTENDS Operator, Harvest, Register, Readers, WellFoundedInduction, FunctionTheorems,
        FiniteSetTheorems, SequenceTheorems, TLAPS

AgentAt == {"agent", "turn", "call", "tools", "synthesis"}

\* Every agent call is a counted turn until the loop is left.
AgentCost ==
    /\ chat.turns <= MaxTurns
    /\ chat.pc = "call" => chat.turns < MaxTurns
    /\ chat.pc \in AgentAt => chat.path = "agent" /\ chat.agentCalls <= chat.turns
    /\ chat.agentCalls <= MaxTurns + 1
    /\ chat.pc = "tools" => chat.pending >= 1

\* The reasoner takes one call to orient, one per thread, and one to act.
ReasonerCost ==
    /\ chat.deepCalls <= chat.taken
    /\ chat.pc \in AgentAt \cup {"idle", "deep", "plain", "orient"} => chat.taken = 0 /\ chat.findings = 0
    /\ chat.pc = "decide" => /\ chat.taken <= chat.findings + 1
                             /\ chat.findings + chat.threads <= MaxThreads /\ chat.threads >= 1
    /\ chat.pc = "act" => chat.taken <= MaxThreads + 1
    /\ chat.taken <= MaxThreads + 2

\* Findings are the model's words.
Sourced == chat.findings > 0 => chat.reached

ChatInv == AgentCost /\ ReasonerCost /\ Sourced /\ AnswersAreHonest

OperatorInv == OperatorTypeOK /\ ChatInv

\* Two states of a question that differ in other things only.
SameAgent(c, d) ==
    c.path = d.path /\ c.turns = d.turns /\ c.agentCalls = d.agentCalls /\ c.ran = d.ran
SameReasoner(c, d) == c.taken = d.taken /\ c.deepCalls = d.deepCalls /\ c.findings = d.findings

USE DEF AgentAt, SameAgent, SameReasoner

LEMMA LimitsAreNumbers == MaxTurns \in Nat /\ MaxThreads \in Nat \ {0} /\ MaxPerTurn \in Nat \ {0} /\ MaxDeepCalls \in Nat
  BY OperatorAssumption

\* A call that gives a text was sent.
LEMMA CallType ==
    ASSUME NEW call \in Calls
    PROVE  call.text \in BOOLEAN /\ call.sent \in BOOLEAN /\ (call.text => call.sent)
  BY DEF Calls

LEMMA GateType == Gate \subseteq BOOLEAN
  BY DEF Gate

LEMMA RepliedType ==
    ASSUME NEW path \in {"agent", "deep", "plain"}, NEW text \in {"model", "stitched", "template"},
           NEW sources \in SUBSET Citable
    PROVE  /\ Replied(path, text, sources) \in Replies
           /\ Replied(path, text, sources).path = path /\ Replied(path, text, sources).text = text
           /\ Replied(path, text, sources).degraded <=> text # "model"
  BY DEF Replied, Replies

LEMMA NoChatType == NoChat \in Chats /\ NoReply \in Replies
<1>1. NoReply \in Replies
  BY DEF NoReply, Replies
<1> QED BY <1>1 DEF NoChat, Chats

LEMMA OperatorInvInit == ASSUME OperatorInit PROVE OperatorInv
<1>1. chat = NoChat /\ chat \in Chats
  BY NoChatType DEF OperatorInit
<1>2. NoLoad \in [step : {"none", "fetched"}, row : Providers \cup {"unset"}]
  BY DEF NoLoad
<1>3. OperatorTypeOK
  BY <1>1, <1>2 DEF OperatorInit, OperatorTypeOK
<1>4. ChatInv
  BY <1>1, LimitsAreNumbers DEF NoChat, ChatInv, AgentCost, ReasonerCost, Sourced, AnswersAreHonest
<1> QED BY <1>3, <1>4 DEF OperatorInv
-----------------------------------------------------------------------------
LEMMA AgentKeeps ==
    ASSUME chat \in Chats, ChatInv, AgentStep
    PROVE  chat' \in Chats /\ ChatInv'
<1> USE LimitsAreNumbers
<1>1. CASE AgentBegins
  <2>1. chat' \in {[chat EXCEPT !.pc = "turn"], [chat EXCEPT !.pc = "deep"]} /\ chat.pc = "agent"
    BY <1>1 DEF AgentBegins, FallBack, Becomes
  <2>2. CASE chat' = [chat EXCEPT !.pc = "turn"]
    BY <2>1, <2>2 DEF Chats, ChatInv, AgentCost, ReasonerCost, Sourced, AnswersAreHonest
  <2>3. CASE chat' = [chat EXCEPT !.pc = "deep"]
    BY <2>1, <2>3 DEF Chats, ChatInv, AgentCost, ReasonerCost, Sourced, AnswersAreHonest
  <2> QED BY <2>1, <2>2, <2>3
<1>2. CASE AgentTurn
  <2>1. PICK next \in {"synthesis", "call"} :
          chat' = [chat EXCEPT !.pc = next] /\ (next = "call" => ~(chat.turns >= MaxTurns))
    BY <1>2 DEF AgentTurn, Becomes
  <2>2. chat.pc = "turn"
    BY <1>2 DEF AgentTurn
  <2> QED BY <2>1, <2>2 DEF Chats, ChatInv, AgentCost, ReasonerCost, Sourced, AnswersAreHonest
<1>3. CASE AgentCall
  <2>0. PICK call \in Calls, asked \in 0..MaxPerTurn, empty \in BOOLEAN :
        LET called == [CountTurn(chat, asked) EXCEPT !.agentCalls = @ + 1, !.reached = @ \/ call.sent]
        IN  IF ~call.text THEN FallBack(called)
            ELSE IF asked > 0 THEN Becomes([called EXCEPT !.pc = "tools", !.pending = asked])
            ELSE IF ~Grounded THEN FallBack(called)
            ELSE IF empty THEN Becomes([called EXCEPT !.pc = "synthesis"])
            ELSE Finish(called, Replied("agent", "model", chat.found))
    BY <1>3 DEF AgentCall
  <2> DEFINE reached == chat.reached \/ call.sent
             called == [CountTurn(chat, asked) EXCEPT !.agentCalls = @ + 1, !.reached = @ \/ call.sent]
             reply == Replied("agent", "model", chat.found)
             turns == chat.turns + 1
             calls == chat.agentCalls + 1
  <2>1. chat.pc = "call" /\ asked \in Nat
    BY <1>3 DEF AgentCall
  <2>2. reached \in BOOLEAN /\ (chat.reached => reached) /\ (call.text => reached)
    BY CallType
  <2>3. called = [chat EXCEPT !.turns = turns, !.agentCalls = calls, !.reached = reached]
    BY DEF CountTurn, Chats
  <2>9. turns = chat.turns + 1 /\ calls = chat.agentCalls + 1 /\ turns \in Nat /\ calls \in Nat
    BY DEF Chats
  <2> HIDE DEF called, reached, turns, calls
  <2>4. called \in Chats
    BY <2>2, <2>3, <2>9 DEF Chats
  <2>5. /\ called.turns = turns /\ called.agentCalls = calls
        /\ called.reached = reached /\ called.path = chat.path /\ called.ran = chat.ran
        /\ SameReasoner(called, chat)
    BY <2>3 DEF Chats
  <2>6. ASSUME NEW pc \in {"deep", "synthesis"}, chat' = [called EXCEPT !.pc = pc]
        PROVE  chat' \in Chats /\ ChatInv'
    <3>1. chat' \in Chats /\ chat'.pc = pc /\ chat'.reached = called.reached
          /\ SameAgent(chat', called) /\ SameReasoner(chat', called)
      BY <2>4, <2>6 DEF Chats
    <3> QED BY <2>1, <2>2, <2>5, <2>9, <3>1 DEF Chats, ChatInv, AgentCost, ReasonerCost, Sourced, AnswersAreHonest
  <2>7. CASE chat' = [called EXCEPT !.pc = "tools", !.pending = asked] /\ asked > 0
    <3>1. chat' \in Chats /\ chat'.pc = "tools" /\ chat'.pending = asked /\ chat'.reached = called.reached
          /\ SameAgent(chat', called) /\ SameReasoner(chat', called)
      BY <2>1, <2>4, <2>7 DEF Chats
    <3> QED BY <2>1, <2>2, <2>5, <2>7, <2>9, <3>1
            DEF Chats, ChatInv, AgentCost, ReasonerCost, Sourced, AnswersAreHonest
  <2>8. CASE chat' = [called EXCEPT !.pc = "done", !.reply = reply] /\ chat.ran > 0 /\ call.text
    <3>1. reply \in Replies /\ reply.path = "agent" /\ reply.text = "model"
      BY RepliedType DEF Chats
    <3> HIDE DEF reply
    <3>2. chat' \in Chats /\ chat'.pc = "done" /\ chat'.reply = reply /\ chat'.reached = called.reached
          /\ SameAgent(chat', called) /\ SameReasoner(chat', called)
      BY <2>4, <2>8, <3>1 DEF Chats
    <3>3. AgentCost' /\ ReasonerCost' /\ Sourced'
      BY <2>1, <2>2, <2>5, <2>9, <3>2 DEF Chats, ChatInv, AgentCost, ReasonerCost, Sourced
    <3>4. AnswersAreHonest'
      BY <2>1, <2>2, <2>5, <2>8, <3>1, <3>2 DEF ChatInv, AgentCost, AnswersAreHonest
    <3> QED BY <3>2, <3>3, <3>4 DEF ChatInv
  <2> QED BY <2>0, <2>6, <2>7, <2>8 DEF FallBack, Becomes, Finish, Grounded, called
<1>4. CASE RunTool
  <2>0. PICK events \in Retrieved :
        chat' = [chat EXCEPT !.ran = @ + 1, !.found = @ \cup events, !.pending = @ - 1,
                             !.pc = IF chat.pending = 1 THEN "turn" ELSE "tools"]
    BY <1>4 DEF RunTool, Becomes
  <2>1. chat.pc = "tools" /\ events \subseteq Citable
    BY <1>4 DEF RunTool, Retrieved
  <2> DEFINE pc == IF chat.pending = 1 THEN "turn" ELSE "tools"
             ran == chat.ran + 1
             left == chat.pending - 1
             found == chat.found \cup events
  <2>2. chat' = [chat EXCEPT !.ran = ran, !.found = found, !.pending = left, !.pc = pc]
    BY <2>0
  <2>3. /\ left \in Nat /\ (pc = "tools" => left >= 1) /\ pc \in {"turn", "tools"}
        /\ ran \in Nat /\ found \subseteq Citable
    BY <2>1 DEF Chats, ChatInv, AgentCost
  <2> HIDE DEF pc, ran, left, found
  <2>4. /\ chat' \in Chats /\ chat'.pc = pc /\ chat'.pending = left /\ chat'.reached = chat.reached
        /\ chat'.path = chat.path /\ chat'.turns = chat.turns /\ chat'.agentCalls = chat.agentCalls
        /\ SameReasoner(chat', chat)
    BY <2>1, <2>2, <2>3 DEF Chats
  <2> QED BY <2>1, <2>3, <2>4 DEF Chats, ChatInv, AgentCost, ReasonerCost, Sourced, AnswersAreHonest
<1>5. CASE Synthesis
  <2>1. chat.pc = "synthesis"
    BY <1>5 DEF Synthesis
  <2>2. CASE chat' = [chat EXCEPT !.pc = "deep"]
    BY <2>1, <2>2 DEF Chats, ChatInv, AgentCost, ReasonerCost, Sourced, AnswersAreHonest
  <2>3. CASE chat' # [chat EXCEPT !.pc = "deep"]
    <3> DEFINE reply == Replied("agent", "model", chat.found)
    <3>0. PICK call \in Calls, empty \in BOOLEAN :
          LET called == [chat EXCEPT !.agentCalls = @ + 1, !.reached = @ \/ call.sent]
          IN  IF ~call.text \/ empty THEN FallBack(called) ELSE Finish(called, reply)
      BY <1>5, <2>3 DEF Synthesis, FallBack, Becomes
    <3> DEFINE reached == chat.reached \/ call.sent
               calls == chat.agentCalls + 1
               called == [chat EXCEPT !.agentCalls = calls, !.reached = reached]
    <3>1. chat.ran > 0
      BY <1>5, <2>3 DEF Synthesis, FallBack, Becomes, Grounded
    <3>2. reached \in BOOLEAN /\ (chat.reached => reached) /\ (call.text => reached)
      BY CallType
    <3>3. reply \in Replies /\ reply.path = "agent" /\ reply.text = "model"
      BY RepliedType DEF Chats
    <3>4. \/ chat' = [called EXCEPT !.pc = "deep"]
          \/ chat' = [called EXCEPT !.pc = "done", !.reply = reply] /\ call.text
      BY <3>0 DEF FallBack, Finish, Becomes
    <3>9. calls = chat.agentCalls + 1 /\ calls \in Nat
      BY DEF Chats
    <3> HIDE DEF reply, reached, calls
    <3>5. called \in Chats
      BY <3>2, <3>9 DEF Chats
    <3>6. /\ called.turns = chat.turns /\ called.agentCalls = calls
          /\ called.reached = reached /\ called.path = chat.path /\ called.ran = chat.ran
          /\ SameReasoner(called, chat)
      BY DEF Chats
    <3> HIDE DEF called
    <3>7. CASE chat' = [called EXCEPT !.pc = "deep"]
      <4>1. chat' \in Chats /\ chat'.pc = "deep" /\ chat'.reached = called.reached
            /\ SameAgent(chat', called) /\ SameReasoner(chat', called)
        BY <3>5, <3>7 DEF Chats
      <4> QED BY <2>1, <3>2, <3>6, <3>9, <4>1 DEF Chats, ChatInv, AgentCost, ReasonerCost, Sourced, AnswersAreHonest
    <3>8. CASE chat' = [called EXCEPT !.pc = "done", !.reply = reply] /\ call.text
      <4>1. chat' \in Chats /\ chat'.pc = "done" /\ chat'.reply = reply /\ chat'.reached = called.reached
            /\ SameAgent(chat', called) /\ SameReasoner(chat', called)
        BY <3>3, <3>5, <3>8 DEF Chats
      <4>2. AgentCost' /\ ReasonerCost' /\ Sourced'
        BY <2>1, <3>2, <3>6, <3>9, <4>1 DEF Chats, ChatInv, AgentCost, ReasonerCost, Sourced
      <4>3. AnswersAreHonest'
        BY <2>1, <3>1, <3>2, <3>3, <3>6, <3>8, <4>1 DEF ChatInv, AgentCost, AnswersAreHonest
      <4> QED BY <4>1, <4>2, <4>3 DEF ChatInv
    <3> QED BY <3>4, <3>7, <3>8
  <2> QED BY <2>2, <2>3
<1> QED BY <1>1, <1>2, <1>3, <1>4, <1>5 DEF AgentStep

\* What _llm() leaves behind: at most one more call of the budget, made only if it is taken.
LEMMA DeepCallType ==
    ASSUME chat \in Chats, NEW called \in DeepCalls
    PROVE  /\ called.chat \in Chats /\ called.text \in BOOLEAN
           /\ SameAgent(called.chat, chat) /\ called.chat.findings = chat.findings
           /\ called.chat.threads = chat.threads /\ called.chat.retrieved = chat.retrieved
           /\ called.chat.taken <= chat.taken + 1
           /\ chat.deepCalls <= chat.taken => called.chat.deepCalls <= called.chat.taken
           /\ chat.reached \/ called.text => called.chat.reached
<1> DEFINE taken == chat.taken + 1
           deepCalls == chat.deepCalls + 1
<1>1. taken = chat.taken + 1 /\ deepCalls = chat.deepCalls + 1 /\ taken \in Nat /\ deepCalls \in Nat
  BY DEF Chats
<1>2. CASE called = [chat |-> chat, text |-> FALSE]
  <2>1. called.chat = chat /\ called.text = FALSE
    BY <1>2
  <2>2. chat.taken \in Nat
    BY DEF Chats
  <2>3. chat.taken <= chat.taken + 1
    BY <2>2
  <2>4. called.chat \in Chats
    BY <2>1, Zenon
  <2>5. called.text \in BOOLEAN /\ (chat.reached \/ called.text => called.chat.reached)
    BY <2>1, Zenon
  <2> QED BY <2>1, <2>3, <2>4, <2>5, Zenon
<1>3. CASE called = [chat |-> [chat EXCEPT !.taken = taken], text |-> FALSE]
  <2>1. called.chat = [chat EXCEPT !.taken = taken] /\ called.text = FALSE
    BY <1>3
  <2> HIDE DEF taken
  <2>2. called.chat \in Chats
    BY <1>1, <2>1 DEF Chats
  <2>3. /\ SameAgent(called.chat, chat) /\ called.chat.findings = chat.findings
        /\ called.chat.threads = chat.threads /\ called.chat.retrieved = chat.retrieved
        /\ called.chat.taken = taken /\ called.chat.deepCalls = chat.deepCalls
    BY <2>1 DEF Chats
  <2>7. called.chat.reached = chat.reached
    BY <2>1 DEF Chats
  <2>4. chat.taken \in Nat /\ chat.deepCalls \in Nat
    BY DEF Chats
  <2>5. /\ called.chat.taken <= chat.taken + 1
        /\ chat.deepCalls <= chat.taken => called.chat.deepCalls <= called.chat.taken
    BY <1>1, <2>3, <2>4
  <2>6. called.text \in BOOLEAN /\ (chat.reached \/ called.text => called.chat.reached)
    BY <2>1, <2>7, Zenon
  <2> QED BY <2>2, <2>3, <2>5, <2>6
<1>4. ASSUME NEW call \in Calls,
             called = [chat |-> [[chat EXCEPT !.taken = taken] EXCEPT !.deepCalls = @ + 1, !.reached = @ \/ call.sent],
                       text |-> call.text]
      PROVE  /\ called.chat \in Chats /\ called.text \in BOOLEAN
             /\ SameAgent(called.chat, chat) /\ called.chat.findings = chat.findings
             /\ called.chat.threads = chat.threads /\ called.chat.retrieved = chat.retrieved
             /\ called.chat.taken <= chat.taken + 1
             /\ chat.deepCalls <= chat.taken => called.chat.deepCalls <= called.chat.taken
             /\ chat.reached \/ called.text => called.chat.reached
  <2> DEFINE reached == chat.reached \/ call.sent
  <2>1. reached \in BOOLEAN /\ (chat.reached => reached) /\ (call.text => reached) /\ call.text \in BOOLEAN
    BY CallType
  <2>2. called.text = call.text
    BY <1>4, Zenon
  <2>3. called.chat = [[chat EXCEPT !.taken = taken] EXCEPT !.deepCalls = @ + 1, !.reached = @ \/ call.sent]
    BY <1>4, Zenon
  <2>4. called.chat = [chat EXCEPT !.taken = taken, !.deepCalls = deepCalls, !.reached = reached]
    BY <2>3 DEF Chats
  <2> HIDE DEF reached, taken, deepCalls
  <2>5. called.chat \in Chats
    BY <1>1, <2>1, <2>4 DEF Chats
  <2>6. /\ SameAgent(called.chat, chat) /\ called.chat.findings = chat.findings
        /\ called.chat.threads = chat.threads /\ called.chat.retrieved = chat.retrieved
        /\ called.chat.taken = taken /\ called.chat.deepCalls = deepCalls /\ called.chat.reached = reached
    BY <2>4 DEF Chats
  <2>7. chat.taken \in Nat /\ chat.deepCalls \in Nat
    BY DEF Chats
  <2>8. /\ called.chat.taken <= chat.taken + 1
        /\ chat.deepCalls <= chat.taken => called.chat.deepCalls <= called.chat.taken
    BY <1>1, <2>6, <2>7
  <2>9. called.text \in BOOLEAN /\ (chat.reached \/ called.text => called.chat.reached)
    BY <2>1, <2>2, <2>6, Zenon
  <2> QED BY <2>5, <2>6, <2>8, <2>9
<1> QED BY <1>2, <1>3, <1>4 DEF DeepCalls

LEMMA ReasonerKeeps ==
    ASSUME chat \in Chats, ChatInv, ReasonerStep
    PROVE  chat' \in Chats /\ ChatInv'
<1> USE LimitsAreNumbers
<1>1. CASE Observe
  <2>0. PICK events \in Retrieved :
        \/ chat' = [chat EXCEPT !.pc = "orient", !.retrieved = events]
        \/ chat' = [chat EXCEPT !.pc = "done", !.reply = Replied("deep", "template", events)]
    BY <1>1 DEF Observe, Becomes, Finish
  <2> DEFINE reply == Replied("deep", "template", events)
  <2>1. chat.pc = "deep" /\ events \subseteq Citable
    BY <1>1 DEF Observe, Retrieved
  <2>2. reply \in Replies /\ reply.path = "deep" /\ reply.text = "template" /\ reply.degraded
    BY <2>1, RepliedType
  <2> HIDE DEF reply
  <2>3. CASE chat' = [chat EXCEPT !.pc = "orient", !.retrieved = events]
    BY <2>1, <2>3 DEF Chats, ChatInv, AgentCost, ReasonerCost, Sourced, AnswersAreHonest
  <2>4. CASE chat' = [chat EXCEPT !.pc = "done", !.reply = reply]
    BY <2>1, <2>2, <2>4 DEF Chats, ChatInv, AgentCost, ReasonerCost, Sourced, AnswersAreHonest
  <2> QED BY <2>0, <2>3, <2>4 DEF reply
<1>2. CASE Orients
  <2>0. PICK called \in DeepCalls, n \in 0..MaxThreads + 1 :
        chat' = [called.chat EXCEPT !.pc = "decide",
                    !.threads = IF called.text /\ n > 0 THEN ThreadsKept(n) ELSE 1]
    BY <1>2 DEF Orients, Becomes
  <2> DEFINE kept == IF called.text /\ n > 0 THEN ThreadsKept(n) ELSE 1
             after == called.chat
  <2>1. chat.pc = "orient"
    BY <1>2 DEF Orients
  <2>2. kept \in Nat /\ kept >= 1 /\ kept <= MaxThreads
    BY DEF ThreadsKept
  <2>3. /\ after \in Chats /\ SameAgent(after, chat) /\ after.findings = chat.findings
        /\ after.threads = chat.threads /\ after.taken <= chat.taken + 1
        /\ chat.deepCalls <= chat.taken => after.deepCalls <= after.taken
        /\ chat.reached \/ called.text => after.reached
    BY DeepCallType
  <2> HIDE DEF kept, after
  <2>4. chat' = [after EXCEPT !.pc = "decide", !.threads = kept]
    BY <2>0 DEF kept, after
  <2>5. /\ chat' \in Chats /\ chat'.pc = "decide" /\ chat'.threads = kept /\ chat'.reached = after.reached
        /\ SameAgent(chat', after) /\ SameReasoner(chat', after)
    BY <2>2, <2>3, <2>4 DEF Chats
  <2> QED BY <2>1, <2>2, <2>3, <2>5 DEF Chats, ChatInv, AgentCost, ReasonerCost, Sourced, AnswersAreHonest
<1>3. CASE Decides
  <2>0. PICK called \in DeepCalls :
        IF called.text
        THEN chat' = [called.chat EXCEPT !.findings = @ + 1, !.threads = @ - 1,
                                         !.pc = IF chat.threads = 1 THEN "act" ELSE "decide"]
        ELSE chat' = [called.chat EXCEPT !.pc = "act"]
    BY <1>3 DEF Decides, Becomes
  <2> DEFINE after == called.chat
             pc == IF chat.threads = 1 THEN "act" ELSE "decide"
             findings == after.findings + 1
             threads == after.threads - 1
  <2>1. chat.pc = "decide"
    BY <1>3 DEF Decides
  <2>2. /\ after \in Chats /\ SameAgent(after, chat) /\ after.findings = chat.findings
        /\ after.threads = chat.threads /\ after.taken <= chat.taken + 1
        /\ chat.deepCalls <= chat.taken => after.deepCalls <= after.taken
        /\ chat.reached \/ called.text => after.reached
    BY DeepCallType
  <2>3. CASE called.text
    <3>1. chat' = [after EXCEPT !.findings = findings, !.threads = threads, !.pc = pc]
      BY <2>0, <2>3
    <3>2. /\ pc \in {"act", "decide"} /\ (pc = "decide" => threads >= 1)
          /\ threads = chat.threads - 1 /\ threads \in Nat
          /\ findings = chat.findings + 1 /\ findings \in Nat
      BY <2>1, <2>2 DEF Chats, ChatInv, ReasonerCost
    <3> HIDE DEF after, pc, findings, threads
    <3>3. /\ chat' \in Chats /\ chat'.pc = pc /\ chat'.threads = threads /\ chat'.reached = after.reached
          /\ chat'.findings = findings /\ chat'.taken = after.taken /\ chat'.deepCalls = after.deepCalls
          /\ SameAgent(chat', after)
      BY <2>2, <3>1, <3>2 DEF Chats
    <3> QED BY <2>1, <2>2, <2>3, <3>2, <3>3
            DEF Chats, ChatInv, AgentCost, ReasonerCost, Sourced, AnswersAreHonest
  <2>4. CASE ~called.text
    <3>1. chat' = [after EXCEPT !.pc = "act"]
      BY <2>0, <2>4
    <3> HIDE DEF after
    <3>2. /\ chat' \in Chats /\ chat'.pc = "act" /\ chat'.reached = after.reached
          /\ SameAgent(chat', after) /\ SameReasoner(chat', after)
      BY <2>2, <3>1 DEF Chats
    <3> QED BY <2>1, <2>2, <3>2 DEF Chats, ChatInv, AgentCost, ReasonerCost, Sourced, AnswersAreHonest
  <2> QED BY <2>3, <2>4
<1>4. CASE Acts
  <2>0. PICK called \in DeepCalls :
        chat' = [called.chat EXCEPT !.pc = "done",
                   !.reply = Replied("deep", IF called.text THEN "model"
                                             ELSE IF chat.findings > 0 THEN "stitched" ELSE "template",
                                     chat.retrieved)]
    BY <1>4 DEF Acts, Finish, Becomes
  <2> DEFINE after == called.chat
             text == IF called.text THEN "model" ELSE IF chat.findings > 0 THEN "stitched" ELSE "template"
             reply == Replied("deep", text, chat.retrieved)
  <2>1. chat.pc = "act"
    BY <1>4 DEF Acts
  <2>2. /\ after \in Chats /\ SameAgent(after, chat) /\ after.findings = chat.findings
        /\ after.threads = chat.threads /\ after.taken <= chat.taken + 1
        /\ chat.deepCalls <= chat.taken => after.deepCalls <= after.taken
        /\ chat.reached \/ called.text => after.reached
    BY DeepCallType
  <2>3. /\ text \in {"model", "stitched", "template"}
        /\ text = "model" => called.text
        /\ text = "stitched" => chat.findings > 0
        /\ text = "template" => ~called.text /\ ~(chat.findings > 0)
    OBVIOUS
  <2> HIDE DEF text
  <2>4. reply \in Replies /\ reply.path = "deep" /\ reply.text = text /\ (reply.degraded <=> text # "model")
    BY <2>3, RepliedType DEF Chats
  <2>5. chat' = [after EXCEPT !.pc = "done", !.reply = reply]
    BY <2>0 DEF text
  <2> HIDE DEF reply, after
  <2>6. /\ chat' \in Chats /\ chat'.pc = "done" /\ chat'.reply = reply /\ chat'.reached = after.reached
        /\ SameAgent(chat', after) /\ SameReasoner(chat', after)
    BY <2>2, <2>4, <2>5 DEF Chats
  <2> QED BY <2>1, <2>2, <2>3, <2>4, <2>6 DEF Chats, ChatInv, AgentCost, ReasonerCost, Sourced, AnswersAreHonest
<1> QED BY <1>1, <1>2, <1>3, <1>4 DEF ReasonerStep

LEMMA AnswerKeeps ==
    ASSUME chat \in Chats, ChatInv, AnswerStep
    PROVE  chat' \in Chats /\ ChatInv'
<1> USE LimitsAreNumbers
<1>1. CASE PlainAnswer
  <2>0. PICK events \in Retrieved, allowed \in Gate, call \in Calls :
        chat' = [[chat EXCEPT !.reached = allowed /\ call.sent] EXCEPT !.pc = "done",
                   !.reply = Replied("plain", IF allowed /\ call.text THEN "model" ELSE "template", events)]
    BY <1>1 DEF PlainAnswer, Finish, Becomes
  <2> DEFINE text == IF allowed /\ call.text THEN "model" ELSE "template"
             reached == allowed /\ call.sent
             reply == Replied("plain", text, events)
  <2>1. chat.pc = "plain" /\ events \subseteq Citable
    BY <1>1 DEF PlainAnswer, Retrieved
  <2>2. reached \in BOOLEAN /\ text \in {"model", "template"} /\ (text = "model" => reached)
    BY CallType, GateType
  <2>3. reply \in Replies /\ reply.path = "plain" /\ reply.text = text /\ (reply.degraded <=> text # "model")
    BY <2>1, <2>2, RepliedType
  <2>4. chat' = [chat EXCEPT !.reached = reached, !.pc = "done", !.reply = reply]
    BY <2>0 DEF Chats
  <2> HIDE DEF text, reached, reply
  <2>5. /\ chat' \in Chats /\ chat'.pc = "done" /\ chat'.reply = reply /\ chat'.reached = reached
        /\ SameAgent(chat', chat) /\ SameReasoner(chat', chat)
    BY <2>2, <2>3, <2>4 DEF Chats
  <2> QED BY <2>1, <2>2, <2>3, <2>5 DEF Chats, ChatInv, AgentCost, ReasonerCost, Sourced, AnswersAreHonest
<1>2. CASE RetrievalFails
  <2> DEFINE reply == [NoReply EXCEPT !.path = "unavailable"]
  <2>1. chat' = [chat EXCEPT !.pc = "done", !.reply = reply] /\ chat.pc \in {"deep", "plain"}
    BY <1>2 DEF RetrievalFails, Finish, Becomes
  <2>2. reply \in Replies /\ reply.path = "unavailable"
    BY DEF NoReply, Replies
  <2> HIDE DEF reply
  <2> QED BY <2>1, <2>2 DEF Chats, ChatInv, AgentCost, ReasonerCost, Sourced, AnswersAreHonest
<1>3. CASE Reply
  <2>1. chat' = NoChat
    BY <1>3 DEF Reply, Becomes
  <2> QED BY <2>1, NoChatType DEF NoChat, ChatInv, AgentCost, ReasonerCost, Sourced, AnswersAreHonest
<1> QED BY <1>1, <1>2, <1>3, AgentKeeps, ReasonerKeeps DEF AnswerStep

LEMMA AskKeeps ==
    ASSUME OperatorInv, NEW path \in {"agent", "deep", "plain"}, AskQuestion(path)
    PROVE  OperatorInv'
<1>1. chat' = [NoChat EXCEPT !.path = path, !.pc = path]
  BY DEF AskQuestion
<1>2. chat' \in Chats
  BY <1>1, NoChatType DEF Chats
<1>3. ChatInv'
  BY <1>1, LimitsAreNumbers DEF NoChat, ChatInv, AgentCost, ReasonerCost, Sourced, AnswersAreHonest
<1>4. questions' \in Nat
  BY DEF AskQuestion, OperatorInv, OperatorTypeOK
<1>5. UNCHANGED <<stored, cache, load, writes>>
  BY DEF AskQuestion, settingVars
<1> QED BY <1>2, <1>3, <1>4, <1>5 DEF OperatorInv, OperatorTypeOK

LEMMA SettingsKeep ==
    ASSUME OperatorInv, SettingsStep
    PROVE  OperatorInv'
<1>1. chat' = chat /\ questions' = questions
  BY DEF SettingsStep, WriteSetting, FetchSettings, FillCache, LoadFails
<1>2. ChatInv'
  BY <1>1 DEF OperatorInv, ChatInv, AgentCost, ReasonerCost, Sourced, AnswersAreHonest
<1>3. OperatorTypeOK'
  <2>1. ASSUME NEW value \in Providers \cup {"unset"}, WriteSetting(value) PROVE OperatorTypeOK'
    BY <1>1, <2>1 DEF WriteSetting, OperatorInv, OperatorTypeOK
  <2>2. ASSUME NEW p \in Processes, FetchSettings(p) PROVE OperatorTypeOK'
    BY <1>1, <2>2 DEF FetchSettings, OperatorInv, OperatorTypeOK
  <2>3. ASSUME NEW p \in Processes, FillCache(p) PROVE OperatorTypeOK'
    BY <1>1, <2>3 DEF FillCache, Refilled, NoLoad, OperatorInv, OperatorTypeOK
  <2>4. ASSUME NEW p \in Processes, LoadFails(p) PROVE OperatorTypeOK'
    BY <1>1, <2>4 DEF LoadFails, NoLoad, OperatorInv, OperatorTypeOK
  <2> QED BY <2>1, <2>2, <2>3, <2>4 DEF SettingsStep
<1> QED BY <1>2, <1>3 DEF OperatorInv

LEMMA AnswerTouchesChat ==
    ASSUME AnswerStep
    PROVE  UNCHANGED <<stored, cache, load, writes, questions>>
<1>1. ASSUME NEW c, Becomes(c) PROVE UNCHANGED <<stored, cache, load, writes, questions>>
  BY <1>1 DEF Becomes, settingVars
<1>2. CASE AgentStep
  BY <1>1, <1>2 DEF AgentStep, AgentBegins, AgentTurn, AgentCall, RunTool, Synthesis, FallBack, Finish
<1>3. CASE ReasonerStep
  BY <1>1, <1>3 DEF ReasonerStep, Observe, Orients, Decides, Acts, Finish
<1>4. CASE PlainAnswer \/ RetrievalFails \/ Reply
  BY <1>1, <1>4 DEF PlainAnswer, RetrievalFails, Reply, Finish
<1> QED BY <1>2, <1>3, <1>4 DEF AnswerStep

LEMMA OperatorInvNext ==
    ASSUME OperatorInv, [OperatorNext]_operatorVars
    PROVE  OperatorInv'
<1>1. CASE AnswerStep
  <2>1. chat' \in Chats /\ ChatInv'
    BY <1>1, AnswerKeeps DEF OperatorInv, OperatorTypeOK
  <2> QED BY <1>1, <2>1, AnswerTouchesChat DEF OperatorInv, OperatorTypeOK
<1>2. CASE UNCHANGED operatorVars
  <2>1. UNCHANGED <<stored, cache, load, writes, chat, questions>>
    BY <1>2 DEF operatorVars
  <2>2. ChatInv'
    BY <2>1 DEF OperatorInv, ChatInv, AgentCost, ReasonerCost, Sourced, AnswersAreHonest
  <2> QED BY <2>1, <2>2 DEF OperatorInv, OperatorTypeOK
<1> QED BY <1>1, <1>2, AskKeeps, SettingsKeep DEF OperatorNext

\* api/routes/chat.py, services/runtime_config.py: types.
THEOREM OperatorTypeCorrect == OperatorSpec => []OperatorTypeOK
<1>1. OperatorInv => OperatorTypeOK
  BY DEF OperatorInv
<1> QED BY <1>1, OperatorInvInit, OperatorInvNext, PTL DEF OperatorSpec

\* operator_loop.py:122-165, reasoner.py:32-197: what one question costs, for any
\* MAX_LLM_CALLS, MAX_THREADS and budget.
THEOREM QuestionsAreBounded == OperatorSpec => []CallsBounded
<1>1. OperatorInv => CallsBounded
  BY LimitsAreNumbers DEF OperatorInv, OperatorTypeOK, Chats, ChatInv, AgentCost, ReasonerCost, CallsBounded
<1> QED BY <1>1, OperatorInvInit, OperatorInvNext, PTL DEF OperatorSpec

\* chat.py:32-45: an answer that claims the model or the tools had them.
THEOREM AnswersSayWhatTheyAre == OperatorSpec => []AnswersAreHonest
<1>1. OperatorInv => AnswersAreHonest
  BY DEF OperatorInv, ChatInv
<1> QED BY <1>1, OperatorInvInit, OperatorInvNext, PTL DEF OperatorSpec
-----------------------------------------------------------------------------
(* The health of the news sources.                                         *)

SourceRows == [count : 0 .. QuarantineAfter, read : Ages(RetryAfter), gave : Ages(StaleAfter + 1)]
HarvestRuns == [on : BOOLEAN, todo : SUBSET Feeds, loaded : [Feeds -> 0 .. QuarantineAfter] \cup {<<>>},
                row : [Feeds -> SourceRows] \cup {<<>>}, touched : SUBSET Feeds,
                fresh : SUBSET Feeds, unread : SUBSET Feeds, stumbled : SUBSET Feeds]

HarvestTypes ==
    /\ source \in [Feeds -> SourceRows] /\ switchedOn \subseteq Feeds /\ dead \subseteq Feeds
    /\ harvest \in [Runs -> HarvestRuns]
    /\ failures \in [Feeds -> 0 .. QuarantineAfter] /\ given \in [Feeds -> Ages(StaleAfter + 1)]
    /\ overlapped \in BOOLEAN /\ lost \in Nat

\* What a run knows of the rows it has changed.
RunKnows(r) ==
    /\ IF harvest[r].on
       THEN harvest[r].row \in [Feeds -> SourceRows] /\ harvest[r].loaded \in [Feeds -> 0 .. QuarantineAfter]
       ELSE harvest[r].todo = {} /\ harvest[r].touched = {}
    /\ harvest[r].fresh \cup harvest[r].unread \subseteq harvest[r].touched
    /\ harvest[r].stumbled \subseteq harvest[r].unread
    /\ harvest[r].todo \cap harvest[r].touched = {}
    /\ \A f \in Counted(harvest[r]) : harvest[r].row[f].count > 0
    /\ \A f \in harvest[r].fresh : harvest[r].row[f].gave # Never

\* What the stored row owes to the last reading and to the last delivery.
RowsAreBacked ==
    \A f \in Feeds :
        /\ f \notin Pages /\ source[f].count = 0 => failures[f] = 0
        /\ source[f].gave # Never => given[f] # Never /\ given[f] <= source[f].gave

\* Between overlaps the one run under way works on the counts that are stored.
RunIsCurrent(r) ==
    harvest[r].on =>
        \A f \in Feeds :
            /\ harvest[r].loaded[f] = source[f].count
            /\ harvest[r].row[f].count =
                 IF f \notin harvest[r].touched THEN source[f].count
                 ELSE IF f \in Counted(harvest[r]) THEN Atop(source[f].count) ELSE 0

CountsAreEarned ==
    /\ \A q, r \in Runs : harvest[q].on /\ harvest[r].on => q = r
    /\ \A r \in Runs : RunIsCurrent(r)
    /\ \A f \in Feeds : source[f].count <= failures[f]

HarvestInv ==
    /\ HarvestTypes /\ RowsAreBacked
    /\ \A r \in Runs : RunKnows(r)
    /\ ~overlapped => CountsAreEarned

LEMMA AtRestFields ==
    /\ AtRest \in HarvestRuns /\ ~AtRest.on /\ AtRest.todo = {} /\ AtRest.touched = {}
    /\ AtRest.fresh = {} /\ AtRest.unread = {} /\ AtRest.stumbled = {} /\ Counted(AtRest) = {}
  BY DEF AtRest, HarvestRuns, Counted

LEMMA HarvestInit0 == ASSUME HarvestInit PROVE HarvestInv
<1>1. \A f \in Feeds : source[f] \in SourceRows /\ source[f].count = 0 /\ source[f].gave = Never
  BY HarvestAssumption DEF HarvestInit, SourceRows, Ages
<1>2. HarvestTypes
  <2>1. source \in [Feeds -> SourceRows]
    BY <1>1 DEF HarvestInit
  <2>2. harvest \in [Runs -> HarvestRuns]
    BY AtRestFields DEF HarvestInit
  <2>3. Never \in Ages(StaleAfter + 1) /\ 0 \in 0 .. QuarantineAfter /\ 0 \in Nat
    BY HarvestAssumption DEF Ages
  <2>4. failures \in [Feeds -> 0 .. QuarantineAfter] /\ given \in [Feeds -> Ages(StaleAfter + 1)]
    BY <2>3 DEF HarvestInit
  <2> QED BY <2>1, <2>2, <2>3, <2>4 DEF HarvestInit, HarvestTypes
<1>3. RowsAreBacked
  BY <1>1 DEF HarvestInit, RowsAreBacked
<1>4. \A r \in Runs : harvest[r] = AtRest
  BY DEF HarvestInit
<1>5. \A r \in Runs : RunKnows(r) /\ RunIsCurrent(r)
  BY <1>4, AtRestFields DEF RunKnows, RunIsCurrent
<1>6. CountsAreEarned
  BY <1>1, <1>4, <1>5, AtRestFields DEF HarvestInit, CountsAreEarned
<1> QED BY <1>2, <1>3, <1>5, <1>6 DEF HarvestInv

LEMMA AtopType ==
    ASSUME NEW n \in 0 .. QuarantineAfter
    PROVE  Atop(n) \in 0 .. QuarantineAfter /\ Atop(n) > 0 /\ \A m \in 0 .. n : Atop(m) <= Atop(n)
  BY HarvestAssumption DEF Atop

LEMMA AfterFailureFields ==
    ASSUME NEW row \in SourceRows
    PROVE  /\ AfterFailure(row) \in SourceRows
           /\ AfterFailure(row).count = Atop(row.count) /\ AfterFailure(row).gave = row.gave
<1> DEFINE n == Atop(row.count)
<1>1. n \in 0 .. QuarantineAfter /\ 0 \in Ages(RetryAfter)
  BY AtopType, HarvestAssumption DEF SourceRows, Ages
<1> HIDE DEF n
<1>2. AfterFailure(row) = [row EXCEPT !.count = n, !.read = 0]
  BY Zenon DEF AfterFailure, n
<1>3. [row EXCEPT !.count = n, !.read = 0] \in SourceRows
  BY <1>1 DEF SourceRows
<1>4. [row EXCEPT !.count = n, !.read = 0].count = n /\ [row EXCEPT !.count = n, !.read = 0].gave = row.gave
  BY DEF SourceRows
<1> QED BY <1>2, <1>3, <1>4 DEF n

LEMMA OlderType ==
    ASSUME NEW n \in Nat, NEW age \in Ages(n)
    PROVE  /\ Older(age, n) \in Ages(n) /\ (Older(age, n) = Never <=> age = Never)
           /\ \A b \in Ages(n) : b # Never /\ age # Never /\ b <= age => Older(b, n) <= Older(age, n)
  BY HarvestAssumption DEF Older, Ages

\* A step that changes no row and no history keeps what the rows owe.
LEMMA BeginKeeps ==
    ASSUME HarvestInv, NEW r \in Runs, Begin(r)
    PROVE  HarvestInv'
<1> DEFINE h == [AtRest EXCEPT !.on = TRUE, !.todo = switchedOn, !.row = source,
                               !.loaded = [f \in Feeds |-> source[f].count]]
<1>1. /\ ~harvest[r].on /\ harvest' = [harvest EXCEPT ![r] = h]
      /\ overlapped' = (overlapped \/ \E q \in Runs : harvest[q].on)
      /\ UNCHANGED <<source, switchedOn, dead, failures, given, lost>>
  BY DEF Begin
<1>2. HarvestTypes /\ RowsAreBacked
  BY DEF HarvestInv
<1>3. /\ h.on /\ h.todo = switchedOn /\ h.row = source /\ h.touched = {} /\ h.fresh = {} /\ h.unread = {}
      /\ h.stumbled = {} /\ Counted(h) = {} /\ h.loaded = [f \in Feeds |-> source[f].count]
  BY DEF AtRest, Counted
<1>4. h.loaded \in [Feeds -> 0 .. QuarantineAfter]
  <2>1. \A f \in Feeds : source[f].count \in 0 .. QuarantineAfter
    BY <1>2 DEF HarvestTypes, SourceRows
  <2>2. [f \in Feeds |-> source[f].count] \in [Feeds -> 0 .. QuarantineAfter]
    BY <2>1
  <2> QED BY <1>3, <2>2
<1>5. h \in HarvestRuns
  BY <1>2, <1>3, <1>4 DEF HarvestTypes, HarvestRuns, AtRest
<1>6. harvest'[r] = h /\ \A q \in Runs \ {r} : harvest'[q] = harvest[q]
  BY <1>1, <1>2 DEF HarvestTypes
<1> HIDE DEF h
<1>7. HarvestTypes'
  BY <1>1, <1>2, <1>5 DEF HarvestTypes
<1>8. RowsAreBacked'
  BY <1>1, <1>2 DEF RowsAreBacked
<1>9. ASSUME NEW q \in Runs PROVE RunKnows(q)'
  <2>1. CASE q = r
    BY <1>2, <1>3, <1>4, <1>6, <2>1 DEF RunKnows, HarvestTypes
  <2>2. CASE q # r
    BY <1>6, <2>2 DEF HarvestInv, RunKnows
  <2> QED BY <2>1, <2>2
<1>10. ASSUME ~overlapped' PROVE CountsAreEarned'
  <2>1. CountsAreEarned /\ \A q \in Runs : ~harvest[q].on
    BY <1>1, <1>10 DEF HarvestInv
  <2>2. ASSUME NEW q \in Runs PROVE RunIsCurrent(q)'
    <3>1. CASE q = r
      BY <1>1, <1>2, <1>3, <1>6, <3>1 DEF RunIsCurrent, HarvestTypes
    <3>2. CASE q # r
      BY <1>6, <2>1, <3>2 DEF RunIsCurrent
    <3> QED BY <3>1, <3>2
  <2> QED BY <1>1, <1>6, <2>1, <2>2 DEF CountsAreEarned
<1> QED BY <1>7, <1>8, <1>9, <1>10 DEF HarvestInv

LEMMA SkipKeeps ==
    ASSUME HarvestInv, NEW r \in Runs, NEW f \in Feeds, Skip(r, f)
    PROVE  HarvestInv'
<1>1. /\ harvest' = [harvest EXCEPT ![r].todo = @ \ {f}]
      /\ UNCHANGED <<source, switchedOn, dead, failures, given, overlapped, lost>>
  BY DEF Skip
<1>2. HarvestTypes /\ RowsAreBacked
  BY DEF HarvestInv
<1>3. ASSUME NEW q \in Runs
      PROVE  /\ harvest'[q].on = harvest[q].on /\ harvest'[q].row = harvest[q].row
             /\ harvest'[q].loaded = harvest[q].loaded /\ harvest'[q].touched = harvest[q].touched
             /\ harvest'[q].fresh = harvest[q].fresh /\ harvest'[q].unread = harvest[q].unread
             /\ harvest'[q].stumbled = harvest[q].stumbled
             /\ Counted(harvest'[q]) = Counted(harvest[q])
             /\ harvest'[q].todo \subseteq harvest[q].todo
  BY <1>1, <1>2 DEF HarvestTypes, HarvestRuns, Counted
<1>4. HarvestTypes'
  <2>1. harvest[r] \in HarvestRuns
    BY <1>2 DEF HarvestTypes
  <2>2. [harvest[r] EXCEPT !.todo = @ \ {f}] \in HarvestRuns
    BY <2>1 DEF HarvestRuns
  <2>3. harvest' = [harvest EXCEPT ![r] = [harvest[r] EXCEPT !.todo = @ \ {f}]]
    BY <1>1
  <2>4. harvest' \in [Runs -> HarvestRuns]
    BY <1>2, <2>2, <2>3 DEF HarvestTypes
  <2> QED BY <1>1, <1>2, <2>4 DEF HarvestTypes
<1>5. RowsAreBacked'
  BY <1>1, <1>2 DEF RowsAreBacked
<1>6. ASSUME NEW q \in Runs PROVE RunKnows(q)'
  BY <1>3 DEF HarvestInv, RunKnows
<1>7. ASSUME ~overlapped' PROVE CountsAreEarned'
  <2>1. CountsAreEarned
    BY <1>1, <1>7 DEF HarvestInv
  <2>2. ASSUME NEW q \in Runs PROVE RunIsCurrent(q)'
    <3>1. /\ harvest'[q].on = harvest[q].on /\ harvest'[q].row = harvest[q].row
          /\ harvest'[q].loaded = harvest[q].loaded /\ harvest'[q].touched = harvest[q].touched
          /\ Counted(harvest'[q]) = Counted(harvest[q]) /\ source' = source
      BY <1>1, <1>3
    <3>2. RunIsCurrent(q)
      BY <2>1 DEF CountsAreEarned
    <3> QED BY <3>1, <3>2 DEF RunIsCurrent, Atop
  <2> QED BY <1>1, <1>3, <2>1, <2>2 DEF CountsAreEarned
<1> QED BY <1>4, <1>5, <1>6, <1>7 DEF HarvestInv

LEMMA VisitKeeps ==
    ASSUME HarvestInv, NEW r \in Runs, NEW f \in Feeds, Visit(r, f)
    PROVE  HarvestInv'
<1>1. PICK isNew \in BOOLEAN :
        /\ isNew => f \notin dead
        /\ harvest' = [harvest EXCEPT
               ![r].todo = @ \ {f},
               ![r].row[f] = IF SeenDead(f) THEN AfterFailure(@) ELSE AfterReading(@, isNew),
               ![r].touched = @ \cup {f},
               ![r].fresh = IF isNew THEN @ \cup {f} ELSE @,
               ![r].unread = IF f \in dead THEN @ \cup {f} ELSE @]
  BY DEF Visit
<1>2. f \in harvest[r].todo /\ UNCHANGED <<source, switchedOn, dead, failures, given, overlapped, lost>>
  BY DEF Visit
<1>3. HarvestTypes /\ RowsAreBacked /\ RunKnows(r) /\ harvest[r] \in HarvestRuns
  BY DEF HarvestInv, HarvestTypes
<1>4. /\ harvest[r].on /\ harvest[r].row \in [Feeds -> SourceRows]
      /\ harvest[r].loaded \in [Feeds -> 0 .. QuarantineAfter] /\ f \notin harvest[r].touched
  BY <1>2, <1>3 DEF RunKnows
<1> DEFINE row == harvest[r].row[f]
           after == IF SeenDead(f) THEN AfterFailure(row) ELSE AfterReading(row, isNew)
           rows == [harvest[r].row EXCEPT ![f] = after]
<1>5. /\ after \in SourceRows
      /\ after.count = IF f \in dead \ Pages THEN Atop(row.count) ELSE 0
      /\ f \in dead \ Pages => after.count > 0
      /\ isNew => after.gave # Never
  <2>1. row \in SourceRows /\ 0 \in Nat
    BY <1>4
  <2>2. Atop(row.count) \in 0 .. QuarantineAfter /\ Atop(row.count) > 0
    BY <2>1, AtopType DEF SourceRows
  <2>3. /\ AfterFailure(row) \in SourceRows
        /\ AfterFailure(row).count = Atop(row.count) /\ AfterFailure(row).gave = row.gave
    BY <2>1, AfterFailureFields
  <2>4. 0 \in Ages(RetryAfter) /\ 0 \in Ages(StaleAfter + 1) /\ 0 # Never /\ 0 \in 0 .. QuarantineAfter
    BY HarvestAssumption DEF Ages
  <2> QED BY <1>1, <2>1, <2>2, <2>3, <2>4 DEF SeenDead, AfterReading, SourceRows
<1>6. /\ harvest'[r].on /\ harvest'[r].row = rows /\ harvest'[r].loaded = harvest[r].loaded
      /\ harvest'[r].todo = harvest[r].todo \ {f} /\ harvest'[r].touched = harvest[r].touched \cup {f}
      /\ harvest'[r].fresh = IF isNew THEN harvest[r].fresh \cup {f} ELSE harvest[r].fresh
      /\ harvest'[r].unread = IF f \in dead THEN harvest[r].unread \cup {f} ELSE harvest[r].unread
      /\ harvest'[r].stumbled = harvest[r].stumbled
  BY <1>1, <1>3, <1>4 DEF HarvestTypes, HarvestRuns
<1>7. \A q \in Runs \ {r} : harvest'[q] = harvest[q]
  BY <1>1, <1>3 DEF HarvestTypes
<1>13. /\ f \notin harvest[r].unread /\ f \notin harvest[r].stumbled
       /\ \A g \in Feeds : g \in Counted(harvest'[r]) <=>
              IF g = f THEN f \in dead \ Pages ELSE g \in Counted(harvest[r])
  BY <1>3, <1>4, <1>6 DEF RunKnows, Counted
<1> HIDE DEF after
<1>8. rows \in [Feeds -> SourceRows] /\ rows[f] = after /\ \A g \in Feeds \ {f} : rows[g] = harvest[r].row[g]
  BY <1>4, <1>5
<1> HIDE DEF rows
<1>9. HarvestTypes'
  <2> DEFINE h == [harvest[r] EXCEPT !.todo = @ \ {f}, !.row = rows, !.touched = @ \cup {f},
                                     !.fresh = IF isNew THEN @ \cup {f} ELSE @,
                                     !.unread = IF f \in dead THEN @ \cup {f} ELSE @]
  <2>1. h \in HarvestRuns
    BY <1>3, <1>4, <1>8 DEF HarvestRuns
  <2>2. harvest' = [harvest EXCEPT ![r] = h]
    BY <1>1, <1>3, ZenonT(60) DEF HarvestTypes, rows, after
  <2>3. harvest' \in [Runs -> HarvestRuns]
    BY <1>3, <2>1, <2>2 DEF HarvestTypes
  <2> QED BY <1>2, <1>3, <2>3 DEF HarvestTypes
<1>10. RowsAreBacked'
  BY <1>2, <1>3 DEF RowsAreBacked
<1>11. ASSUME NEW q \in Runs PROVE RunKnows(q)'
  <2>1. CASE q = r
    <3>1. ASSUME NEW g \in Counted(harvest'[r]) PROVE harvest'[r].row[g].count > 0
      <4>0. g \in Feeds
        BY <1>3, <1>6, <1>2, <3>1 DEF HarvestRuns, Counted
      <4>1. CASE g = f
        BY <1>5, <1>6, <1>8, <1>13, <3>1, <4>0, <4>1
      <4>2. CASE g # f
        BY <1>3, <1>6, <1>8, <1>13, <3>1, <4>0, <4>2 DEF RunKnows
      <4> QED BY <4>1, <4>2
    <3>2. \A g \in harvest'[r].fresh : harvest'[r].row[g].gave # Never
      BY <1>3, <1>4, <1>5, <1>6, <1>8 DEF RunKnows, HarvestRuns
    <3>3. /\ harvest'[r].fresh \cup harvest'[r].unread \subseteq harvest'[r].touched
          /\ harvest'[r].stumbled \subseteq harvest'[r].unread
          /\ harvest'[r].todo \cap harvest'[r].touched = {}
      BY <1>3, <1>6 DEF RunKnows
    <3> QED BY <1>4, <1>6, <1>8, <2>1, <3>1, <3>2, <3>3 DEF RunKnows
  <2>2. CASE q # r
    BY <1>7, <2>2 DEF HarvestInv, RunKnows
  <2> QED BY <2>1, <2>2
<1>12. ASSUME ~overlapped' PROVE CountsAreEarned'
  <2>1. CountsAreEarned
    BY <1>2, <1>12 DEF HarvestInv
  <2>2. row.count = source[f].count
    BY <1>4, <2>1 DEF CountsAreEarned, RunIsCurrent
  <2>3. ASSUME NEW q \in Runs PROVE RunIsCurrent(q)'
    <3>1. CASE q = r
      <4>1. ASSUME NEW g \in Feeds
            PROVE  /\ harvest'[r].loaded[g] = source'[g].count
                   /\ harvest'[r].row[g].count =
                        IF g \notin harvest'[r].touched THEN source'[g].count
                        ELSE IF g \in Counted(harvest'[r]) THEN Atop(source'[g].count) ELSE 0
        <5>1. CASE g = f
          BY <1>2, <1>4, <1>5, <1>6, <1>8, <1>13, <2>1, <2>2, <5>1 DEF CountsAreEarned, RunIsCurrent
        <5>2. CASE g # f
          BY <1>2, <1>4, <1>6, <1>8, <1>13, <2>1, <5>2 DEF CountsAreEarned, RunIsCurrent
        <5> QED BY <5>1, <5>2
      <4> QED BY <3>1, <4>1 DEF RunIsCurrent, Atop, Counted
    <3>2. CASE q # r
      BY <1>2, <1>7, <2>1, <3>2 DEF CountsAreEarned, RunIsCurrent, Atop, Counted
    <3> QED BY <3>1, <3>2
  <2> QED BY <1>2, <1>4, <1>6, <1>7, <2>1, <2>3 DEF CountsAreEarned
<1> QED BY <1>9, <1>10, <1>11, <1>12 DEF HarvestInv

LEMMA StumbleKeeps ==
    ASSUME HarvestInv, NEW r \in Runs, NEW f \in Feeds, Stumble(r, f)
    PROVE  HarvestInv'
<1>1. /\ f \in harvest[r].todo /\ UNCHANGED <<source, switchedOn, dead, failures, given, overlapped>>
      /\ harvest' = [harvest EXCEPT
             ![r].todo = @ \ {f},
             ![r].row[f].count = Atop(@),
             ![r].touched = @ \cup {f},
             ![r].unread = @ \cup {f},
             ![r].stumbled = @ \cup {f}]
  BY DEF Stumble
<1>2. HarvestTypes /\ RowsAreBacked /\ RunKnows(r) /\ harvest[r] \in HarvestRuns
  BY DEF HarvestInv, HarvestTypes
<1>3. /\ harvest[r].on /\ harvest[r].row \in [Feeds -> SourceRows]
      /\ harvest[r].loaded \in [Feeds -> 0 .. QuarantineAfter] /\ f \notin harvest[r].touched
  BY <1>1, <1>2 DEF RunKnows
<1> DEFINE row == harvest[r].row[f]
           n == Atop(row.count)
           after == [row EXCEPT !.count = n]
           rows == [harvest[r].row EXCEPT ![f] = after]
<1>4. row \in SourceRows /\ n \in 0 .. QuarantineAfter /\ n > 0
  BY <1>3, AtopType DEF SourceRows
<1> HIDE DEF row, n
<1>5. after \in SourceRows /\ after.count = n /\ after.gave = row.gave
  BY <1>4 DEF SourceRows
<1> HIDE DEF after
<1>6. rows \in [Feeds -> SourceRows] /\ rows[f] = after /\ \A g \in Feeds \ {f} : rows[g] = harvest[r].row[g]
  BY <1>3, <1>5
<1> HIDE DEF rows
<1> DEFINE h == [harvest[r] EXCEPT !.todo = @ \ {f}, !.row = rows, !.touched = @ \cup {f},
                                   !.unread = @ \cup {f}, !.stumbled = @ \cup {f}]
<1>7. harvest' = [harvest EXCEPT ![r] = h]
  BY <1>1, <1>2, ZenonT(60) DEF HarvestTypes, rows, after, n, row
<1>8. /\ h \in HarvestRuns /\ h.on /\ h.row = rows /\ h.loaded = harvest[r].loaded
      /\ h.todo = harvest[r].todo \ {f} /\ h.touched = harvest[r].touched \cup {f}
      /\ h.fresh = harvest[r].fresh /\ h.unread = harvest[r].unread \cup {f}
      /\ h.stumbled = harvest[r].stumbled \cup {f}
  BY <1>2, <1>3, <1>6 DEF HarvestRuns
<1> HIDE DEF h
<1>9. Counted(h) = Counted(harvest[r]) \cup {f} /\ Counted(harvest[r]) \subseteq Feeds
  BY <1>2, <1>8 DEF Counted, HarvestRuns
<1>10. harvest'[r] = h /\ \A q \in Runs \ {r} : harvest'[q] = harvest[q]
  BY <1>2, <1>7 DEF HarvestTypes
<1>11. HarvestTypes'
  <2>1. harvest' \in [Runs -> HarvestRuns]
    BY <1>2, <1>7, <1>8 DEF HarvestTypes
  <2>2. lost' \in Nat
    BY <1>2 DEF Stumble, HarvestTypes
  <2> QED BY <1>1, <1>2, <2>1, <2>2 DEF HarvestTypes
<1>12. RowsAreBacked'
  BY <1>1, <1>2 DEF RowsAreBacked
<1>13. ASSUME NEW q \in Runs PROVE RunKnows(q)'
  <2>1. CASE q = r
    <3>1. ASSUME NEW g \in Counted(h) PROVE h.row[g].count > 0
      BY <1>2, <1>4, <1>5, <1>6, <1>8, <1>9, <3>1 DEF RunKnows
    <3>2. ASSUME NEW g \in h.fresh PROVE h.row[g].gave # Never
      BY <1>2, <1>3, <1>6, <1>8, <3>2 DEF RunKnows, HarvestRuns
    <3>3. h.fresh \cup h.unread \subseteq h.touched /\ h.stumbled \subseteq h.unread /\ h.todo \cap h.touched = {}
      BY <1>2, <1>8 DEF RunKnows
    <3> QED BY <1>3, <1>6, <1>8, <1>10, <2>1, <3>1, <3>2, <3>3 DEF RunKnows
  <2>2. CASE q # r
    BY <1>10, <2>2 DEF HarvestInv, RunKnows
  <2> QED BY <2>1, <2>2
<1>14. ASSUME ~overlapped' PROVE CountsAreEarned'
  <2>1. CountsAreEarned
    BY <1>1, <1>14 DEF HarvestInv
  <2>2. row.count = source[f].count
    BY <1>3, <2>1 DEF CountsAreEarned, RunIsCurrent, row
  <2>3. ASSUME NEW q \in Runs PROVE RunIsCurrent(q)'
    <3>1. CASE q = r
      <4>1. ASSUME NEW g \in Feeds
            PROVE  /\ h.loaded[g] = source[g].count
                   /\ h.row[g].count = IF g \notin h.touched THEN source[g].count
                                       ELSE IF g \in Counted(h) THEN Atop(source[g].count) ELSE 0
        <5>1. CASE g = f
          BY <1>3, <1>5, <1>6, <1>8, <1>9, <2>1, <2>2, <5>1 DEF CountsAreEarned, RunIsCurrent, n
        <5>2. CASE g # f
          BY <1>3, <1>6, <1>8, <1>9, <2>1, <5>2 DEF CountsAreEarned, RunIsCurrent
        <5> QED BY <5>1, <5>2
      <4> QED BY <1>1, <1>10, <3>1, <4>1 DEF RunIsCurrent, Atop
    <3>2. CASE q # r
      <4>1. harvest'[q] = harvest[q] /\ source' = source /\ RunIsCurrent(q)
        BY <1>1, <1>10, <2>1, <3>2 DEF CountsAreEarned
      <4> QED BY <4>1 DEF RunIsCurrent, Atop, Counted
    <3> QED BY <3>1, <3>2
  <2> QED BY <1>1, <1>3, <1>8, <1>10, <2>1, <2>3 DEF CountsAreEarned
<1> QED BY <1>11, <1>12, <1>13, <1>14 DEF HarvestInv

LEMMA CommitKeeps ==
    ASSUME HarvestInv, NEW r \in Runs, CommitFeeds(r)
    PROVE  HarvestInv'
<1> DEFINE h == harvest[r]
<1>1. /\ h.on
      /\ source' = [f \in Feeds |-> IF f \in h.touched THEN Written(f, h) ELSE source[f]]
      /\ failures' = [f \in Feeds |-> IF f \in h.unread THEN Atop(failures[f])
                                      ELSE IF f \in h.touched THEN 0 ELSE failures[f]]
      /\ given' = [f \in Feeds |-> IF f \in h.fresh /\ (given[f] = Never \/ given[f] > h.row[f].gave)
                                   THEN h.row[f].gave ELSE given[f]]
      /\ harvest' = [harvest EXCEPT ![r] = AtRest]
      /\ UNCHANGED <<switchedOn, dead, overlapped, lost>>
  BY DEF CommitFeeds
<1>2. HarvestTypes /\ RowsAreBacked /\ RunKnows(r)
  BY DEF HarvestInv
<1>3. h.row \in [Feeds -> SourceRows] /\ h.loaded \in [Feeds -> 0 .. QuarantineAfter]
      /\ h.fresh \cup h.unread \subseteq h.touched /\ Counted(h) \subseteq h.unread
      /\ h.unread \ Pages \subseteq Counted(h)
  BY <1>1, <1>2 DEF RunKnows, Counted
<1> HIDE DEF h
<1>4. ASSUME NEW f \in Feeds
      PROVE  /\ source[f] \in SourceRows /\ h.row[f] \in SourceRows
             /\ failures[f] \in 0 .. QuarantineAfter /\ given[f] \in Ages(StaleAfter + 1)
  BY <1>2, <1>3 DEF HarvestTypes
<1>10. ASSUME NEW f \in Feeds
      PROVE  /\ source'[f] = IF f \in h.touched THEN Written(f, h) ELSE source[f]
             /\ Written(f, h) = [count |-> Written(f, h).count, read |-> Written(f, h).read,
                                 gave |-> Written(f, h).gave]
             /\ Written(f, h).read \in {source[f].read, h.row[f].read}
             /\ Written(f, h).count = IF h.row[f].count # h.loaded[f] \/ f \in Counted(h)
                                      THEN h.row[f].count ELSE source[f].count
             /\ Written(f, h).gave = IF f \in h.fresh THEN h.row[f].gave ELSE source[f].gave
  BY <1>1 DEF Written
<1>11. \A f \in Feeds : Atop(failures[f]) \in 0 .. QuarantineAfter /\ Atop(failures[f]) > 0
  BY <1>4, AtopType
<1>5. harvest'[r] = AtRest /\ \A q \in Runs \ {r} : harvest'[q] = harvest[q]
  BY <1>1, <1>2 DEF HarvestTypes
<1>6. HarvestTypes'
  <2>1. ASSUME NEW f \in Feeds PROVE source'[f] \in SourceRows
    <3>1. /\ Written(f, h).count \in 0 .. QuarantineAfter /\ Written(f, h).read \in Ages(RetryAfter)
          /\ Written(f, h).gave \in Ages(StaleAfter + 1)
      BY <1>4, <1>10 DEF SourceRows
    <3>2. Written(f, h) \in SourceRows
      BY <1>10, <3>1 DEF SourceRows
    <3> QED BY <1>4, <1>10, <3>2
  <2>2. source' \in [Feeds -> SourceRows]
    BY <1>1, <2>1
  <2>3. failures' \in [Feeds -> 0 .. QuarantineAfter]
    <3>1. 0 \in 0 .. QuarantineAfter
      BY HarvestAssumption
    <3> QED BY <1>1, <1>4, <1>11, <3>1
  <2>4. given' \in [Feeds -> Ages(StaleAfter + 1)]
    BY <1>1, <1>4 DEF SourceRows
  <2>5. harvest' \in [Runs -> HarvestRuns]
    BY <1>1, <1>2, AtRestFields DEF HarvestTypes
  <2> QED BY <1>1, <1>2, <2>2, <2>3, <2>4, <2>5 DEF HarvestTypes
<1>7. ASSUME NEW f \in Feeds
      PROVE  /\ f \notin Pages /\ source'[f].count = 0 => failures'[f] = 0
             /\ source'[f].gave # Never => given'[f] # Never /\ given'[f] <= source'[f].gave
  <2>1. f \notin Pages /\ source'[f].count = 0 => failures'[f] = 0
    <3>1. CASE f \in Counted(h)
      <4>1. source'[f].count = h.row[f].count /\ h.row[f].count > 0
        BY <1>2, <1>3, <1>10, <3>1 DEF RunKnows, h
      <4>2. h.row[f].count \in Nat
        BY <1>4, HarvestAssumption DEF SourceRows
      <4> QED BY <4>1, <4>2
    <3>2. CASE f \notin h.unread /\ f \in h.touched
      BY <1>1, <3>2
    <3>3. CASE f \notin h.touched
      BY <1>1, <1>2, <1>3, <1>10, <3>3 DEF RowsAreBacked
    <3> QED BY <1>3, <3>1, <3>2, <3>3
  <2>2. CASE f \in h.fresh
    <3>1. h.row[f].gave \in Nat /\ h.row[f].gave # Never
      <4>1. h.row[f].gave # Never /\ h.row[f].gave \in Ages(StaleAfter + 1)
        BY <1>2, <1>4, <2>2 DEF RunKnows, SourceRows, h
      <4> QED BY <4>1, HarvestAssumption DEF Ages
    <3>2. given[f] = Never \/ given[f] \in Nat
      BY <1>4, HarvestAssumption DEF Ages
    <3>3. given'[f] = IF given[f] = Never \/ given[f] > h.row[f].gave THEN h.row[f].gave ELSE given[f]
      BY <1>1, <2>2
    <3>4. source'[f].gave = h.row[f].gave
      BY <1>3, <1>10, <2>2
    <3> QED BY <2>1, <3>1, <3>2, <3>3, <3>4
  <2>3. CASE f \notin h.fresh
    <3>1. source'[f].gave = source[f].gave /\ given'[f] = given[f]
      BY <1>1, <1>10, <2>3
    <3> QED BY <1>2, <2>1, <3>1 DEF RowsAreBacked
  <2> QED BY <2>2, <2>3
<1>8. ASSUME NEW q \in Runs PROVE RunKnows(q)'
  <2>1. CASE q = r
    BY <1>5, <2>1, AtRestFields DEF RunKnows
  <2>2. CASE q # r
    BY <1>5, <2>2 DEF HarvestInv, RunKnows
  <2> QED BY <2>1, <2>2
<1>9. ASSUME ~overlapped' PROVE CountsAreEarned'
  <2>1. CountsAreEarned
    BY <1>1, <1>9 DEF HarvestInv
  <2>2. \A q \in Runs : ~harvest'[q].on
    BY <1>1, <1>5, <2>1, AtRestFields DEF CountsAreEarned, h
  <2>3. ASSUME NEW f \in Feeds PROVE source'[f].count <= failures'[f]
    <3>1. /\ h.loaded[f] = source[f].count /\ source[f].count <= failures[f]
          /\ source[f].count \in 0 .. QuarantineAfter
          /\ h.row[f].count = IF f \notin h.touched THEN source[f].count
                              ELSE IF f \in Counted(h) THEN Atop(source[f].count) ELSE 0
      BY <1>1, <1>4, <2>1 DEF CountsAreEarned, RunIsCurrent, SourceRows, h
    <3>2. CASE f \in Counted(h)
      <4>1. source'[f].count = Atop(source[f].count) /\ failures'[f] = Atop(failures[f])
        BY <1>1, <1>3, <1>10, <3>1, <3>2
      <4>2. source[f].count \in 0 .. failures[f]
        BY <1>4, <3>1
      <4> QED BY <1>4, <4>1, <4>2, AtopType
    <3>3. CASE f \notin Counted(h) /\ f \in h.touched
      <4>1. source'[f].count = 0
        BY <1>10, <3>1, <3>3
      <4>2. failures'[f] \in 0 .. QuarantineAfter
        BY <1>6 DEF HarvestTypes
      <4> QED BY <4>1, <4>2
    <3>4. CASE f \notin h.touched
      BY <1>1, <1>3, <1>10, <3>1, <3>4
    <3> QED BY <1>3, <3>2, <3>3, <3>4
  <2> QED BY <2>2, <2>3 DEF CountsAreEarned, RunIsCurrent
<1> QED BY <1>6, <1>7, <1>8, <1>9 DEF HarvestInv, RowsAreBacked

LEMMA LoseKeeps ==
    ASSUME HarvestInv, NEW r \in Runs, Lose(r)
    PROVE  HarvestInv'
<1>1. /\ harvest' = [harvest EXCEPT ![r] = AtRest] /\ lost' = lost + 1
      /\ UNCHANGED <<source, switchedOn, dead, failures, given, overlapped>>
  BY DEF Lose
<1>2. HarvestTypes /\ RowsAreBacked
  BY DEF HarvestInv
<1>3. harvest'[r] = AtRest /\ \A q \in Runs \ {r} : harvest'[q] = harvest[q]
  BY <1>1, <1>2 DEF HarvestTypes
<1>4. HarvestTypes'
  BY <1>1, <1>2, AtRestFields DEF HarvestTypes
<1>5. RowsAreBacked'
  BY <1>1, <1>2 DEF RowsAreBacked
<1>6. ASSUME NEW q \in Runs PROVE RunKnows(q)'
  <2>1. CASE q = r
    BY <1>3, <2>1, AtRestFields DEF RunKnows
  <2>2. CASE q # r
    BY <1>3, <2>2 DEF HarvestInv, RunKnows
  <2> QED BY <2>1, <2>2
<1>7. ASSUME ~overlapped' PROVE CountsAreEarned'
  <2>1. CountsAreEarned
    BY <1>1, <1>7 DEF HarvestInv
  <2>2. ASSUME NEW q \in Runs PROVE RunIsCurrent(q)'
    <3>1. CASE q = r
      BY <1>3, <3>1, AtRestFields DEF RunIsCurrent
    <3>2. CASE q # r
      BY <1>1, <1>3, <2>1, <3>2 DEF CountsAreEarned, RunIsCurrent, Atop, Counted
    <3> QED BY <3>1, <3>2
  <2>3. \A q \in Runs : harvest'[q].on => harvest[q].on
    BY <1>3, AtRestFields
  <2>4. \A f \in Feeds : source'[f].count <= failures'[f]
    BY <1>1, <2>1 DEF CountsAreEarned
  <2> QED BY <2>1, <2>2, <2>3, <2>4 DEF CountsAreEarned
<1> QED BY <1>4, <1>5, <1>6, <1>7 DEF HarvestInv

\* What is not a run, a row or a history does not matter to the invariant.
LEMMA HarvestFrame ==
    ASSUME HarvestInv, UNCHANGED <<source, harvest, failures, given, overlapped, lost>>,
           switchedOn' \subseteq Feeds, dead' \subseteq Feeds
    PROVE  HarvestInv'
<1>1. HarvestTypes'
  BY DEF HarvestInv, HarvestTypes
<1>2. RowsAreBacked'
  BY DEF HarvestInv, RowsAreBacked
<1>3. ASSUME NEW q \in Runs PROVE RunKnows(q)'
  BY DEF HarvestInv, RunKnows
<1>4. ASSUME ~overlapped' PROVE CountsAreEarned'
  <2>1. CountsAreEarned
    BY <1>4 DEF HarvestInv
  <2>2. ASSUME NEW q \in Runs PROVE RunIsCurrent(q)'
    BY <2>1 DEF CountsAreEarned, RunIsCurrent, Atop, Counted
  <2> QED BY <2>1, <2>2 DEF CountsAreEarned
<1> QED BY <1>1, <1>2, <1>3, <1>4 DEF HarvestInv

LEMMA AgedFields ==
    ASSUME NEW row \in SourceRows
    PROVE  /\ Aged(row) \in SourceRows /\ Aged(row).count = row.count
           /\ Aged(row).gave = Older(row.gave, StaleAfter + 1)
<1> DEFINE read == Older(row.read, RetryAfter)
           gave == Older(row.gave, StaleAfter + 1)
<1>1. read \in Ages(RetryAfter) /\ gave \in Ages(StaleAfter + 1)
  BY OlderType, HarvestAssumption DEF SourceRows
<1> HIDE DEF read, gave
<1>2. Aged(row) = [row EXCEPT !.read = read, !.gave = gave]
  BY Zenon DEF Aged, read, gave
<1>3. [row EXCEPT !.read = read, !.gave = gave] \in SourceRows
  BY <1>1 DEF SourceRows
<1>4. /\ [row EXCEPT !.read = read, !.gave = gave].count = row.count
      /\ [row EXCEPT !.read = read, !.gave = gave].gave = gave
  BY DEF SourceRows
<1> QED BY <1>2, <1>3, <1>4 DEF gave

LEMMA TickKeeps ==
    ASSUME HarvestInv, Tick
    PROVE  HarvestInv'
<1> DEFINE aged(r) == [f \in Feeds |-> Aged(harvest[r].row[f])]
<1>1. /\ source' = [f \in Feeds |-> Aged(source[f])]
      /\ harvest' = [r \in Runs |-> IF harvest[r].on THEN [harvest[r] EXCEPT !.row = aged(r)] ELSE harvest[r]]
      /\ given' = [f \in Feeds |-> Older(given[f], StaleAfter + 1)]
      /\ UNCHANGED <<switchedOn, dead, failures, overlapped, lost>>
  BY DEF Tick
<1>2. HarvestTypes /\ RowsAreBacked /\ \A r \in Runs : harvest[r] \in HarvestRuns /\ RunKnows(r)
  BY DEF HarvestInv, HarvestTypes
<1>3. ASSUME NEW f \in Feeds
      PROVE  /\ source[f] \in SourceRows /\ source'[f] \in SourceRows /\ source'[f].count = source[f].count
             /\ source'[f].gave = Older(source[f].gave, StaleAfter + 1)
  BY <1>1, <1>2, AgedFields DEF HarvestTypes
<1>4. ASSUME NEW r \in Runs, harvest[r].on
      PROVE  /\ aged(r) \in [Feeds -> SourceRows]
             /\ \A f \in Feeds : /\ aged(r)[f].count = harvest[r].row[f].count
                                 /\ aged(r)[f].gave = Never <=> harvest[r].row[f].gave = Never
  <2>1. harvest[r].row \in [Feeds -> SourceRows]
    BY <1>2, <1>4 DEF RunKnows
  <2>2. ASSUME NEW f \in Feeds
        PROVE  /\ aged(r)[f] \in SourceRows /\ aged(r)[f].count = harvest[r].row[f].count
               /\ aged(r)[f].gave = Never <=> harvest[r].row[f].gave = Never
    <3>1. harvest[r].row[f] \in SourceRows /\ harvest[r].row[f].gave \in Ages(StaleAfter + 1)
      BY <2>1 DEF SourceRows
    <3>2. StaleAfter + 1 \in Nat
      BY HarvestAssumption
    <3>3. Older(harvest[r].row[f].gave, StaleAfter + 1) = Never <=> harvest[r].row[f].gave = Never
      BY <3>1, <3>2, OlderType
    <3> QED BY <3>1, <3>3, AgedFields
  <2> QED BY <2>2
<1> HIDE DEF aged
<1>5. ASSUME NEW r \in Runs
      PROVE  /\ harvest'[r] \in HarvestRuns /\ harvest'[r].on = harvest[r].on
             /\ harvest'[r].loaded = harvest[r].loaded /\ harvest'[r].touched = harvest[r].touched
             /\ harvest'[r].fresh = harvest[r].fresh /\ harvest'[r].unread = harvest[r].unread
             /\ harvest'[r].todo = harvest[r].todo /\ harvest'[r].stumbled = harvest[r].stumbled
             /\ Counted(harvest'[r]) = Counted(harvest[r]) /\ Counted(harvest[r]) \subseteq Feeds
             /\ harvest[r].on => harvest'[r].row = aged(r)
  <2>1. CASE harvest[r].on
    <3>1. harvest'[r] = [harvest[r] EXCEPT !.row = aged(r)]
      BY <1>1, <2>1
    <3>2. aged(r) \in [Feeds -> SourceRows] /\ harvest[r] \in HarvestRuns
      BY <1>2, <1>4, <2>1
    <3>3. [harvest[r] EXCEPT !.row = aged(r)] \in HarvestRuns
      BY <3>2 DEF HarvestRuns
    <3> QED BY <3>1, <3>2, <3>3 DEF HarvestRuns, Counted
  <2>2. CASE ~harvest[r].on
    BY <1>1, <1>2, <2>2 DEF HarvestRuns, Counted
  <2> QED BY <2>1, <2>2
<1>6. HarvestTypes'
  <2>1. source' \in [Feeds -> SourceRows] /\ harvest' \in [Runs -> HarvestRuns]
    BY <1>1, <1>3, <1>5
  <2>2. given' \in [Feeds -> Ages(StaleAfter + 1)]
    BY <1>1, <1>2, OlderType, HarvestAssumption DEF HarvestTypes
  <2> QED BY <1>1, <1>2, <2>1, <2>2 DEF HarvestTypes
<1>7. RowsAreBacked'
  <2>1. ASSUME NEW f \in Feeds, source'[f].gave # Never
        PROVE  given'[f] # Never /\ given'[f] <= source'[f].gave
    <3>1. StaleAfter + 1 \in Nat /\ given[f] \in Ages(StaleAfter + 1) /\ source[f].gave \in Ages(StaleAfter + 1)
      BY <1>2, <1>3, HarvestAssumption DEF HarvestTypes, SourceRows
    <3>2. source[f].gave # Never
      BY <1>3, <2>1, <3>1, OlderType
    <3>3. given[f] # Never /\ given[f] <= source[f].gave
      BY <1>2, <3>2 DEF RowsAreBacked
    <3>4. given'[f] = Older(given[f], StaleAfter + 1)
      BY <1>1
    <3> QED BY <1>3, <3>1, <3>2, <3>3, <3>4, OlderType
  <2> QED BY <1>1, <1>2, <1>3, <2>1 DEF RowsAreBacked
<1>8. ASSUME NEW r \in Runs PROVE RunKnows(r)'
  <2>1. CASE harvest[r].on
    <3>1. \A f \in harvest[r].touched : f \in Feeds
      BY <1>2 DEF HarvestRuns
    <3> QED BY <1>2, <1>4, <1>5, <2>1, <3>1 DEF RunKnows
  <2>2. CASE ~harvest[r].on
    <3>1. harvest'[r] = harvest[r] /\ RunKnows(r)
      BY <1>1, <1>2, <2>2
    <3> QED BY <3>1 DEF RunKnows, Counted
  <2> QED BY <2>1, <2>2
<1>9. ASSUME ~overlapped' PROVE CountsAreEarned'
  <2>1. CountsAreEarned
    BY <1>1, <1>9 DEF HarvestInv
  <2>2. ASSUME NEW r \in Runs PROVE RunIsCurrent(r)'
    <3>1. CASE harvest[r].on
      <4>1. ASSUME NEW f \in Feeds
            PROVE  /\ harvest'[r].loaded[f] = source'[f].count
                   /\ harvest'[r].row[f].count =
                        IF f \notin harvest'[r].touched THEN source'[f].count
                        ELSE IF f \in Counted(harvest'[r]) THEN Atop(source'[f].count) ELSE 0
        BY <1>3, <1>4, <1>5, <2>1, <3>1 DEF CountsAreEarned, RunIsCurrent
      <4> QED BY <4>1 DEF RunIsCurrent, Atop, Counted
    <3>2. CASE ~harvest[r].on
      BY <1>5, <3>2 DEF RunIsCurrent
    <3> QED BY <3>1, <3>2
  <2>3. \A f \in Feeds : source'[f].count <= failures'[f]
    BY <1>1, <1>3, <2>1 DEF CountsAreEarned
  <2> QED BY <1>5, <2>1, <2>2, <2>3 DEF CountsAreEarned
<1> QED BY <1>6, <1>7, <1>8, <1>9 DEF HarvestInv

LEMMA HarvestNextKeeps ==
    ASSUME HarvestInv, [HarvestNext]_harvestVars
    PROVE  HarvestInv'
<1>1. ASSUME NEW f \in Feeds, Toggle(f) \/ Outage(f) PROVE HarvestInv'
  <2>1. switchedOn' \subseteq Feeds /\ dead' \subseteq Feeds
    BY <1>1 DEF Toggle, Outage, HarvestInv, HarvestTypes
  <2>2. UNCHANGED <<source, harvest, failures, given, overlapped, lost>>
    BY <1>1 DEF Toggle, Outage
  <2> QED BY <2>1, <2>2, HarvestFrame
<1>2. CASE UNCHANGED harvestVars
  <2>1. UNCHANGED <<source, switchedOn, dead, harvest, failures, given, overlapped, lost>>
    BY <1>2 DEF harvestVars
  <2>2. switchedOn' \subseteq Feeds /\ dead' \subseteq Feeds
    BY <2>1 DEF HarvestInv, HarvestTypes
  <2> QED BY <2>1, <2>2, HarvestFrame
<1> QED BY <1>1, <1>2, BeginKeeps, CommitKeeps, LoseKeeps, SkipKeeps, VisitKeeps, StumbleKeeps, TickKeeps
        DEF HarvestNext

\* engine.py:28-105, scrape_worker.py: for any feeds, any number of runs under way at
\* once and any bars, a feed shown as sound was read when last tried, one shown as ok
\* delivered lately, and while runs do not overlap one is passed over only for the
\* failures it had in a row.
THEOREM HealthStaysEarned == HarvestSpec => []HealthIsEarned
<1>1. ASSUME HarvestInv PROVE HealthIsEarned
  <2>1. ASSUME NEW f \in Feeds
        PROVE  /\ f \notin Pages /\ Health(f) \in {"never_yielded", "stalled", "ok"} => failures[f] = 0
               /\ Health(f) = "ok" => given[f] # Never /\ given[f] <= StaleAfter
    <3>1. /\ source[f].count \in 0 .. QuarantineAfter /\ QuarantineAfter \in Nat \ {0} /\ StaleAfter \in Nat
          /\ source[f].gave = Never \/ source[f].gave \in Nat
          /\ given[f] = Never \/ given[f] \in Nat
      BY <1>1, HarvestAssumption DEF HarvestInv, HarvestTypes, SourceRows, Ages
    <3>2. Health(f) \in {"never_yielded", "stalled", "ok"} => source[f].count = 0
      BY <3>1 DEF Health
    <3>3. Health(f) = "ok" => source[f].gave # Never /\ ~(source[f].gave > StaleAfter)
      BY <3>1 DEF Health
    <3>4. /\ f \notin Pages /\ source[f].count = 0 => failures[f] = 0
          /\ source[f].gave # Never => given[f] # Never /\ given[f] <= source[f].gave
      BY <1>1 DEF HarvestInv, RowsAreBacked
    <3> QED BY <3>1, <3>2, <3>3, <3>4
  <2>2. ASSUME ~overlapped, NEW f \in Feeds, IsQuarantined(source[f]) PROVE failures[f] >= QuarantineAfter
    <3>1. source[f].count <= failures[f] /\ source[f].count >= QuarantineAfter
      BY <1>1, <2>2 DEF HarvestInv, CountsAreEarned, IsQuarantined
    <3>2. source[f].count \in Nat /\ failures[f] \in Nat /\ QuarantineAfter \in Nat
      BY <1>1, HarvestAssumption DEF HarvestInv, HarvestTypes, SourceRows
    <3> QED BY <3>1, <3>2
  <2> QED BY <2>1, <2>2 DEF HealthIsEarned, HealthNeverFlatters, QuarantineIsEarned
<1> QED BY <1>1, HarvestInit0, HarvestNextKeeps, PTL DEF HarvestSpec
-----------------------------------------------------------------------------
(* Register *)

SiteRow == [row : FileRow, active : BOOLEAN]

\* Of some numbers one is the least: the one with the fewest below it.
LEMMA LeastOfSome == ASSUME NEW S, S \subseteq Nat, S # {} PROVE \E x \in S : \A y \in S : x <= y
<1> DEFINE below == {0 .. x : x \in S}
<1>1. below \subseteq FiniteSubsetsOf(Nat) /\ below # {}
  <2>1. \A x \in S : 0 .. x \in SUBSET Nat /\ IsFiniteSet(0 .. x)
    BY FS_Interval
  <2>2. \E x \in S : 0 .. x \in below
    OBVIOUS
  <2> QED BY <2>1, <2>2 DEF FiniteSubsetsOf
<1>2. PICK m \in below : \A a \in below : ~ (<<a, m>> \in StrictSubsetOrdering(Nat))
  <2> HIDE DEF below
  <2> QED BY <1>1, FS_StrictSubsetOrderingWellFounded, WFMin
<1>3. PICK x \in S : m = 0 .. x
  OBVIOUS
<1>4. ASSUME NEW y \in S PROVE x <= y
  <2> SUFFICES ASSUME y < x PROVE FALSE
    OBVIOUS
  <2>1. (0 .. y) \subseteq m /\ (0 .. y) # m /\ 0 .. y \in below
    BY <1>3
  <2>2. <<0 .. y, m>> \in StrictSubsetOrdering(Nat)
    BY <1>3, <2>1 DEF StrictSubsetOrdering
  <2> QED BY <1>2, <2>1, <2>2
<1> QED BY <1>4

\* Of some places in a sequence one is the last.
LEMMA LastOfSome ==
    ASSUME NEW n \in Nat, NEW S, S \subseteq 1 .. n, S # {}
    PROVE  \E x \in S : \A y \in S : y <= x
<1> DEFINE back == {n - x : x \in S}
<1>1. back \subseteq Nat /\ back # {}
  <2>1. \A x \in S : n - x \in Nat
    OBVIOUS
  <2>2. \E x \in S : n - x \in back
    OBVIOUS
  <2> QED BY <2>1, <2>2
<1>2. PICK b \in back : \A y \in back : b <= y
  <2> HIDE DEF back
  <2> QED BY <1>1, LeastOfSome
<1>3. PICK x \in S : b = n - x
  OBVIOUS
<1>4. ASSUME NEW y \in S PROVE y <= x
  <2>1. b <= n - y
    BY <1>2
  <2> QED BY <1>3, <2>1
<1> QED BY <1>4

LEMMA TwoOrMore ==
    ASSUME NEW S, IsFiniteSet(S)
    PROVE  Cardinality(S) > 1 <=> \E x, y \in S : x # y
<1>0. Cardinality(S) \in Nat
  BY FS_CardinalityType
<1>1. CASE S = {}
  BY <1>1, FS_EmptySet
<1>2. CASE S # {}
  <2>1. PICK x : x \in S
    BY <1>2
  <2>2. CASE S = {x}
    <3>1. Cardinality({x}) = 1
      BY FS_Singleton
    <3> QED BY <2>2, <3>1
  <2>3. CASE S # {x}
    <3>1. Cardinality(S) # 1
      <4> SUFFICES ASSUME Cardinality(S) = 1 PROVE FALSE
        OBVIOUS
      <4>1. PICK z : S = {z}
        BY FS_Singleton
      <4> QED BY <2>1, <2>3, <4>1
    <3>2. Cardinality(S) # 0
      BY <1>2, FS_EmptySet
    <3>3. \E y \in S : y # x
      BY <2>1, <2>3
    <3> QED BY <1>0, <2>1, <3>1, <3>2, <3>3
  <2> QED BY <2>2, <2>3
<1> QED BY <1>1, <1>2

LEMMA UsedTwice ==
    ASSUME NEW rows, IsFiniteSet(DOMAIN rows), NEW eid
    PROVE  Uses(eid, rows) > 1 <=>
               \E i, j \in DOMAIN rows : i # j /\ rows[i].eid = eid /\ rows[j].eid = eid
<1> DEFINE S == {i \in DOMAIN rows : rows[i].eid = eid}
<1>1. IsFiniteSet(S)
  <2>1. S \in SUBSET DOMAIN rows
    OBVIOUS
  <2> HIDE DEF S
  <2> QED BY <2>1, FS_Subset
<1>2. Cardinality(S) > 1 <=> \E x, y \in S : x # y
  <2> HIDE DEF S
  <2> QED BY <1>1, TwoOrMore
<1> QED BY <1>2 DEF Uses

LEMMA TableFacts ==
    ASSUME NEW table \in Seq(SiteRow)
    PROVE  /\ Len(table) \in Nat /\ DOMAIN table = 1 .. Len(table)
           /\ \A i \in DOMAIN table : table[i] \in SiteRow /\ table[i].row \in FileRow
           /\ IsFiniteSet(DOMAIN table)
           /\ DOMAIN RowsOf(table) = DOMAIN table
           /\ \A i \in DOMAIN table : RowsOf(table)[i] = table[i].row
<1>1. Len(table) \in Nat /\ DOMAIN table = 1 .. Len(table)
  BY LenProperties
<1>2. \A i \in DOMAIN table : table[i] \in SiteRow
  BY <1>1, ElementOfSeq
<1>3. IsFiniteSet(DOMAIN table)
  BY <1>1, FS_Interval
<1> QED BY <1>1, <1>2, <1>3 DEF SiteRow, RowsOf

LEMMA FileFacts ==
    ASSUME NEW file \in Seq(FileRow)
    PROVE  /\ Len(file) \in Nat /\ DOMAIN file = 1 .. Len(file)
           /\ \A i \in DOMAIN file : file[i] \in FileRow
           /\ IsFiniteSet(DOMAIN file)
<1>1. Len(file) \in Nat /\ DOMAIN file = 1 .. Len(file)
  BY LenProperties
<1>2. \A i \in DOMAIN file : file[i] \in FileRow
  BY <1>1, ElementOfSeq
<1>3. IsFiniteSet(DOMAIN file)
  BY <1>1, FS_Interval
<1> QED BY <1>1, <1>2, <1>3

LEMMA AmbiguousIs ==
    ASSUME NEW file \in Seq(FileRow), NEW table \in Seq(SiteRow), NEW e \in Ids
    PROVE  e \in Ambiguous(file, table) <=>
               \/ \E i, j \in DOMAIN file : i # j /\ file[i].eid = e /\ file[j].eid = e
               \/ \E i, j \in DOMAIN table : i # j /\ table[i].row.eid = e /\ table[j].row.eid = e
<1>1. Uses(e, file) > 1 <=> \E i, j \in DOMAIN file : i # j /\ file[i].eid = e /\ file[j].eid = e
  BY FileFacts, UsedTwice
<1>2. Uses(e, RowsOf(table)) > 1 <=>
          \E i, j \in DOMAIN table : i # j /\ table[i].row.eid = e /\ table[j].row.eid = e
  <2>1. IsFiniteSet(DOMAIN RowsOf(table))
    BY TableFacts
  <2>2. Uses(e, RowsOf(table)) > 1 <=> \E i, j \in DOMAIN RowsOf(table) :
            i # j /\ RowsOf(table)[i].eid = e /\ RowsOf(table)[j].eid = e
    BY <2>1, UsedTwice
  <2> QED BY <2>2, TableFacts
<1> QED BY <1>1, <1>2 DEF Ambiguous

\* Rows with one key have one identifier, and one name unless the identifier decides.
LEMMA KeysTell ==
    ASSUME NEW a, NEW r \in FileRow, NEW q \in FileRow, DedupeKey(r, a) = DedupeKey(q, a)
    PROVE  /\ r.eid = q.eid
           /\ r.name = q.name \/ (r.eid \in Ids /\ r.eid \notin a)
<1>1. r.eid \in Ids \cup {NoId} /\ q.eid \in Ids \cup {NoId}
  BY DEF FileRow
<1>2. DedupeKey(r, a)[1] = DedupeKey(q, a)[1] /\ DedupeKey(r, a)[2] = DedupeKey(q, a)[2]
  BY ONLY DedupeKey(r, a) = DedupeKey(q, a)
<1>3. CASE r.eid = NoId
  <2>1. DedupeKey(r, a) = <<"name", r.name>>
    BY <1>3 DEF DedupeKey
  <2>2. q.eid = NoId
    BY <1>2, <2>1 DEF DedupeKey
  <2>3. DedupeKey(q, a) = <<"name", q.name>>
    BY <2>2 DEF DedupeKey
  <2>4. <<"name", r.name>> = <<"name", q.name>>
    BY <2>1, <2>3
  <2> QED BY <1>3, <2>2, <2>4
<1>4. CASE r.eid # NoId /\ r.eid \in a
  <2>1. DedupeKey(r, a) = <<"both", r.eid, r.name>>
    BY <1>4 DEF DedupeKey
  <2>2. q.eid # NoId /\ q.eid \in a
    BY <1>2, <2>1 DEF DedupeKey
  <2>3. DedupeKey(q, a) = <<"both", q.eid, q.name>>
    BY <2>2 DEF DedupeKey
  <2>4. <<"both", r.eid, r.name>> = <<"both", q.eid, q.name>>
    BY <2>1, <2>3
  <2> QED BY <2>4
<1>5. CASE r.eid # NoId /\ r.eid \notin a
  <2>1. DedupeKey(r, a) = <<"id", r.eid>>
    BY <1>5 DEF DedupeKey
  <2>2. q.eid # NoId /\ q.eid \notin a
    BY <1>2, <2>1 DEF DedupeKey
  <2>3. DedupeKey(q, a) = <<"id", q.eid>>
    BY <2>2 DEF DedupeKey
  <2>4. <<"id", r.eid>> = <<"id", q.eid>>
    BY <2>1, <2>3
  <2> QED BY <1>1, <1>5, <2>4
<1> QED BY <1>3, <1>4, <1>5

LEMMA ByKeyIs ==
    ASSUME NEW table \in Seq(SiteRow), NEW a
    PROVE  /\ DOMAIN ByKey(table, a) = {DedupeKey(table[i].row, a) : i \in DOMAIN table}
           /\ \A k \in DOMAIN ByKey(table, a) :
                  /\ ByKey(table, a)[k] \in DOMAIN table
                  /\ DedupeKey(table[ByKey(table, a)[k]].row, a) = k
<1>1. DOMAIN ByKey(table, a) = {DedupeKey(table[i].row, a) : i \in DOMAIN table}
  BY DEF ByKey
<1>2. ASSUME NEW k \in DOMAIN ByKey(table, a)
      PROVE  /\ ByKey(table, a)[k] \in DOMAIN table
             /\ DedupeKey(table[ByKey(table, a)[k]].row, a) = k
  <2> DEFINE S == {i \in DOMAIN table : DedupeKey(table[i].row, a) = k}
  <2>1. S \subseteq 1 .. Len(table) /\ S # {} /\ Len(table) \in Nat
    BY <1>1, <1>2, TableFacts
  <2>2. \E x \in S : \A y \in S : y <= x
    <3> HIDE DEF S
    <3> QED BY <2>1, LastOfSome
  <2>3. \E i \in DOMAIN table : DedupeKey(table[i].row, a) = k
            /\ \A j \in DOMAIN table : DedupeKey(table[j].row, a) = k => j <= i
    BY <2>2
  <2>4. ByKey(table, a)[k] = CHOOSE i \in DOMAIN table : DedupeKey(table[i].row, a) = k
            /\ \A j \in DOMAIN table : DedupeKey(table[j].row, a) = k => j <= i
    BY <1>1, <1>2 DEF ByKey
  <2> QED BY <2>3, <2>4
<1> QED BY <1>1, <1>2

\* How far an import has come: work is the register and the places after n rows.
\* A row it added has a key of the file and shares it with no other; a key of the file
\* leads to the last row that has it; every other row is as it was.
Working(work, file, table, a, n) ==
    /\ work.table \in Seq(SiteRow) /\ Len(table) <= Len(work.table)
    /\ \A i \in DOMAIN work.table : DedupeKey(work.table[i].row, a) \in DOMAIN work.place
    /\ \A k \in DOMAIN work.place :
           /\ work.place[k] \in DOMAIN work.table
           /\ DedupeKey(work.table[work.place[k]].row, a) = k
    /\ \A m \in 1 .. n :
           LET k == DedupeKey(file[m], a)
           IN  /\ k \in DOMAIN work.place
               /\ \E j \in m .. n :
                      /\ DedupeKey(file[j], a) = k
                      /\ \A l \in j + 1 .. n : DedupeKey(file[l], a) # k
                      /\ work.table[work.place[k]] = Stored(file[j])
    /\ \A i \in DOMAIN table :
           /\ DedupeKey(work.table[i].row, a) = DedupeKey(table[i].row, a)
           /\ \/ work.table[i] = table[i]
              \/ \E m \in 1 .. n : DedupeKey(file[m], a) = DedupeKey(table[i].row, a)
    /\ \A i \in DOMAIN work.table : i > Len(table) =>
           \E m \in 1 .. n : DedupeKey(file[m], a) = DedupeKey(work.table[i].row, a)
    /\ \A i, j \in DOMAIN work.table :
           i # j /\ DedupeKey(work.table[i].row, a) = DedupeKey(work.table[j].row, a) =>
               i <= Len(table) /\ j <= Len(table)

LEMMA WorkingStarts ==
    ASSUME NEW file, NEW table \in Seq(SiteRow), NEW a,
           NEW work, work = [table |-> table, place |-> ByKey(table, a)]
    PROVE  Working(work, file, table, a, 0)
<1>1. work.table = table /\ work.place = ByKey(table, a)
  OBVIOUS
<1>5. /\ \A i \in DOMAIN table : DedupeKey(table[i].row, a) \in DOMAIN ByKey(table, a)
      /\ \A k \in DOMAIN ByKey(table, a) :
             /\ ByKey(table, a)[k] \in DOMAIN table
             /\ DedupeKey(table[ByKey(table, a)[k]].row, a) = k
  <2>1. DOMAIN ByKey(table, a) = {DedupeKey(table[i].row, a) : i \in DOMAIN table}
    BY ByKeyIs
  <2> QED BY <2>1, ByKeyIs
<1>2. \A i \in DOMAIN work.table : DedupeKey(work.table[i].row, a) \in DOMAIN work.place
  BY <1>1, <1>5
<1>3. \A k \in DOMAIN work.place :
           /\ work.place[k] \in DOMAIN work.table
           /\ DedupeKey(work.table[work.place[k]].row, a) = k
  BY <1>1, <1>5
<1>4. Len(table) \in Nat /\ DOMAIN table = 1 .. Len(table)
  BY TableFacts
<1> QED BY <1>1, <1>2, <1>3, <1>4 DEF Working

\* A row whose key is stored takes the place of the row that has it.
LEMMA RowReplaces ==
    ASSUME NEW file \in Seq(FileRow), NEW table \in Seq(SiteRow), NEW a, NEW n \in 1 .. Len(file),
           NEW work, Working(work, file, table, a, n - 1),
           DedupeKey(file[n], a) \in DOMAIN work.place
    PROVE  Working(ImportRow(work, file[n], a), file, table, a, n)
<1> DEFINE key == DedupeKey(file[n], a)
           i == work.place[key]
           new == [work.table EXCEPT ![i] = Stored(file[n])]
<1>1. n - 1 \in Nat /\ n \in Nat /\ n \in DOMAIN file /\ file[n] \in FileRow
  BY FileFacts
<1>2. /\ work.table \in Seq(SiteRow)
      /\ i \in DOMAIN work.table /\ DedupeKey(work.table[i].row, a) = key
  BY DEF Working
<1>3. /\ DOMAIN work.table = 1 .. Len(work.table) /\ Len(work.table) \in Nat
      /\ \A l \in DOMAIN work.table : work.table[l].row \in FileRow
  BY <1>2, TableFacts
<1>4. work.table[i].row.eid = file[n].eid
  BY <1>1, <1>2, <1>3, KeysTell
<1>5. ImportRow(work, file[n], a) = [table |-> new, place |-> work.place]
  <2>1. [file[n] EXCEPT !.eid = file[n].eid] = file[n]
    BY <1>1 DEF FileRow
  <2>2. (IF file[n].eid = NoId THEN work.table[i].row.eid ELSE file[n].eid) = file[n].eid
    BY <1>4
  <2> QED BY <2>1, <2>2 DEF ImportRow
<1>6. Stored(file[n]) \in SiteRow /\ Stored(file[n]).row = file[n]
  BY <1>1 DEF Stored, SiteRow
<1>7. /\ new \in Seq(SiteRow) /\ Len(new) = Len(work.table) /\ DOMAIN new = DOMAIN work.table
      /\ \A l \in DOMAIN new : new[l] = IF l = i THEN Stored(file[n]) ELSE work.table[l]
  <2>1. i \in 1 .. Len(work.table)
    BY <1>2, <1>3
  <2> HIDE DEF i
  <2> QED BY <1>2, <1>3, <1>6, <2>1, ExceptSeq
<1>8. \A l \in DOMAIN new : DedupeKey(new[l].row, a) = DedupeKey(work.table[l].row, a)
  BY <1>2, <1>6, <1>7
<1> HIDE DEF new, i
<1>9. \A k \in DOMAIN work.place :
          /\ work.place[k] \in DOMAIN new
          /\ DedupeKey(new[work.place[k]].row, a) = k
  BY <1>7, <1>8 DEF Working
<1>10. ASSUME NEW m \in 1 .. n
       PROVE  /\ DedupeKey(file[m], a) \in DOMAIN work.place
              /\ \E j \in m .. n :
                     /\ DedupeKey(file[j], a) = DedupeKey(file[m], a)
                     /\ \A l \in j + 1 .. n : DedupeKey(file[l], a) # DedupeKey(file[m], a)
                     /\ new[work.place[DedupeKey(file[m], a)]] = Stored(file[j])
  <2> DEFINE k == DedupeKey(file[m], a)
  <2>1. CASE k = key
    <3>1. new[work.place[k]] = Stored(file[n]) /\ n \in m .. n
      BY <1>1, <1>2, <1>7, <2>1 DEF i
    <3> QED BY <1>1, <2>1, <3>1
  <2>2. CASE k # key
    <3>1. m \in 1 .. n - 1
      BY <1>1, <2>2
    <3>2. k \in DOMAIN work.place
      BY <3>1 DEF Working
    <3>3. PICK j \in m .. n - 1 :
              /\ DedupeKey(file[j], a) = k
              /\ \A l \in j + 1 .. n - 1 : DedupeKey(file[l], a) # k
              /\ work.table[work.place[k]] = Stored(file[j])
      BY <3>1 DEF Working
    <3>4. work.place[k] # i /\ work.place[k] \in DOMAIN new
      BY <1>2, <1>9, <1>7, <2>2, <3>2 DEF Working
    <3>5. new[work.place[k]] = Stored(file[j])
      BY <1>7, <3>3, <3>4
    <3>6. \A l \in j + 1 .. n : l = n \/ l \in j + 1 .. n - 1
      BY <1>1
    <3>7. j \in m .. n
      BY <1>1
    <3> QED BY <2>2, <3>2, <3>3, <3>5, <3>6, <3>7
  <2> QED BY <2>1, <2>2
<1>11. ASSUME NEW l \in DOMAIN table
       PROVE  /\ DedupeKey(new[l].row, a) = DedupeKey(table[l].row, a)
              /\ \/ new[l] = table[l]
                 \/ \E m \in 1 .. n : DedupeKey(file[m], a) = DedupeKey(table[l].row, a)
  <2>0. l \in DOMAIN new
    <3>1. DOMAIN table = 1 .. Len(table) /\ Len(table) \in Nat /\ Len(table) <= Len(work.table)
      BY TableFacts DEF Working
    <3> QED BY <1>3, <1>7, <3>1
  <2>1. l \in DOMAIN new /\ DedupeKey(new[l].row, a) = DedupeKey(table[l].row, a)
    BY <1>8, <2>0 DEF Working
  <2>2. CASE l = i
    BY <1>1, <1>2, <1>8, <2>1, <2>2
  <2>3. CASE l # i
    <3>1. new[l] = work.table[l]
      BY <1>7, <2>1, <2>3
    <3>2. \/ work.table[l] = table[l]
          \/ \E m \in 1 .. n - 1 : DedupeKey(file[m], a) = DedupeKey(table[l].row, a)
      BY DEF Working
    <3> QED BY <1>1, <2>1, <3>1, <3>2
  <2> QED BY <2>2, <2>3
<1>12. \A l \in DOMAIN new : l > Len(table) =>
           \E m \in 1 .. n : DedupeKey(file[m], a) = DedupeKey(new[l].row, a)
  BY <1>1, <1>7, <1>8 DEF Working
<1>13. \A l, j \in DOMAIN new :
           l # j /\ DedupeKey(new[l].row, a) = DedupeKey(new[j].row, a) =>
               l <= Len(table) /\ j <= Len(table)
  BY <1>7, <1>8 DEF Working
<1>14. \A l \in DOMAIN new : DedupeKey(new[l].row, a) \in DOMAIN work.place
  BY <1>7, <1>8 DEF Working
<1>15. Len(table) <= Len(new)
  BY <1>7 DEF Working
<1> DEFINE next == ImportRow(work, file[n], a)
<1>16. next.table = new /\ next.place = work.place
  BY <1>5
<1> SUFFICES Working(next, file, table, a, n)
  OBVIOUS
<1> HIDE DEF key, next
<1>17. \A m \in 1 .. n :
           LET k == DedupeKey(file[m], a)
           IN  /\ k \in DOMAIN next.place
               /\ \E j \in m .. n :
                      /\ DedupeKey(file[j], a) = k
                      /\ \A l \in j + 1 .. n : DedupeKey(file[l], a) # k
                      /\ next.table[next.place[k]] = Stored(file[j])
  BY <1>10, <1>16
<1>18. \A l \in DOMAIN table :
           /\ DedupeKey(next.table[l].row, a) = DedupeKey(table[l].row, a)
           /\ \/ next.table[l] = table[l]
              \/ \E m \in 1 .. n : DedupeKey(file[m], a) = DedupeKey(table[l].row, a)
  BY <1>11, <1>16
<1>19. /\ \A l \in DOMAIN next.table : l > Len(table) =>
              \E m \in 1 .. n : DedupeKey(file[m], a) = DedupeKey(next.table[l].row, a)
       /\ \A l, j \in DOMAIN next.table :
              l # j /\ DedupeKey(next.table[l].row, a) = DedupeKey(next.table[j].row, a) =>
                  l <= Len(table) /\ j <= Len(table)
  BY <1>12, <1>13, <1>16
<1>20. /\ next.table \in Seq(SiteRow) /\ Len(table) <= Len(next.table)
       /\ \A l \in DOMAIN next.table : DedupeKey(next.table[l].row, a) \in DOMAIN next.place
       /\ \A k \in DOMAIN next.place :
              /\ next.place[k] \in DOMAIN next.table
              /\ DedupeKey(next.table[next.place[k]].row, a) = k
  BY <1>7, <1>9, <1>14, <1>15, <1>16
<1> QED BY <1>17, <1>18, <1>19, <1>20 DEF Working

\* A row whose key is not stored is added at the end.
LEMMA RowIsAdded ==
    ASSUME NEW file \in Seq(FileRow), NEW table \in Seq(SiteRow), NEW a, NEW n \in 1 .. Len(file),
           NEW work, Working(work, file, table, a, n - 1),
           DedupeKey(file[n], a) \notin DOMAIN work.place
    PROVE  Working(ImportRow(work, file[n], a), file, table, a, n)
<1> DEFINE key == DedupeKey(file[n], a)
           top == Len(work.table) + 1
           new == Append(work.table, Stored(file[n]))
           place == Remembers(work.place, key, top)
<1>1. n - 1 \in Nat /\ n \in Nat /\ n \in DOMAIN file /\ file[n] \in FileRow
  BY FileFacts
<1>2. work.table \in Seq(SiteRow) /\ Len(table) <= Len(work.table)
  BY DEF Working
<1>3. /\ DOMAIN work.table = 1 .. Len(work.table) /\ Len(work.table) \in Nat /\ Len(table) \in Nat
  BY <1>2, TableFacts
<1>5. ImportRow(work, file[n], a) = [table |-> new, place |-> place]
  BY DEF ImportRow
<1>6. Stored(file[n]) \in SiteRow /\ Stored(file[n]).row = file[n]
  BY <1>1 DEF Stored, SiteRow
<1>7. /\ new \in Seq(SiteRow) /\ Len(new) = top /\ DOMAIN new = DOMAIN work.table \cup {top}
      /\ new[top] = Stored(file[n]) /\ top \notin DOMAIN work.table
      /\ \A l \in DOMAIN work.table : new[l] = work.table[l]
  BY <1>2, <1>3, <1>6
<1>8. /\ DOMAIN place = DOMAIN work.place \cup {key} /\ place[key] = top
      /\ \A k \in DOMAIN work.place : place[k] = work.place[k]
  BY DEF Remembers
<1> HIDE DEF new, place, top
<1>9. \A k \in DOMAIN place :
          /\ place[k] \in DOMAIN new
          /\ DedupeKey(new[place[k]].row, a) = k
  BY <1>6, <1>7, <1>8 DEF Working
<1>10. ASSUME NEW m \in 1 .. n
       PROVE  /\ DedupeKey(file[m], a) \in DOMAIN place
              /\ \E j \in m .. n :
                     /\ DedupeKey(file[j], a) = DedupeKey(file[m], a)
                     /\ \A l \in j + 1 .. n : DedupeKey(file[l], a) # DedupeKey(file[m], a)
                     /\ new[place[DedupeKey(file[m], a)]] = Stored(file[j])
  <2> DEFINE k == DedupeKey(file[m], a)
  <2>1. CASE m = n
    BY <1>1, <1>7, <1>8, <2>1
  <2>2. CASE m # n
    <3>1. m \in 1 .. n - 1
      BY <1>1, <2>2
    <3>2. k \in DOMAIN work.place /\ k # key
      BY <3>1 DEF Working
    <3>3. PICK j \in m .. n - 1 :
              /\ DedupeKey(file[j], a) = k
              /\ \A l \in j + 1 .. n - 1 : DedupeKey(file[l], a) # k
              /\ work.table[work.place[k]] = Stored(file[j])
      BY <3>1 DEF Working
    <3>4. work.place[k] \in DOMAIN work.table
      BY <3>2 DEF Working
    <3>5. new[place[k]] = Stored(file[j])
      BY <1>7, <1>8, <3>2, <3>3, <3>4
    <3>6. \A l \in j + 1 .. n : l = n \/ l \in j + 1 .. n - 1
      BY <1>1
    <3>7. j \in m .. n
      BY <1>1
    <3> QED BY <1>8, <3>2, <3>3, <3>5, <3>6, <3>7
  <2> QED BY <2>1, <2>2
<1>11. ASSUME NEW l \in DOMAIN table
       PROVE  /\ DedupeKey(new[l].row, a) = DedupeKey(table[l].row, a)
              /\ \/ new[l] = table[l]
                 \/ \E m \in 1 .. n : DedupeKey(file[m], a) = DedupeKey(table[l].row, a)
  <2>1. l \in DOMAIN work.table /\ new[l] = work.table[l]
    BY <1>2, <1>3, <1>7, TableFacts, SMTT(20)
  <2>2. /\ DedupeKey(work.table[l].row, a) = DedupeKey(table[l].row, a)
        /\ \/ work.table[l] = table[l]
           \/ \E m \in 1 .. n - 1 : DedupeKey(file[m], a) = DedupeKey(table[l].row, a)
    BY DEF Working
  <2> QED BY <1>1, <2>1, <2>2
<1>12. ASSUME NEW l \in DOMAIN new, l > Len(table)
       PROVE  \E m \in 1 .. n : DedupeKey(file[m], a) = DedupeKey(new[l].row, a)
  <2>1. CASE l = top
    BY <1>1, <1>6, <1>7, <2>1
  <2>2. CASE l # top
    <3>1. l \in DOMAIN work.table /\ new[l] = work.table[l]
      BY <1>7, <1>12, <2>2
    <3>2. \E m \in 1 .. n - 1 : DedupeKey(file[m], a) = DedupeKey(work.table[l].row, a)
      BY <1>12, <3>1 DEF Working
    <3> QED BY <1>1, <3>1, <3>2
  <2> QED BY <2>1, <2>2
<1>13. ASSUME NEW l \in DOMAIN new, NEW j \in DOMAIN new, l # j,
              DedupeKey(new[l].row, a) = DedupeKey(new[j].row, a)
       PROVE  l <= Len(table) /\ j <= Len(table)
  <2>1. \A x \in DOMAIN work.table : DedupeKey(new[x].row, a) # key
    BY <1>7 DEF Working
  <2>2. DedupeKey(new[top].row, a) = key
    BY <1>6, <1>7
  <2>3. l \in DOMAIN work.table /\ j \in DOMAIN work.table
    BY <1>7, <1>13, <2>1, <2>2
  <2> QED BY <1>7, <1>13, <2>3 DEF Working
<1>14. \A l \in DOMAIN new : DedupeKey(new[l].row, a) \in DOMAIN place
  BY <1>6, <1>7, <1>8 DEF Working
<1>15. Len(table) <= Len(new)
  BY <1>2, <1>3, <1>7 DEF top
<1> DEFINE next == ImportRow(work, file[n], a)
<1>16. next.table = new /\ next.place = place
  BY <1>5
<1> SUFFICES Working(next, file, table, a, n)
  OBVIOUS
<1> HIDE DEF key, next
<1>17. \A m \in 1 .. n :
           LET k == DedupeKey(file[m], a)
           IN  /\ k \in DOMAIN next.place
               /\ \E j \in m .. n :
                      /\ DedupeKey(file[j], a) = k
                      /\ \A l \in j + 1 .. n : DedupeKey(file[l], a) # k
                      /\ next.table[next.place[k]] = Stored(file[j])
  BY <1>10, <1>16
<1>18. \A l \in DOMAIN table :
           /\ DedupeKey(next.table[l].row, a) = DedupeKey(table[l].row, a)
           /\ \/ next.table[l] = table[l]
              \/ \E m \in 1 .. n : DedupeKey(file[m], a) = DedupeKey(table[l].row, a)
  BY <1>11, <1>16
<1>19. /\ \A l \in DOMAIN next.table : l > Len(table) =>
              \E m \in 1 .. n : DedupeKey(file[m], a) = DedupeKey(next.table[l].row, a)
       /\ \A l, j \in DOMAIN next.table :
              l # j /\ DedupeKey(next.table[l].row, a) = DedupeKey(next.table[j].row, a) =>
                  l <= Len(table) /\ j <= Len(table)
  BY <1>12, <1>13, <1>16
<1>20. /\ next.table \in Seq(SiteRow) /\ Len(table) <= Len(next.table)
       /\ \A l \in DOMAIN next.table : DedupeKey(next.table[l].row, a) \in DOMAIN next.place
       /\ \A k \in DOMAIN next.place :
              /\ next.place[k] \in DOMAIN next.table
              /\ DedupeKey(next.table[next.place[k]].row, a) = k
  BY <1>7, <1>9, <1>14, <1>15, <1>16
<1> QED BY <1>17, <1>18, <1>19, <1>20 DEF Working

\* The loop over the file is well defined: were there a first row at which it is not,
\* it would be so up to the row before.  And what it has reached after each row.
LEMMA ImportedIs ==
    ASSUME NEW file \in Seq(FileRow), NEW table \in Seq(SiteRow)
    PROVE  \E work : /\ Imported(file, table) = work.table
                     /\ Working(work, file, table, Ambiguous(file, table), Len(file))
<1> DEFINE a == Ambiguous(file, table)
           first == [table |-> table, place |-> ByKey(table, a)]
           Loop(n, f) == f = [m \in 0 .. n |-> IF m = 0 THEN first
                                               ELSE ImportRow(f[m - 1], file[m], a)]
           bad == {n \in 0 .. Len(file) : ~ \E f : Loop(n, f)}
           bound == Len(file)
<1>0. bound \in Nat
  BY FileFacts
<1>1. bad = {}
  <2> SUFFICES ASSUME bad # {} PROVE FALSE
    OBVIOUS
  <2>1. PICK n \in bad : \A m \in bad : n <= m
    <3>1. bad \subseteq Nat
      BY <1>0
    <3> HIDE DEF bad
    <3> QED BY <3>1, LeastOfSome
  <2>2. n # 0
    <3>1. Loop(0, [m \in 0 .. 0 |-> first])
      OBVIOUS
    <3> QED BY <2>1, <3>1
  <2>3. n \in Nat /\ n \in 0 .. bound /\ n - 1 \in 0 .. bound /\ n - 1 \in Nat
    BY <1>0, <2>2
  <2>4. n - 1 \notin bad
    <3> HIDE DEF bad
    <3> QED BY <2>1, <2>3
  <2>5. PICK f : Loop(n - 1, f)
    BY <2>3, <2>4
  <2> DEFINE g == [m \in 0 .. n |-> IF m = n THEN ImportRow(f[n - 1], file[n], a) ELSE f[m]]
  <2>6. ASSUME NEW m \in 0 .. n
        PROVE  g[m] = IF m = 0 THEN first ELSE ImportRow(g[m - 1], file[m], a)
    <3> HIDE DEF first, a
    <3>1. CASE m = n
      <4>1. g[n - 1] = f[n - 1] /\ g[n] = ImportRow(f[n - 1], file[n], a)
        BY <2>3
      <4> QED BY <2>2, <3>1, <4>1
    <3>2. CASE m # n
      <4>1. m \in 0 .. n - 1 /\ (m # 0 => m - 1 \in 0 .. n /\ m - 1 # n)
        BY <2>3, <2>6, <3>2
      <4>2. f[m] = IF m = 0 THEN first ELSE ImportRow(f[m - 1], file[m], a)
        BY <2>5, <4>1
      <4> QED BY <3>2, <4>1, <4>2
    <3> QED BY <3>1, <3>2
  <2>7. Loop(n, g)
    <3> HIDE DEF first, a
    <3>1. g = [m \in 0 .. n |-> g[m]]
      OBVIOUS
    <3> HIDE DEF g
    <3> QED BY <2>6, <3>1
  <2> HIDE DEF Loop, g
  <2> QED BY <2>1, <2>7
<1> DEFINE loop == CHOOSE f : Loop(bound, f)
<1>2. Loop(bound, loop)
  <2>1. \E f : Loop(bound, f)
    BY <1>0, <1>1
  <2> HIDE DEF Loop
  <2> QED BY <2>1
<1>3. Imported(file, table) = loop[bound].table
  BY DEF Imported
<1> HIDE DEF loop
<1>4. \A n \in 0 .. bound :
          loop[n] = IF n = 0 THEN first ELSE ImportRow(loop[n - 1], file[n], a)
  BY <1>2
<1> DEFINE wrong == {n \in 0 .. bound : ~ Working(loop[n], file, table, a, n)}
<1>5. wrong = {}
  <2> SUFFICES ASSUME wrong # {} PROVE FALSE
    OBVIOUS
  <2> HIDE DEF Loop, a
  <2>1. PICK n \in wrong : \A m \in wrong : n <= m
    <3>1. wrong \subseteq Nat
      BY <1>0
    <3> HIDE DEF wrong
    <3> QED BY <3>1, LeastOfSome
  <2>2. n # 0
    <3>1. loop[0] = first /\ 0 \in 0 .. bound
      BY <1>0, <1>4
    <3>2. Working(loop[0], file, table, a, 0)
      BY <3>1, WorkingStarts
    <3> QED BY <2>1, <3>2
  <2>3. n \in Nat /\ n \in 1 .. bound /\ n - 1 \in 0 .. bound /\ n \in 0 .. bound
    BY <1>0, <2>2
  <2>4. Working(loop[n - 1], file, table, a, n - 1)
    <3>1. n - 1 \notin wrong
      <4> HIDE DEF wrong
      <4> QED BY <2>1, <2>3
    <3> QED BY <2>3, <3>1
  <2>5. loop[n] = ImportRow(loop[n - 1], file[n], a)
    BY <1>4, <2>2, <2>3
  <2>6. Working(ImportRow(loop[n - 1], file[n], a), file, table, a, n)
    BY <2>3, <2>4, RowReplaces, RowIsAdded
  <2>7. Working(loop[n], file, table, a, n)
    BY <2>5, <2>6
  <2> QED BY <2>1, <2>7
<1>6. Working(loop[bound], file, table, a, bound)
  <2>1. bound \in 0 .. bound
    BY <1>0
  <2> HIDE DEF Loop, a, bound
  <2> QED BY <1>5, <2>1
<1> QED BY <1>3, <1>6

\* What was ambiguous is so afterwards, and nothing else.
LEMMA AmbiguityStays ==
    ASSUME NEW file \in Seq(FileRow), NEW table \in Seq(SiteRow),
           NEW work, Working(work, file, table, Ambiguous(file, table), Len(file))
    PROVE  Ambiguous(file, work.table) = Ambiguous(file, table)
<1> DEFINE a == Ambiguous(file, table)
           once == work.table
<1>1. once \in Seq(SiteRow) /\ Len(table) <= Len(once)
  BY DEF Working
<1>2. /\ DOMAIN table = 1 .. Len(table) /\ DOMAIN once = 1 .. Len(once)
      /\ Len(table) \in Nat /\ Len(once) \in Nat
      /\ \A i \in DOMAIN table : table[i].row \in FileRow
      /\ \A i \in DOMAIN once : once[i].row \in FileRow
  BY <1>1, TableFacts
<1>3. \A i \in DOMAIN table : i \in DOMAIN once /\ once[i].row.eid = table[i].row.eid
  <2> SUFFICES ASSUME NEW i \in DOMAIN table
               PROVE  i \in DOMAIN once /\ once[i].row.eid = table[i].row.eid
    OBVIOUS
  <2>1. i \in DOMAIN once
    BY <1>1, <1>2
  <2>2. DedupeKey(once[i].row, a) = DedupeKey(table[i].row, a)
    BY DEF Working
  <2> HIDE DEF a, once
  <2> QED BY <1>2, <2>1, <2>2, KeysTell
<1>4. ASSUME NEW e \in Ids, NEW i \in DOMAIN once, NEW j \in DOMAIN once, i # j,
             once[i].row.eid = e, once[j].row.eid = e
      PROVE  e \in a
  <2> SUFFICES ASSUME e \notin a PROVE FALSE
    OBVIOUS
  <2>1. DedupeKey(once[i].row, a) = <<"id", e>> /\ DedupeKey(once[j].row, a) = <<"id", e>>
    <3> HIDE DEF a, once
    <3> QED BY <1>4, RegisterAssumption DEF DedupeKey
  <2>2. i \in DOMAIN table /\ j \in DOMAIN table
    <3>1. i <= Len(table) /\ j <= Len(table)
      BY <1>4, <2>1 DEF Working
    <3> QED BY <1>2, <3>1
  <2>3. e \in a
    BY <1>3, <1>4, <2>2, AmbiguousIs
  <2> QED BY <2>3
<1>5. ASSUME NEW e \in Ids PROVE e \in Ambiguous(file, once) <=> e \in a
  <2>1. e \in Ambiguous(file, once) <=>
            \/ \E i, j \in DOMAIN file : i # j /\ file[i].eid = e /\ file[j].eid = e
            \/ \E i, j \in DOMAIN once : i # j /\ once[i].row.eid = e /\ once[j].row.eid = e
    <3> HIDE DEF once, a
    <3> QED BY <1>1, AmbiguousIs
  <2>2. e \in a <=>
            \/ \E i, j \in DOMAIN file : i # j /\ file[i].eid = e /\ file[j].eid = e
            \/ \E i, j \in DOMAIN table : i # j /\ table[i].row.eid = e /\ table[j].row.eid = e
    BY AmbiguousIs
  <2> HIDE DEF once, a
  <2> QED BY <1>3, <1>4, <2>1, <2>2
<1> QED BY <1>5 DEF Ambiguous

Distinct(table) == \A i, j \in DOMAIN table :
    i # j => table[i].row.eid # table[j].row.eid \/ table[i].row.name # table[j].row.name

\* Stored rows that differ in identifier or name have keys of their own, and an
\* import leaves it so.
LEMMA KeysStayDistinct ==
    ASSUME NEW file \in Seq(FileRow), NEW table \in Seq(SiteRow), Distinct(table),
           NEW work, Working(work, file, table, Ambiguous(file, table), Len(file)),
           NEW i \in DOMAIN work.table, NEW j \in DOMAIN work.table,
           DedupeKey(work.table[i].row, Ambiguous(file, table))
               = DedupeKey(work.table[j].row, Ambiguous(file, table))
    PROVE  i = j
<1> SUFFICES ASSUME i # j PROVE FALSE
  OBVIOUS
<1> DEFINE a == Ambiguous(file, table)
<1>1. work.table \in Seq(SiteRow)
  BY DEF Working
<1>2. DOMAIN work.table = 1 .. Len(work.table) /\ DOMAIN table = 1 .. Len(table)
      /\ Len(work.table) \in Nat /\ Len(table) \in Nat
      /\ \A l \in DOMAIN table : table[l].row \in FileRow
  BY <1>1, TableFacts
<1>3. i \in DOMAIN table /\ j \in DOMAIN table
  <2>1. i <= Len(table) /\ j <= Len(table)
    BY DEF Working
  <2> QED BY <1>2, <2>1
<1>4. DedupeKey(table[i].row, a) = DedupeKey(table[j].row, a)
  BY <1>3 DEF Working
<1>5. /\ table[i].row.eid = table[j].row.eid
      /\ table[i].row.name = table[j].row.name \/ (table[i].row.eid \in Ids /\ table[i].row.eid \notin a)
  <2> HIDE DEF a
  <2> QED BY <1>2, <1>3, <1>4, KeysTell
<1>6. CASE table[i].row.name = table[j].row.name
  BY <1>3, <1>5, <1>6 DEF Distinct
<1>7. CASE table[i].row.eid \in Ids /\ table[i].row.eid \notin a
  BY <1>3, <1>5, <1>7, AmbiguousIs
<1> QED BY <1>5, <1>6, <1>7

\* The second upload finds for each row of the file the one the first left, adds none,
\* and leaves in each place the last row of the file that belongs there.
LEMMA SecondUploadIsIdle ==
    ASSUME NEW file \in Seq(FileRow), NEW table \in Seq(SiteRow), Distinct(table)
    PROVE  Imported(file, Imported(file, table)) = Imported(file, table)
<1> DEFINE a == Ambiguous(file, table)
           n == Len(file)
<1>1. PICK w : Imported(file, table) = w.table /\ Working(w, file, table, a, n)
  BY ImportedIs
<1> DEFINE once == w.table
<1>2. once \in Seq(SiteRow)
  BY <1>1 DEF Working
<1>3. PICK v : Imported(file, once) = v.table /\ Working(v, file, once, Ambiguous(file, once), n)
  BY <1>2, ImportedIs
<1>4. Working(v, file, once, a, n)
  BY <1>1, <1>3, AmbiguityStays
<1> DEFINE twice == v.table
           Key(row) == DedupeKey(row, a)
<1>5. /\ twice \in Seq(SiteRow) /\ Len(once) <= Len(twice)
      /\ n \in Nat
  BY <1>4, FileFacts DEF Working
<1>6. /\ DOMAIN once = 1 .. Len(once) /\ DOMAIN twice = 1 .. Len(twice)
      /\ Len(once) \in Nat /\ Len(twice) \in Nat
  BY <1>2, <1>5, TableFacts
<1>7. \A i, j \in DOMAIN once : Key(once[i].row) = Key(once[j].row) => i = j
  BY <1>1, KeysStayDistinct
<1>8. ASSUME NEW m \in 1 .. n
      PROVE  /\ Key(file[m]) \in DOMAIN w.place
             /\ w.place[Key(file[m])] \in DOMAIN once
             /\ Key(once[w.place[Key(file[m])]].row) = Key(file[m])
  BY <1>1 DEF Working
<1>9. \A i \in DOMAIN once : i \in DOMAIN twice /\ Key(twice[i].row) = Key(once[i].row)
  <2> SUFFICES ASSUME NEW i \in DOMAIN once
               PROVE  i \in DOMAIN twice /\ Key(twice[i].row) = Key(once[i].row)
    OBVIOUS
  <2>1. Key(twice[i].row) = Key(once[i].row)
    BY <1>4 DEF Working
  <2> HIDE DEF once, twice, Key
  <2> QED BY <1>5, <1>6, <2>1
<1>10. ASSUME Len(twice) > Len(once) PROVE FALSE
  <2> DEFINE i == Len(twice)
  <2>1. i \in DOMAIN twice /\ ~ (i <= Len(once)) /\ i \notin DOMAIN once
    <3> HIDE DEF once, twice
    <3> QED BY <1>6, <1>10
  <2>6. i > Len(once)
    BY <1>10
  <2>2. PICK m \in 1 .. n : Key(file[m]) = Key(twice[i].row)
    <3> HIDE DEF i
    <3> QED BY <1>4, <2>1, <2>6 DEF Working
  <2> DEFINE p == w.place[Key(file[m])]
  <2>3. p \in DOMAIN once /\ Key(once[p].row) = Key(file[m])
    BY <1>8
  <2>4. p \in DOMAIN twice /\ Key(twice[p].row) = Key(twice[i].row) /\ p # i
    <3> HIDE DEF once, twice, Key, i, p
    <3> QED BY <1>9, <2>1, <2>2, <2>3
  <2>5. i <= Len(once)
    <3> HIDE DEF i, p
    <3> QED BY <1>4, <2>1, <2>4 DEF Working
  <2> QED BY <2>1, <2>5
<1>11. Len(twice) = Len(once) /\ DOMAIN twice = DOMAIN once
  <2>1. ~(Len(twice) > Len(once))
    BY <1>10
  <2>2. Len(twice) \in Nat /\ Len(once) \in Nat /\ Len(once) <= Len(twice)
    BY <1>5, <1>6
  <2> HIDE DEF twice, once
  <2>3. Len(twice) = Len(once)
    BY <2>1, <2>2
  <2> QED BY <1>6, <2>3
<1>12. ASSUME NEW i \in DOMAIN once PROVE twice[i] = once[i]
  <2>1. CASE \A m \in 1 .. n : Key(file[m]) # Key(once[i].row)
    BY <1>4, <2>1 DEF Working
  <2>2. CASE \E m \in 1 .. n : Key(file[m]) = Key(once[i].row)
    <3>1. PICK m \in 1 .. n : Key(file[m]) = Key(once[i].row)
      BY <2>2
    <3> DEFINE k == Key(file[m])
    <3>2. PICK j \in m .. n :
              /\ Key(file[j]) = k
              /\ \A l \in j + 1 .. n : Key(file[l]) # k
              /\ once[w.place[k]] = Stored(file[j])
      BY <1>1 DEF Working
    <3>3. PICK h \in m .. n :
              /\ Key(file[h]) = k
              /\ \A l \in h + 1 .. n : Key(file[l]) # k
              /\ twice[v.place[k]] = Stored(file[h])
      BY <1>4 DEF Working
    <3>4. j = h
      <4> HIDE DEF Key, k, n
      <4> QED BY <1>5, <3>2, <3>3, SMTT(20)
    <3>5. w.place[k] = i
      <4>1. w.place[k] \in DOMAIN once /\ Key(once[w.place[k]].row) = k
        BY <1>8
      <4> HIDE DEF Key, once
      <4> QED BY <1>7, <3>1, <4>1
    <3>6. v.place[k] = i
      <4>1. k \in DOMAIN v.place
        BY <1>4 DEF Working
      <4>2. v.place[k] \in DOMAIN twice /\ Key(twice[v.place[k]].row) = k
        BY <1>4, <4>1 DEF Working
      <4> HIDE DEF Key, once, twice, k
      <4>3. v.place[k] \in DOMAIN once
        BY <1>11, <4>2
      <4>4. Key(once[v.place[k]].row) = k
        BY <1>9, <4>2, <4>3
      <4> QED BY <1>7, <3>1, <4>3, <4>4 DEF k
    <3> QED BY <3>2, <3>3, <3>4, <3>5, <3>6
  <2> QED BY <2>1, <2>2
<1>13. twice = once
  <2> HIDE DEF twice, once
  <2> QED BY <1>2, <1>5, <1>6, <1>11, <1>12, SeqEqual
<1> QED BY <1>1, <1>3, <1>13

\* Every row of the file is stored, or a later one of the same site is.
LEMMA FileIsStored ==
    ASSUME NEW file \in Seq(FileRow), NEW table \in Seq(SiteRow), NEW i \in DOMAIN file
    PROVE  \/ Stored(file[i]) \in Range(Imported(file, table))
           \/ \E j \in i + 1 .. Len(file) : file[j].eid = file[i].eid /\ file[j].name = file[i].name
<1> DEFINE a == Ambiguous(file, table)
           n == Len(file)
           k == DedupeKey(file[i], a)
<1>1. PICK w : Imported(file, table) = w.table /\ Working(w, file, table, a, n)
  BY ImportedIs
<1>2. n \in Nat /\ i \in 1 .. n /\ DOMAIN file = 1 .. n /\ \A m \in 1 .. n : file[m] \in FileRow
  BY FileFacts
<1>3. k \in DOMAIN w.place /\ w.place[k] \in DOMAIN w.table
  BY <1>1, <1>2 DEF Working
<1>4. PICK j \in i .. n : DedupeKey(file[j], a) = k /\ w.table[w.place[k]] = Stored(file[j])
  BY <1>1, <1>2 DEF Working
<1>5. CASE j = i
  BY <1>1, <1>3, <1>4, <1>5 DEF Range
<1>6. CASE j # i
  <2>1. j \in i + 1 .. n /\ j \in 1 .. n
    BY <1>2, <1>6
  <2>2. /\ file[j].eid = file[i].eid
        /\ file[j].name = file[i].name \/ (file[j].eid \in Ids /\ file[j].eid \notin a)
    <3> HIDE DEF a, n
    <3> QED BY <1>2, <1>4, <2>1, KeysTell
  <2>3. file[j].eid \in Ids => file[j].eid \in a
    BY <1>2, <1>6, <2>1, <2>2, AmbiguousIs
  <2> QED BY <2>1, <2>2, <2>3
<1> QED BY <1>5, <1>6

LEMMA NoImportIsNone ==
    /\ NoImport.before \in Seq(SiteRow) /\ NoImport.after \in Seq(SiteRow)
    /\ Len(NoImport.before) <= Len(NoImport.after)
<1>1. NoImport.before = <<>> /\ NoImport.after = <<>>
  BY DEF NoImport
<1>2. <<>> \in Seq(SiteRow) /\ Len(<<>>) = 0
  OBVIOUS
<1> QED BY <1>1, <1>2

\* The register is a sequence of sites, and so is what an import makes of it, which
\* is never shorter.
RegisterInv ==
    /\ sites \in Seq(SiteRow) /\ edits \in Nat
    /\ \A c \in Clerks : /\ imports[c].before \in Seq(SiteRow) /\ imports[c].after \in Seq(SiteRow)
                         /\ Len(imports[c].before) <= Len(imports[c].after)
    /\ DOMAIN imports = Clerks

LEMMA RegisterInvInit == ASSUME RegisterInit PROVE RegisterInv
<1>1. <<>> \in Seq(SiteRow)
  OBVIOUS
<1> QED BY <1>1, NoImportIsNone DEF RegisterInit, RegisterInv

LEMMA EditPreserves ==
    ASSUME RegisterInv, NEW table \in Seq(SiteRow), Edited(table)
    PROVE  RegisterInv'
  BY DEF RegisterInv, Edited

LEMMA CommitImportPreserves ==
    ASSUME RegisterInv, NEW c \in Clerks, CommitImport(c)
    PROVE  RegisterInv'
<1> DEFINE before == imports[c].before
           after == imports[c].after
           kept == [i \in DOMAIN sites |-> IF i \in DOMAIN before THEN Overlaid(sites[i], before[i], after[i])
                                           ELSE sites[i]]
           added == SubSeq(after, Len(before) + 1, Len(after))
<1>1. sites \in Seq(SiteRow) /\ before \in Seq(SiteRow) /\ after \in Seq(SiteRow) /\ Len(before) <= Len(after)
  BY DEF RegisterInv
<1>2. /\ Len(before) \in Nat /\ Len(after) \in Nat /\ Len(sites) \in Nat
      /\ DOMAIN sites = 1 .. Len(sites) /\ DOMAIN before = 1 .. Len(before) /\ DOMAIN after = 1 .. Len(after)
      /\ \A i \in DOMAIN sites : sites[i] \in SiteRow
      /\ \A i \in DOMAIN before : before[i] \in SiteRow
      /\ \A i \in DOMAIN after : after[i] \in SiteRow
  <2> HIDE DEF before, after
  <2> QED BY <1>1, TableFacts
<1>3. ASSUME NEW now \in SiteRow, NEW was \in SiteRow, NEW new \in SiteRow
      PROVE  Overlaid(now, was, new) \in SiteRow
  <2>1. [f \in DOMAIN now.row |-> IF new.row[f] # was.row[f] THEN new.row[f] ELSE now.row[f]] \in FileRow
    BY DEF SiteRow, FileRow
  <2>2. (IF new.active # was.active THEN new.active ELSE now.active) \in BOOLEAN
    BY DEF SiteRow
  <2> QED BY <2>1, <2>2 DEF Overlaid, SiteRow
<1>4. kept \in Seq(SiteRow)
  <2>1. \A i \in DOMAIN before : i \in DOMAIN after
    <3> HIDE DEF before, after
    <3> QED BY <1>1, <1>2
  <2>2. \A i \in 1 .. Len(sites) : kept[i] \in SiteRow
    <3> HIDE DEF before, after
    <3> QED BY <1>2, <1>3, <2>1
  <2>3. kept \in [1 .. Len(sites) -> SiteRow]
    <3>1. DOMAIN kept = 1 .. Len(sites) /\ kept = [i \in DOMAIN kept |-> kept[i]]
      BY <1>2
    <3> HIDE DEF kept
    <3> QED BY <2>2, <3>1
  <2> HIDE DEF kept
  <2> QED BY <1>2, <2>3, SeqDef
<1>5. added \in Seq(SiteRow)
  <2>1. \A i \in Len(before) + 1 .. Len(after) : after[i] \in SiteRow
    <3> HIDE DEF before, after
    <3> QED BY <1>2
  <2>2. Len(before) + 1 \in Int /\ Len(after) \in Int
    <3> HIDE DEF before, after
    <3> QED BY <1>2
  <2> HIDE DEF before, after
  <2> QED BY <2>1, <2>2, SubSeqProperties
<1>6. sites' = kept \o added
  BY DEF CommitImport
<1>7. sites' \in Seq(SiteRow)
  <2> HIDE DEF kept, added
  <2> QED BY <1>4, <1>5, <1>6, ConcatProperties
<1>8. imports' = [imports EXCEPT ![c] = NoImport] /\ edits' = edits
  BY DEF CommitImport
<1> QED BY <1>7, <1>8, NoImportIsNone DEF RegisterInv

LEMMA StartImportPreserves ==
    ASSUME RegisterInv, NEW c \in Clerks, NEW file \in Files, StartImport(c, file)
    PROVE  RegisterInv'
<1> DEFINE after == Imported(file, sites)
<1>1. file \in Seq(FileRow) /\ sites \in Seq(SiteRow)
  BY RegisterAssumption DEF RegisterInv
<1>2. PICK w : after = w.table /\ Working(w, file, sites, Ambiguous(file, sites), Len(file))
  BY <1>1, ImportedIs
<1>3. after \in Seq(SiteRow) /\ Len(sites) <= Len(after)
  BY <1>2 DEF Working
<1> HIDE DEF after
<1>4. imports' = [imports EXCEPT ![c] = [before |-> sites, after |-> after]] /\ sites' = sites /\ edits' = edits + 1
  BY DEF StartImport, after
<1> QED BY <1>1, <1>3, <1>4 DEF RegisterInv

LEMMA RegisterInvNext == ASSUME RegisterInv, [RegisterNext]_registerVars PROVE RegisterInv'
<1>0. /\ sites \in Seq(SiteRow)
      /\ Len(sites) \in Nat /\ DOMAIN sites = 1 .. Len(sites) /\ \A i \in DOMAIN sites : sites[i] \in SiteRow
  BY TableFacts DEF RegisterInv
<1>1. ASSUME NEW c \in Clerks, RollBackImport(c) PROVE RegisterInv'
  BY <1>1, NoImportIsNone DEF RegisterInv, RollBackImport
<1>2. ASSUME NEW row \in Typed, CreateSite(row) PROVE RegisterInv'
  <2>1. Stored(row) \in SiteRow
    BY RegisterAssumption DEF Stored, SiteRow
  <2>2. Append(sites, Stored(row)) \in Seq(SiteRow)
    BY <1>0, <2>1
  <2> QED BY <1>2, <2>2, EditPreserves DEF CreateSite
<1>3. ASSUME NEW row \in Typed, NEW i \in DOMAIN sites, UpdateSite(i, row) PROVE RegisterInv'
  <2>1. [sites[i] EXCEPT !.row = row] \in SiteRow
    BY <1>0, RegisterAssumption DEF SiteRow
  <2>2. [sites EXCEPT ![i] = [sites[i] EXCEPT !.row = row]] \in Seq(SiteRow)
    BY <1>0, <2>1, ExceptSeq
  <2>3. [sites EXCEPT ![i].row = row] = [sites EXCEPT ![i] = [sites[i] EXCEPT !.row = row]]
    OBVIOUS
  <2> QED BY <1>3, <2>2, <2>3, EditPreserves DEF UpdateSite
<1>4. ASSUME NEW i \in DOMAIN sites, DeleteSite(i) PROVE RegisterInv'
  <2>1. [sites[i] EXCEPT !.active = FALSE] \in SiteRow
    BY <1>0 DEF SiteRow
  <2>2. [sites EXCEPT ![i] = [sites[i] EXCEPT !.active = FALSE]] \in Seq(SiteRow)
    BY <1>0, <2>1, ExceptSeq
  <2>3. [sites EXCEPT ![i].active = FALSE] = [sites EXCEPT ![i] = [sites[i] EXCEPT !.active = FALSE]]
    OBVIOUS
  <2> QED BY <1>4, <2>2, <2>3, EditPreserves DEF DeleteSite
<1>5. CASE UNCHANGED registerVars
  BY <1>5 DEF RegisterInv, registerVars
<1>6. CASE RegisterNext
  BY <1>1, <1>2, <1>3, <1>4, <1>6, CommitImportPreserves, StartImportPreserves DEF RegisterNext
<1> QED BY <1>5, <1>6

LEMMA DoublesAreReported == ASSUME RegisterInv PROVE DoubledSiteIsReported
<1>1. /\ sites \in Seq(SiteRow) /\ IsFiniteSet(DOMAIN sites)
      /\ \A i \in DOMAIN sites : sites[i].row \in FileRow
  BY TableFacts DEF RegisterInv
<1>2. DOMAIN ActiveRows \subseteq DOMAIN sites /\ \A i \in DOMAIN ActiveRows : ActiveRows[i] \in FileRow
  BY <1>1 DEF ActiveRows
<1>3. IsFiniteSet(DOMAIN ActiveRows)
  BY <1>1, <1>2, FS_Subset
<1>4. ASSUME NEW i \in DOMAIN ActiveRows, NEW j \in DOMAIN ActiveRows, i # j,
             ActiveRows[i].name = ActiveRows[j].name
      PROVE  \/ ActiveRows[i].name \in DuplicateLocations(ActiveRows)
             \/ ActiveRows[i].eid \in SharedIds(ActiveRows)
  <2>1. ActiveRows[i].name \in Names /\ ActiveRows[i].eid \in Ids \cup {NoId}
    BY <1>2 DEF FileRow
  <2>2. CASE ActiveRows[i].eid # ActiveRows[j].eid \/ ActiveRows[i].eid = NoId
    BY <1>4, <2>1, <2>2 DEF DuplicateLocations
  <2>3. CASE ActiveRows[i].eid = ActiveRows[j].eid /\ ActiveRows[i].eid \in Ids
    <3>1. Uses(ActiveRows[i].eid, ActiveRows) > 1
      BY <1>3, <1>4, <2>3, UsedTwice
    <3> QED BY <2>3, <3>1 DEF SharedIds
  <2> QED BY <2>1, <2>2, <2>3
<1> QED BY <1>4 DEF DoubledSiteIsReported

LEMMA RegisterHolds == ASSUME RegisterInv PROVE RegisterIsConsistent
<1>1. ReuploadChangesNothing
  <2> SUFFICES ASSUME NEW file \in Files
               PROVE  /\ Distinct(sites) => Imported(file, Imported(file, sites)) = Imported(file, sites)
                      /\ \A i \in DOMAIN file :
                          \/ Stored(file[i]) \in Range(Imported(file, sites))
                          \/ \E j \in i + 1 .. Len(file) : file[j].eid = file[i].eid /\ file[j].name = file[i].name
    BY DEF ReuploadChangesNothing, Distinct
  <2>1. file \in Seq(FileRow) /\ sites \in Seq(SiteRow)
    BY RegisterAssumption DEF RegisterInv
  <2> QED BY <2>1, SecondUploadIsIdle, FileIsStored
<1> QED BY <1>1, DoublesAreReported DEF RegisterIsConsistent

\* api/routes/sites.py: after any imports, edits and half-done imports, sending a file
\* twice does what sending it once does, and the audit reports every site entered twice.
THEOREM RegisterStaysConsistent == RegisterSpec => []RegisterIsConsistent
  BY RegisterInvInit, RegisterInvNext, RegisterHolds, PTL DEF RegisterSpec
-----------------------------------------------------------------------------
(* Readers *)

\* Going through a list row by row is well defined, and keeps only rows of the set.
LEMMA MeetingIs ==
    ASSUME NEW S, NEW s \in Seq(S), NEW set
    PROVE  Meeting(s, set) \in Seq(S \cap set)
<1> DEFINE row(n, before) == IF s[n] \in set THEN Append(before, s[n]) ELSE before
           Loop(n, f) == f = [m \in 0 .. n |-> IF m = 0 THEN <<>> ELSE row(m, f[m - 1])]
           bad == {n \in 0 .. Len(s) : ~ \E f : Loop(n, f)}
           bound == Len(s)
<1>0. bound \in Nat /\ \A m \in 1 .. bound : s[m] \in S
  BY LenProperties, ElementOfSeq
<1>1. bad = {}
  <2> SUFFICES ASSUME bad # {} PROVE FALSE
    OBVIOUS
  <2>1. PICK n \in bad : \A m \in bad : n <= m
    <3>1. bad \subseteq Nat
      BY <1>0
    <3> HIDE DEF bad
    <3> QED BY <3>1, LeastOfSome
  <2>2. n # 0
    <3>1. Loop(0, [m \in 0 .. 0 |-> <<>>])
      OBVIOUS
    <3> QED BY <2>1, <3>1
  <2>3. n \in Nat /\ n \in 0 .. bound /\ n - 1 \in 0 .. bound /\ n - 1 \in Nat
    BY <1>0, <2>2
  <2>4. n - 1 \notin bad
    <3> HIDE DEF bad
    <3> QED BY <2>1, <2>3
  <2>5. PICK f : Loop(n - 1, f)
    BY <2>3, <2>4
  <2> DEFINE g == [m \in 0 .. n |-> IF m = n THEN row(n, f[n - 1]) ELSE f[m]]
  <2>6. ASSUME NEW m \in 0 .. n PROVE g[m] = IF m = 0 THEN <<>> ELSE row(m, g[m - 1])
    <3>1. CASE m = n
      <4>1. g[n - 1] = f[n - 1] /\ g[n] = row(n, f[n - 1])
        BY <2>3
      <4> QED BY <2>2, <3>1, <4>1
    <3>2. CASE m # n
      <4>1. m \in 0 .. n - 1 /\ (m # 0 => m - 1 \in 0 .. n /\ m - 1 # n)
        BY <2>3, <2>6, <3>2
      <4>2. f[m] = IF m = 0 THEN <<>> ELSE row(m, f[m - 1])
        BY <2>5, <4>1
      <4> QED BY <3>2, <4>1, <4>2
    <3> QED BY <3>1, <3>2
  <2>7. Loop(n, g)
    <3> HIDE DEF row
    <3>1. g = [m \in 0 .. n |-> g[m]]
      OBVIOUS
    <3> HIDE DEF g
    <3> QED BY <2>6, <3>1
  <2> HIDE DEF Loop, g
  <2> QED BY <2>1, <2>7
<1> DEFINE loop == CHOOSE f : Loop(bound, f)
<1>2. Loop(bound, loop)
  <2>1. \E f : Loop(bound, f)
    <3>1. bound \in 0 .. bound
      BY <1>0
    <3> HIDE DEF Loop
    <3> QED BY <1>1, <3>1
  <2> HIDE DEF Loop
  <2> QED BY <2>1
<1>3. Meeting(s, set) = loop[bound]
  BY DEF Meeting
<1> HIDE DEF loop
<1>4. \A n \in 0 .. bound : loop[n] = IF n = 0 THEN <<>> ELSE row(n, loop[n - 1])
  <2> HIDE DEF row
  <2> QED BY <1>2
<1> DEFINE wrong == {n \in 0 .. bound : loop[n] \notin Seq(S \cap set)}
<1>5. wrong = {}
  <2> SUFFICES ASSUME wrong # {} PROVE FALSE
    OBVIOUS
  <2> HIDE DEF Loop
  <2>1. PICK n \in wrong : \A m \in wrong : n <= m
    <3>1. wrong \subseteq Nat
      BY <1>0
    <3> HIDE DEF wrong
    <3> QED BY <3>1, LeastOfSome
  <2>2. n # 0
    <3>1. loop[0] = <<>> /\ 0 \in 0 .. bound /\ <<>> \in Seq(S \cap set)
      BY <1>0, <1>4
    <3> QED BY <2>1, <3>1
  <2>3. n \in Nat /\ n \in 1 .. bound /\ n - 1 \in 0 .. bound /\ n \in 0 .. bound
    BY <1>0, <2>2
  <2>4. loop[n - 1] \in Seq(S \cap set)
    <3>1. n - 1 \notin wrong
      <4> HIDE DEF wrong
      <4> QED BY <2>1, <2>3
    <3> QED BY <2>3, <3>1
  <2>5. loop[n] = row(n, loop[n - 1])
    BY <1>4, <2>2, <2>3
  <2>6. \A q \in Seq(S \cap set), x \in S \cap set : Append(q, x) \in Seq(S \cap set)
    OBVIOUS
  <2>7. row(n, loop[n - 1]) \in Seq(S \cap set)
    BY <1>0, <2>3, <2>4, <2>6
  <2> QED BY <2>1, <2>5, <2>7
<1>6. loop[bound] \in Seq(S \cap set)
  <2>1. bound \in 0 .. bound
    BY <1>0
  <2> HIDE DEF bound
  <2> QED BY <1>5, <2>1
<1> QED BY <1>3, <1>6

LEMMA FirstIs ==
    ASSUME NEW S, NEW s \in Seq(S), NEW n \in Nat
    PROVE  /\ First(n, s) \in Seq(S)
           /\ Len(First(n, s)) = IF n < Len(s) THEN n ELSE Len(s)
           /\ \A i \in 1 .. Len(First(n, s)) : First(n, s)[i] = s[i]
<1> DEFINE top == IF n < Len(s) THEN n ELSE Len(s)
<1>1. Len(s) \in Nat /\ top \in Nat /\ top <= Len(s)
  BY LenProperties
<1>2. \A i \in 1 .. top : s[i] \in S
  BY <1>1, ElementOfSeq
<1>3. /\ SubSeq(s, 1, top) \in Seq(S)
      /\ Len(SubSeq(s, 1, top)) = IF 1 <= top THEN top - 1 + 1 ELSE 0
      /\ \A i \in 1 .. top - 1 + 1 : SubSeq(s, 1, top)[i] = s[1 + i - 1]
  <2> HIDE DEF top
  <2> QED BY <1>1, <1>2, SubSeqProperties
<1>4. First(n, s) = SubSeq(s, 1, top)
  BY DEF First
<1>5. Len(SubSeq(s, 1, top)) = top /\ \A i \in 1 .. top : SubSeq(s, 1, top)[i] = s[i]
  <2> HIDE DEF top
  <2> QED BY <1>1, <1>3
<1> HIDE DEF top
<1>6. First(n, s) \in Seq(S) /\ Len(First(n, s)) = top /\ \A i \in 1 .. top : First(n, s)[i] = s[i]
  BY <1>3, <1>4, <1>5
<1> QED BY <1>6 DEF top

\* The first few are a beginning of the first more.
LEMMA FirstIsPrefix ==
    ASSUME NEW S, NEW s \in Seq(S), NEW m \in Nat, NEW n \in Nat, m <= n
    PROVE  IsPrefix(First(m, s), First(n, s))
<1> DEFINE a == First(m, s)
           b == First(n, s)
<1>1. /\ a \in Seq(S) /\ Len(a) = (IF m < Len(s) THEN m ELSE Len(s))
      /\ \A i \in 1 .. Len(a) : a[i] = s[i]
  BY FirstIs
<1>2. /\ b \in Seq(S) /\ Len(b) = (IF n < Len(s) THEN n ELSE Len(s))
      /\ \A i \in 1 .. Len(b) : b[i] = s[i]
  BY FirstIs
<1>3. Len(s) \in Nat
  BY LenProperties
<1> HIDE DEF a, b
<1>4. Len(a) \in Nat /\ Len(b) \in Nat /\ Len(a) <= Len(b)
  BY <1>1, <1>2, <1>3
<1>5. \A i \in 1 .. Len(a) : a[i] \in S /\ b[i] \in S /\ a[i] = b[i]
  BY <1>1, <1>2, <1>4, ElementOfSeq
<1> DEFINE x == SubSeq(a, 1, Len(a))
           y == SubSeq(b, 1, Len(a))
<1>6. x \in Seq(S) /\ Len(x) = (IF 1 <= Len(a) THEN Len(a) - 1 + 1 ELSE 0)
      /\ \A i \in 1 .. Len(a) - 1 + 1 : x[i] = a[1 + i - 1]
  BY <1>4, <1>5, SubSeqProperties
<1>7. y \in Seq(S) /\ Len(y) = (IF 1 <= Len(a) THEN Len(a) - 1 + 1 ELSE 0)
      /\ \A i \in 1 .. Len(a) - 1 + 1 : y[i] = b[1 + i - 1]
  BY <1>4, <1>5, SubSeqProperties
<1> HIDE DEF x, y
<1>8. Len(x) = Len(a) /\ Len(y) = Len(a) /\ \A i \in 1 .. Len(x) : x[i] = y[i]
  BY <1>4, <1>5, <1>6, <1>7
<1>9. x = y
  BY <1>6, <1>7, <1>8, SeqEqual
<1> QED BY <1>4, <1>9 DEF IsPrefix, a, b, x, y

\* The order of the events and the cached list name events only.
ReadersInv == ranking \in Seq(Reports) /\ segment \in Seq(Reports)

LEMMA ReadersInvInit == ASSUME ReadersInit PROVE ReadersInv
<1>1. IsFiniteSet(Reports)
  BY ReadersAssumption
<1>2. Cardinality(Reports) \in Nat /\ ExistsBijection(1 .. Cardinality(Reports), Reports)
  BY <1>1, FS_CardinalityType
<1>3. \E f \in [1 .. Cardinality(Reports) -> Reports] : IsInjective(f)
  BY <1>2 DEF ExistsBijection, Bijection, Injection, IsInjective
<1>4. SetToSeq(Reports) \in [1 .. Cardinality(Reports) -> Reports]
  BY <1>3 DEF SetToSeq
<1>5. SetToSeq(Reports) \in Seq(Reports)
  BY <1>2, <1>4, SeqDef
<1>6. <<>> \in Seq(Reports)
  OBVIOUS
<1> QED BY <1>5, <1>6 DEF ReadersInit, ReadersInv

LEMMA ReadersInvNext == ASSUME ReadersInv, [ReadersNext]_readersVars PROVE ReadersInv'
<1>1. CASE RebuildFeed
  <2> DEFINE set == {e \in Reports : status[e].mapped /\ ~status[e].resolved}
  <2>1. PICK s \in SetToSeqs(set) : segment' = First(CacheSize, s) /\ ranking' = ranking
    BY <1>1 DEF RebuildFeed
  <2>2. IsFiniteSet(set)
    <3>1. set \in SUBSET Reports
      OBVIOUS
    <3> HIDE DEF set
    <3> QED BY <3>1, ReadersAssumption, FS_Subset
  <2>3. s \in [1 .. Cardinality(set) -> set] /\ Cardinality(set) \in Nat
    <3> HIDE DEF set
    <3> QED BY <2>1, <2>2, FS_CardinalityType DEF SetToSeqs
  <2>4. s \in [1 .. Cardinality(set) -> Reports]
    BY <2>3
  <2>5. s \in Seq(Reports)
    <3> HIDE DEF set
    <3> QED BY <2>3, <2>4, SeqDef
  <2>6. First(CacheSize, s) \in Seq(Reports)
    BY <2>5, ReadersAssumption, FirstIs
  <2> QED BY <2>1, <2>6 DEF ReadersInv
<1>2. ASSUME NEW e \in Reports, NEW suppress \in BOOLEAN, Override(e, suppress) PROVE ReadersInv'
  <2>1. Meeting(ranking, Reports \ {e}) \in Seq(Reports)
    <3>1. Meeting(ranking, Reports \ {e}) \in Seq(Reports \cap (Reports \ {e}))
      BY MeetingIs DEF ReadersInv
    <3>2. Reports \cap (Reports \ {e}) \subseteq Reports
      OBVIOUS
    <3> QED BY <3>1, <3>2, SeqMonotonic
  <2>2. <<e>> \in Seq(Reports)
    OBVIOUS
  <2>3. <<e>> \o Meeting(ranking, Reports \ {e}) \in Seq(Reports)
    BY <2>1, <2>2, ConcatProperties
  <2> QED BY <1>2, <2>3 DEF ReadersInv, Override
<1>3. CASE UNCHANGED <<ranking, segment>>
  BY <1>3 DEF ReadersInv
<1>4. CASE UNCHANGED readersVars
  BY <1>3, <1>4 DEF readersVars
<1>5. CASE Resynthesize
  BY <1>3, <1>5 DEF Resynthesize
<1>6. ASSUME NEW e \in Reports PROVE
          /\ \A p \in Publishers, l \in Labels : GetsArticle(e, p, l) => ReadersInv'
          /\ LosesArticles(e) => ReadersInv'
          /\ Sets(e, "merged") \/ Sets(e, "resolved") => ReadersInv'
          /\ \A thin \in BOOLEAN : IsMapped(e, thin) => ReadersInv'
  BY <1>3 DEF GetsArticle, LosesArticles, Sets, IsMapped
<1> QED BY <1>1, <1>2, <1>4, <1>5, <1>6 DEF ReadersNext

\* What the label calls severed is what the predicate leaves out.
LEMMA GatedIsLabelled ==
    ASSUME NEW e \in Reports, Gated(e)
    PROVE  ~status[e].merged /\ EvidenceLabel(e) # "severed"
<1>1. CASE papers[e] # {}
  <2>1. Outlets(e) # {}
    BY <1>1 DEF Outlets
  <2> QED BY <2>1 DEF Gated, EvidenceLabel
<1>2. CASE papers[e] = {}
  BY <1>2 DEF Gated, EvidenceLabel, Evidenced
<1> QED BY <1>1, <1>2

LEMMA ReadersHold == ASSUME ReadersInv PROVE OneRuleOnEveryRoute
<1> DEFINE gated == {e \in Reports : Gated(e)}
           served == {e \in Reports : status[e].mapped /\ Gated(e)}
           cached == Meeting(segment, gated)
<1>1. cached \in Seq(gated)
  <2>1. cached \in Seq(Reports \cap gated) /\ Reports \cap gated \subseteq gated
    <3> HIDE DEF gated
    <3> QED BY MeetingIs DEF ReadersInv
  <2> HIDE DEF gated, cached
  <2> QED BY <2>1, SeqMonotonic
<1>2. Ranked \in Seq(gated)
  <2>1. Ranked \in Seq(Reports \cap served)
    <3>1. Ranked = Meeting(ranking, served)
      BY DEF Ranked
    <3> HIDE DEF served
    <3> QED BY <3>1, MeetingIs DEF ReadersInv
  <2>2. Reports \cap served \subseteq gated
    OBVIOUS
  <2> HIDE DEF gated, served
  <2> QED BY <2>1, <2>2, SeqMonotonic
<1>3. FreeSize \in Nat /\ PaidSize \in Nat /\ FreeSize <= PaidSize
  BY ReadersAssumption
<1>4. \A tier : Limit(tier) \in Nat
  BY <1>3 DEF Limit
<1>5. \A tier : /\ EventList(tier) = First(Limit(tier), Ranked)
                /\ Feed(tier) = First(Limit(tier), IF segment = <<>> THEN Ranked ELSE cached)
  BY DEF EventList, Feed, CachedFeed
<1> DEFINE fed == IF segment = <<>> THEN Ranked ELSE cached
<1>6. fed \in Seq(gated)
  <2> HIDE DEF gated, cached
  <2> QED BY <1>1, <1>2
<1>7. \A tier : EventList(tier) \in Seq(gated) /\ Feed(tier) \in Seq(gated)
  <2> HIDE DEF gated, fed
  <2> QED BY <1>2, <1>4, <1>5, <1>6, FirstIs DEF fed
<1>8. ASSUME NEW tier, NEW e \in Shown(tier) PROVE e \in gated
  <2>1. \A q \in Seq(gated) : Range(q) \subseteq gated
    <3> HIDE DEF gated
    <3> QED BY LenProperties, ElementOfSeq DEF Range
  <2> HIDE DEF gated
  <2> QED BY <1>7, <1>8, <2>1 DEF Shown
<1>9. \A tier : \A e \in Shown(tier) : ~status[e].merged /\ EvidenceLabel(e) # "severed"
  BY <1>8, GatedIsLabelled
<1>10. IsPrefix(Feed("free"), Feed("paid")) /\ IsPrefix(EventList("free"), EventList("paid"))
  <2>1. Limit("free") = FreeSize /\ Limit("paid") = PaidSize
    BY DEF Limit
  <2> HIDE DEF gated, fed
  <2>2. IsPrefix(First(FreeSize, fed), First(PaidSize, fed))
    BY <1>3, <1>6, FirstIsPrefix
  <2>3. IsPrefix(First(FreeSize, Ranked), First(PaidSize, Ranked))
    BY <1>2, <1>3, FirstIsPrefix
  <2>4. Feed("free") = First(FreeSize, fed) /\ Feed("paid") = First(PaidSize, fed)
    BY <1>5, <2>1 DEF fed
  <2>5. EventList("free") = First(FreeSize, Ranked) /\ EventList("paid") = First(PaidSize, Ranked)
    BY <1>5, <2>1
  <2> QED BY <2>2, <2>3, <2>4, <2>5
<1> QED BY <1>9, <1>10 DEF OneRuleOnEveryRoute

\* consequence_engine/evidence.py: over any caches, rankings and changes underneath
\* them, no route shows an event that is folded away or severed, and a free reader
\* sees a beginning of what a paying one sees.
THEOREM RoutesShareOneRule == ReadersSpec => []OneRuleOnEveryRoute
  BY ReadersInvInit, ReadersInvNext, ReadersHold, PTL DEF ReadersSpec
=============================================================================
