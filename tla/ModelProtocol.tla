--------------------------- MODULE ModelProtocol ---------------------------
(* The conversation of one execution with its model.  The transcript is kept *)
(* in one internal form; each turn it is checked and converted to the form   *)
(* of the endpoint that will answer (model_protocol), the answer is parsed   *)
(* back (model_client) and recorded as a decision, and its tool calls run    *)
(* one after the other, each with the arguments stored under its id.         *)
(*                                                                           *)
(* A message is a role and a sequence of blocks: a text, a tool call or the  *)
(* result of one.  A text may hold tool calls written as XML: it is then the *)
(* sequence of their actions.                                                *)
EXTENDS Naturals, FiniteSets, SequencesExt

CONSTANTS
    Ids,            \* ids a provider gives to tool calls
    Actions,        \* a tool with its arguments
    Respond,        \* the action of respond_directly
    Broken,         \* an action whose arguments are not JSON
    NoArguments,    \* a call parsed without its arguments
    NoName,         \* a call parsed without its name
    XmlIds,         \* xml_0, xml_1, ...: ids of calls found in a text
    None,
    Formats,        \* api formats of the endpoints of the fallback group
    Openings,       \* transcripts the context assembly starts with
    ToolFirst,      \* main_protocol = tool_first_v1
    Stream,         \* the request asks for a stream
    Repeats,        \* the provider may repeat an id in one answer
    XmlTexts,       \* the provider may write calls as text
    MaxCalls, MaxTurns

ProtocolAssumption ==
    /\ Formats \subseteq {"openai", "anthropic"} /\ Formats # {}
    /\ {ToolFirst, Stream, Repeats, XmlTexts} \subseteq BOOLEAN
    /\ {MaxCalls, MaxTurns} \subseteq Nat
    /\ Respond \in Actions /\ {NoArguments, NoName} \cap Actions = {}
    /\ Len(XmlIds) >= 2 /\ IsInjective(XmlIds) /\ Range(XmlIds) \cap Ids = {}

VARIABLES
    transcript,     \* agent transcript, the messages of its events
    turn,
    status,         \* deciding, executing, succeeded, failed
    calls,          \* tool calls of the recorded decision not yet run
    table,          \* tool_call_arguments of the recorded decision
    operations,     \* completed tool operations, by turn and id
    ran,            \* effects: turn, id, action that ran
    asked           \* answers: turn, calls of the provider, calls in its text

vars == <<transcript, turn, status, calls, table, operations, ran, asked>>

Text(x) == [type |-> "text", calls |-> x]
Use(i, a) == [type |-> "tool_use", id |-> i, action |-> a]
ToolResult(i) == [type |-> "tool_result", id |-> i]
Message(role, blocks) == [role |-> role, blocks |-> blocks]

Of(type, blocks) == SelectSeq(blocks, LAMBDA b : b.type = type)
IdsOf(blocks) == {blocks[i].id : i \in DOMAIN blocks}
Texts(blocks) == Of("text", blocks)

-----------------------------------------------------------------------------
(* The provider's form of a transcript.                                      *)

(* The messages one message stands for: a user message that carries tool     *)
(* results is one message per result, then what is left of it.               *)
Flat(m) ==
    IF m.role = "user"
    THEN LET rest == SelectSeq(m.blocks, LAMBDA b : b.type # "tool_result")
             results == Of("tool_result", m.blocks)
         IN [i \in 1..Len(results) |-> Message("tool", <<results[i]>>)]
            \o (IF rest = <<>> THEN <<>> ELSE <<Message("user", rest)>>)
    ELSE IF m.role = "assistant"
    THEN <<Message("assistant", Texts(m.blocks) \o Of("tool_use", m.blocks))>>
    ELSE <<m>>

(* A call without an id or a name is refused.                                *)
CallValid(b) == b.id # None /\ b.action # NoName

(* append: a result answers a pending call, anything else needs none pending *)
AppendMessage(state, m) ==
    LET uses == Of("tool_use", m.blocks)
        ids == IdsOf(uses)
        ok == IF m.role = "tool" THEN m.blocks[1].id \in state.pending
              ELSE /\ state.pending = {}
                   /\ \A i \in DOMAIN uses : CallValid(uses[i])
                   /\ Cardinality(ids) = Len(uses)
    IN [ok |-> state.ok /\ ok,
        pending |-> IF m.role = "tool" THEN state.pending \ IdsOf(m.blocks) ELSE ids,
        out |-> Append(state.out, m)]

OpenAIState(messages) ==
    FoldLeft(AppendMessage, [ok |-> TRUE, pending |-> {}, out |-> <<>>],
             FlattenSeq([i \in DOMAIN messages |-> Flat(messages[i])]))

(* The transcript can be sent.                                               *)
Sendable(messages) ==
    OpenAIState(messages).ok /\ OpenAIState(messages).pending = {}

OpenAIMessages(messages) == OpenAIState(messages).out

(* Consecutive messages of one role become one, a tool result is the user's. *)
MergeMessage(out, m) ==
    LET role == IF m.role = "tool" THEN "user" ELSE m.role
    IN IF out # <<>> /\ Last(out).role = role
       THEN Append(Front(out), Message(role, Last(out).blocks \o m.blocks))
       ELSE Append(out, Message(role, m.blocks))

AnthropicMessages(messages) ==
    FoldLeft(MergeMessage, <<>>,
             SelectSeq(OpenAIMessages(messages), LAMBDA m : m.role # "system"))

-----------------------------------------------------------------------------
(* The provider's answer: texts, then calls.                                 *)

AnswerTexts(f) ==
    {<<>>, <<Text(<<>>)>>}
    \cup (IF f = "anthropic" THEN {<<Text(<<>>), Text(<<>>)>>} ELSE {})
    \cup (IF XmlTexts THEN {<<Text(x)>> : x \in UNION {[1..n -> Actions] : n \in 1..2}}
                      ELSE {})

AnswerCalls ==
    UNION {{[i \in 1..n |-> Use(ids[i], acts[i])] :
              ids \in {s \in [1..n -> Ids] : Repeats \/ IsInjective(s)},
              acts \in [1..n -> Actions]} : n \in 0..MaxCalls}

(* Arguments that are no JSON are read as none.                              *)
Arguments(a) == IF a = Broken THEN NoArguments ELSE a

(* Calls written in a text get their place in it as id.                      *)
XmlCalls(text) ==
    [i \in DOMAIN text.calls |-> Use(XmlIds[i], text.calls[i])]

(* An Anthropic answer is reduced to its last text.                          *)
KeptTexts(f, texts) == IF f = "anthropic" /\ texts # <<>> THEN <<Last(texts)>> ELSE texts

(* The text is searched for calls only when the answer has no other.         *)
ParseAnswer(f, texts, uses) ==
    LET kept == KeptTexts(f, texts)
        found == IF uses = <<>> /\ kept # <<>> THEN XmlCalls(kept[1]) ELSE <<>>
    IN IF found # <<>> THEN [texts |-> <<>>, calls |-> found]
       ELSE [texts |-> kept,
             calls |-> [i \in DOMAIN uses |-> Use(uses[i].id, Arguments(uses[i].action))]]

(* A streamed call whose name and arguments come in several events: every    *)
(* event sets the name again, and arguments are read event by event.         *)
ParseOpenAIStream(texts, uses, split) ==
    [texts |-> texts,
     calls |-> [i \in DOMAIN uses |->
                  Use(uses[i].id, IF i \in split THEN NoName ELSE Arguments(uses[i].action))]]

(* The arguments of a streamed tool_use block are dropped.                   *)
ParseAnthropicStream(texts, uses) ==
    [texts |-> texts, calls |-> [i \in DOMAIN uses |-> Use(uses[i].id, NoArguments)]]

Parse(f, texts, uses, split) ==
    IF ~Stream THEN ParseAnswer(f, texts, uses)
    ELSE IF f = "openai" THEN ParseOpenAIStream(texts, uses, split)
    ELSE ParseAnthropicStream(texts, uses)

-----------------------------------------------------------------------------
(* Turns.                                                                    *)

FinalOnly == turn > MaxTurns

(* Under tool_first_v1 a turn is one known action, the last turn an answer.  *)
ValidAction(parsed) ==
    /\ Len(parsed.calls) = 1
    /\ parsed.calls[1].action # NoName
    /\ FinalOnly => parsed.calls[1].action = Respond

ActionsById(uses) ==
    [i \in IdsOf(uses) |-> uses[Max({k \in DOMAIN uses : uses[k].id = i})].action]

Init ==
    /\ transcript \in Openings
    /\ turn = 1 /\ status = "deciding"
    /\ calls = <<>> /\ table = <<>> /\ operations = {}
    /\ ran = <<>> /\ asked = <<>>

Hears(uses, texts) ==
    asked' = Append(asked, [turn |-> turn, calls |-> uses,
                            text |-> FlattenSeq([i \in DOMAIN texts |-> texts[i].calls])])

Record(texts, uses) ==
    transcript' = Append(transcript, Message("assistant", texts \o uses))

(* The transcript cannot be sent: the Run fails and is not tried again.      *)
Refuse ==
    /\ status = "deciding" /\ ~Sendable(transcript)
    /\ status' = "failed"
    /\ UNCHANGED <<transcript, turn, calls, table, operations, ran, asked>>

(* model_decision of a Run without the tool-first protocol.                  *)
Decide(f, texts, uses, split) ==
    LET parsed == Parse(f, texts, uses, split)
    IN /\ status = "deciding" /\ Sendable(transcript) /\ ~ToolFirst
       /\ Hears(uses, texts)
       /\ Record(parsed.texts, parsed.calls)
       /\ IF FinalOnly \/ parsed.calls = <<>>
          THEN status' = "succeeded" /\ UNCHANGED <<calls, table>>
          ELSE /\ status' = "executing" /\ calls' = parsed.calls
               /\ table' = ActionsById(parsed.calls)
       /\ UNCHANGED <<turn, operations, ran>>

(* The answer is not exactly one action: none of it runs.                    *)
RejectBatch(f, texts, uses, split) ==
    LET parsed == Parse(f, texts, uses, split)
    IN /\ status = "deciding" /\ Sendable(transcript) /\ ToolFirst
       /\ ~ValidAction(parsed)
       /\ Hears(uses, texts)
       /\ IF FinalOnly
          THEN status' = "failed" /\ UNCHANGED <<transcript, turn>>
          ELSE /\ Record(<<Text(<<>>)>>, <<>>)
               /\ turn' = turn + 1 /\ UNCHANGED status
       /\ UNCHANGED <<calls, table, operations, ran>>

(* One action other than the answer: it is executed like any call.           *)
TakeAction(f, texts, uses, split) ==
    LET parsed == Parse(f, texts, uses, split)
    IN /\ status = "deciding" /\ Sendable(transcript) /\ ToolFirst
       /\ ValidAction(parsed) /\ parsed.calls[1].action # Respond
       /\ Hears(uses, texts)
       /\ Record(parsed.texts, parsed.calls)
       /\ status' = "executing" /\ calls' = parsed.calls
       /\ table' = ActionsById(parsed.calls)
       /\ UNCHANGED <<turn, operations, ran>>

(* respond_directly: its receipt is recorded with the decision; an answer    *)
(* that claims what no receipt proves is returned for another turn.          *)
Answer(f, texts, uses, split, accepted) ==
    LET parsed == Parse(f, texts, uses, split)
    IN /\ status = "deciding" /\ Sendable(transcript) /\ ToolFirst
       /\ ValidAction(parsed) /\ parsed.calls[1].action = Respond
       /\ Hears(uses, texts)
       /\ transcript' = transcript
            \o <<Message("assistant", parsed.texts \o parsed.calls),
                 Message("tool", <<ToolResult(parsed.calls[1].id)>>)>>
       /\ status' = IF accepted THEN "succeeded" ELSE IF FinalOnly THEN "failed" ELSE status
       /\ turn' = IF accepted \/ FinalOnly THEN turn ELSE turn + 1
       /\ UNCHANGED <<calls, table, operations, ran>>

(* Variation: a call is the same operation in every turn.                    *)
OperationOfId(c) == <<1, c.id>>

(* The operation of a tool call.                                             *)
Operation(c) == <<turn, c.id>>

(* A call runs with the arguments found under its id, unless its operation   *)
(* is already complete; the turn ends with its last call.                    *)
Execute ==
    LET c == Head(calls)
    IN /\ status = "executing"
       /\ IF Operation(c) \in operations
          THEN UNCHANGED <<transcript, operations, ran>>
          ELSE /\ transcript' = Append(transcript, Message("tool", <<ToolResult(c.id)>>))
               /\ operations' = operations \cup {Operation(c)}
               /\ ran' = Append(ran, [turn |-> turn, id |-> c.id, action |-> table[c.id]])
       /\ calls' = Tail(calls)
       /\ IF Len(calls) = 1 THEN turn' = turn + 1 /\ status' = "deciding"
                            ELSE UNCHANGED <<turn, status>>
       /\ UNCHANGED <<table, asked>>

Next ==
    \/ Refuse
    \/ Execute
    \/ \E f \in Formats : \E texts \in AnswerTexts(f), uses \in AnswerCalls :
         \E split \in (IF Stream THEN SUBSET DOMAIN uses ELSE {{}}) :
            \/ Decide(f, texts, uses, split)
            \/ RejectBatch(f, texts, uses, split)
            \/ TakeAction(f, texts, uses, split)
            \/ \E accepted \in BOOLEAN : Answer(f, texts, uses, split, accepted)

(* Temporal retries the Activities and runs the workflow on.                 *)
Spec == Init /\ [][Next]_vars /\ WF_vars(Next)

-----------------------------------------------------------------------------
(* Properties.                                                               *)

AllIds == Ids \cup Range(XmlIds)
AllActions == Actions \cup {NoArguments, NoName}

(* Types of the conversation's state.                                        *)
TypeOK ==
    /\ \A i \in DOMAIN transcript :
         transcript[i].role \in {"system", "user", "assistant", "tool"}
    /\ turn \in 1..(MaxTurns + 1)
    /\ status \in {"deciding", "executing", "succeeded", "failed"}
    /\ (calls = <<>>) <=> (status # "executing")
    /\ IdsOf(calls) \subseteq AllIds /\ IdsOf(calls) \subseteq DOMAIN table
    /\ operations \subseteq (1..MaxTurns) \X AllIds
    /\ \A i \in DOMAIN ran : ran[i].action \in AllActions

(* Whatever mix of formats answered, and whether calls came as blocks or as  *)
(* text, the transcript the loop built can be sent to either format: no Run  *)
(* dies on a history of its own making (openai_messages raises on it).       *)
HistoryIsSendable == status = "deciding" => Sendable(transcript)

(* What a message says: who says it and its blocks, one by one.              *)
Said(messages) ==
    FlattenSeq([i \in DOMAIN messages |->
        [k \in DOMAIN messages[i].blocks |->
            [by |-> IF messages[i].role = "tool" THEN "user" ELSE messages[i].role,
             block |-> messages[i].blocks[k]]]])

(* An Anthropic request says what the OpenAI request of the same transcript  *)
(* says, block by block, alternates its roles, and read back as a transcript *)
(* it can be sent again and still says it (anthropic_messages merges turns   *)
(* and turns tool results into user blocks).                                 *)
FormsAgree ==
    status = "deciding" =>
        LET a == AnthropicMessages(transcript)
            o == SelectSeq(OpenAIMessages(transcript), LAMBDA m : m.role # "system")
        IN /\ Said(a) = Said(o)
           /\ \A i \in 1..(Len(a) - 1) : a[i].role # a[i + 1].role
           /\ Sendable(a) /\ Said(OpenAIMessages(a)) = Said(o)

(* The calls of an answer: its blocks, or what its text holds.               *)
AskedActions(answer) ==
    IF answer.calls # <<>>
    THEN [i \in DOMAIN answer.calls |-> Arguments(answer.calls[i].action)]
    ELSE answer.text

RanActions == [i \in DOMAIN ran |-> ran[i].action]

(* Between two turns every call the provider made has run, in its order and  *)
(* with its own arguments, once: ids that come again in a later turn are     *)
(* other operations.                                                         *)
EveryCallRuns ==
    status = "deciding" =>
        RanActions = FlattenSeq([i \in DOMAIN asked |-> AskedActions(asked[i])])

(* A call id has one effect in a turn, even when the provider repeats it.    *)
OneEffectPerId ==
    \A i, k \in DOMAIN ran :
        ran[i].turn = ran[k].turn /\ ran[i].id = ran[k].id => i = k

(* Under tool_first_v1 an answer with several calls has no effect, and it    *)
(* leaves no call without a result in the transcript.                        *)
BatchRunsNothing ==
    /\ \A i \in DOMAIN ran, k \in DOMAIN asked :
         ran[i].turn = asked[k].turn => Len(AskedActions(asked[k])) = 1
    /\ status = "deciding" => Sendable(transcript)

(* Every conversation ends: turns are bounded and a refused one fails.       *)
ConversationEnds == <>(status \in {"succeeded", "failed"})

\* A transcript can be sent, in either form, and each of its calls runs once.
Safety ==
    /\ TypeOK
    /\ HistoryIsSendable
    /\ FormsAgree
    /\ EveryCallRuns
    /\ OneEffectPerId
=============================================================================
