--------------------------- MODULE TurnTranscript ---------------------------
(***************************************************************************)
(* The transcript of one agentic turn: what run_turn (router/src/turn.rs)  *)
(* appends to it, how the copy sent with each round is repaired, and how   *)
(* the three wires (transport_chat.rs, transport_anthropic.rs,             *)
(* transport_responses.rs) render it and read the answer back.  The        *)
(* fallback chain may change the wire between two rounds and within one.   *)
(*                                                                         *)
(* Text is a sequence of tokens, one per message that was written, so that *)
(* joining messages shows.  A request is a sequence of messages            *)
(* [role, parts]; a part is a text, a tool call, a tool result or a block  *)
(* of reasoning.  The items of the Responses wire are messages of one part.*)
(***************************************************************************)
EXTENDS Integers, Sequences, SequencesExt, FiniteSets

CONSTANTS
    Chains,     \* the wires of the fallback chain: sequences of Wire
    Priors,     \* the roles of the earlier messages of the conversation
    Reply,      \* answers of a model: [text, calls, reasoned]; a call is [tool, named, valid]
    MaxRounds,  \* QCUE_TURN_MAX_ROUNDS
    NoId, None

Wire == {"chat", "anthropic", "responses"}
Seam == {"recall", "dream", "digest"}
ToolCall == [tool : STRING, named : BOOLEAN, valid : BOOLEAN]

ReadTools == {"recall_search", "read_page", "read_lines"}
WebTools == {"web_search", "web_fetch"}

ASSUME TranscriptAssumption ==
    /\ Chains \subseteq Seq(Wire) \ {<<>>}
    /\ Priors \subseteq Seq({"user", "assistant"})
    /\ Reply \subseteq [text : BOOLEAN, calls : Seq(ToolCall), reasoned : BOOLEAN]
    /\ MaxRounds \in Nat
    /\ None \notin ReadTools \cup WebTools

VARIABLES
    seam,       \* whose turn: [of, web, effort]
    chain,      \* the wires left, the current one first
    msgs,       \* messages of run_turn
    pc,         \* "ask", "sent", "tools", "done"
    round,      \* completed rounds
    spent,      \* the token budget is used up
    body,       \* the request in flight, see Body
    result,     \* how the turn ended, None before
    thought     \* history: (round, wire) of the replies that carried reasoning

transcriptVars == <<seam, chain, msgs, pc, round, spent, body, result, thought>>

\* The provider_data of an assistant message: under which key it was stored
\* and the rounds whose reasoning it holds.
NoData == [key |-> "none", items |-> <<>>]
Message(role, text) == [role |-> role, text |-> text, calls |-> <<>>, of |-> NoId,
                        tool |-> None, ran |-> None, data |-> NoData]
Fresh == <<Len(msgs) + 1>>

----------------------------------------------------------------------------
(* The copy that is sent.                                                  *)

\* Variant: the copy is the transcript.
NotJoined(out, m) == Append(out, m)

\* Consecutive messages of one role become one; calls and provider_data of
\* the second one are gone.
Joined(out, m) ==
    IF out # <<>> /\ Last(out).role = m.role /\ m.role \in {"user", "assistant"}
    THEN [out EXCEPT ![Len(out)].text = @ \o m.text]
    ELSE Append(out, m)

Ids(m) == {m.calls[i].id : i \in DOMAIN m.calls} \ {NoId}

\* clean_orphan_tool_results: a result stays if an earlier call has its id.
Cleaned(ms) ==
    FoldLeft(LAMBDA out, i :
        IF ms[i].role # "tool" \/ \E j \in 1..i : ms[i].of \in Ids(ms[j])
        THEN Append(out, ms[i]) ELSE out, <<>>, [i \in DOMAIN ms |-> i])

\* build_api_copy: repair_role_alternation on a copy.
ApiCopy(ms) == Cleaned(FoldLeft(Joined, <<>>, ms))

----------------------------------------------------------------------------
(* The wires.                                                              *)

Part(kind, of) == [kind |-> kind, of |-> of]
TextPart(m) == IF m.text = <<>> THEN <<>> ELSE <<Part("text", m.text)>>
CallParts(m) == [i \in DOMAIN m.calls |-> Part("call", m.calls[i].id)]
Reasoning(m, key) == IF m.data.key # key THEN <<>>
                     ELSE [i \in DOMAIN m.data.items |-> Part("reasoning", m.data.items[i])]

\* ChatCompletionsTransport::convert_messages strips the reasoning.
ChatMessage(m) ==
    [role |-> m.role,
     parts |-> IF m.role = "tool" THEN <<Part("result", m.of)>> ELSE TextPart(m) \o CallParts(m)]

\* Variant: every result is a message of its own.
ResultAlone(out, m) == Append(out, [role |-> "user", parts |-> <<Part("result", m.of)>>])

\* Results in a row share one user message.
WithResult(out, m) ==
    IF out # <<>> /\ Last(out).role = "user" /\ Last(out).parts[1].kind = "result"
    THEN [out EXCEPT ![Len(out)].parts = Append(@, Part("result", m.of))]
    ELSE Append(out, [role |-> "user", parts |-> <<Part("result", m.of)>>])

\* AnthropicTransport::convert_messages: the system prompt is hoisted, and no
\* message is left without a block.
AnthropicStep(out, m) ==
    LET parts == Reasoning(m, "thinking") \o TextPart(m) \o CallParts(m) IN
    IF m.role = "tool" THEN WithResult(out, m)
    ELSE Append(out, [role |-> m.role,
                      parts |-> IF parts = <<>> THEN <<Part("text", "(empty)")>> ELSE parts])

\* Variant: the reasoning is dropped.
SilentItems(m) ==
    IF m.role = "tool" THEN <<Part("result", m.of)>>
    ELSE IF m.role = "user" THEN <<Part("text", m.text)>> ELSE TextPart(m) \o CallParts(m)

\* ResponsesTransport::convert_messages: the items a message turns into.
Items(m) ==
    IF m.role = "tool" THEN <<Part("result", m.of)>>
    ELSE IF m.role = "user" THEN <<Part("text", m.text)>>
    ELSE Reasoning(m, "responses_reasoning_items") \o TextPart(m) \o CallParts(m)
ResponsesStep(out, m) ==
    out \o [i \in DOMAIN Items(m) |-> [role |-> m.role, parts |-> <<Items(m)[i]>>]]

Unhoisted(ms) == SelectSeq(ms, LAMBDA m : m.role # "system")

\* build_kwargs of each wire.
ChatRequest(ms) == [i \in DOMAIN ms |-> ChatMessage(ms[i])]
AnthropicRequest(ms) == FoldLeft(AnthropicStep, <<>>, Unhoisted(ms))
ResponsesRequest(ms) == FoldLeft(ResponsesStep, <<>>, Unhoisted(ms))

\* transport_for.
Rendered(wire, ms) ==
    CASE wire = "chat" -> ChatRequest(ms)
      [] wire = "anthropic" -> AnthropicRequest(ms)
      [] wire = "responses" -> ResponsesRequest(ms)

----------------------------------------------------------------------------
(* The tools.                                                              *)

\* live_recall, live_with_tools and live: only recall has the web, and only
\* its tools are executed; a digest asks for no thinking.
Seams == {s \in [of : Seam, web : BOOLEAN, effort : {"minimal", "high"}] :
            /\ s.of # "recall" => ~s.web
            /\ s.of = "digest" => s.effort = "minimal"}
Executes == seam.of = "recall"

\* Variant: the policy advertises the web whatever the kill switch says.
AlwaysWeb == [recall |-> ReadTools \cup WebTools,
              dream |-> ReadTools \cup {"propose_edit", "propose_write"}, digest |-> {}]

\* build_tool_policy as recall_tools_and_web, the Dream agent and live() use it.
Policy == [recall |-> ReadTools \cup (IF seam.web THEN WebTools ELSE {}),
           dream |-> ReadTools \cup {"propose_edit", "propose_write"}, digest |-> {}]
Advertised == Policy[seam.of]

\* What a handler returns for arguments that parse and name something, when
\* what it reaches for answers.  A page that is not there is no error.
Searched(c, works) == IF c.valid /\ works THEN "ok" ELSE "error"
PageRead(c) == IF c.valid THEN "ok" ELSE "error"
Surfed(c, works) ==
    CASE ~seam.web -> "disabled"
      [] c.valid /\ works -> "ok"
      [] OTHER -> "error"

\* ToolExec::call of RecallToolExec.
Executed(c, works) ==
    CASE c.tool = "recall_search" -> Searched(c, works)
      [] c.tool \in {"read_page", "read_lines"} -> PageRead(c)
      [] c.tool \in WebTools -> Surfed(c, works)
      [] OTHER -> "unknown"

\* ToolDispatcher::dispatch for one call: without a handler a stub answers,
\* and an error is a result like any other.
ToolMessage(c, works, n) ==
    [Message("tool", <<n>>) EXCEPT !.of = c.id, !.tool = c.tool,
                               !.ran = IF Executes THEN Executed(c, works) ELSE "stub"]

----------------------------------------------------------------------------
(* The turn.                                                               *)

\* drive: the system prefix, the replayed conversation, the question.
Opening(prior) ==
    LET roles == <<"system">> \o prior \o <<"user">> IN
    [i \in DOMAIN roles |-> Message(roles[i], <<i>>)]

TranscriptInit ==
    /\ seam \in Seams
    /\ chain \in Chains
    /\ \E prior \in Priors : msgs = Opening(prior)
    /\ pc = "ask" /\ round = 0 /\ spent = FALSE
    /\ body = None /\ result = None /\ thought = {}

\* Budget::exhausted.
Exhausted == spent \/ round >= MaxRounds

\* finalize_nudge; the call it asks for ends the turn, so there is only one.
Nudge == Message("user", Fresh)

\* The reasoning hook of the Anthropic profile: thinking is switched on when an
\* effort above minimal is asked for.
Thinks(wire) == wire = "anthropic" /\ seam.effort # "minimal"

\* build_outbound_body: no tools when the turn must answer.
Body(wire, ms, final) ==
    [wire |-> wire, messages |-> Rendered(wire, ApiCopy(ms)),
     tools |-> IF final THEN {} ELSE Advertised,
     thinks |-> Thinks(wire), final |-> final]

Ask ==
    /\ pc = "ask"
    /\ msgs' = IF Exhausted THEN Append(msgs, Nudge) ELSE msgs
    /\ body' = Body(Head(chain), msgs', Exhausted)
    /\ pc' = "sent"
    /\ UNCHANGED <<seam, chain, round, spent, result, thought>>

\* complete() moves to the next link and renders the same copy for it.
Fallback ==
    /\ pc = "sent" /\ Len(chain) > 1
    /\ chain' = Tail(chain)
    /\ body' = Body(Head(chain'), msgs, body.final)
    /\ UNCHANGED <<seam, msgs, pc, round, spent, result, thought>>

End(r) == pc' = "done" /\ result' = r /\ body' = None

\* Cancelled at the top of the loop or in complete(), or out of links.
Abandon ==
    /\ pc \in {"ask", "sent"}
    /\ End("abandoned")
    /\ UNCHANGED <<seam, chain, msgs, round, spent, thought>>

\* What every normalize_response reads: the text and the calls, with the ids
\* the provider gave; n is the round.
Read(r, n) ==
    [Message("assistant", IF r.text THEN Fresh ELSE <<>>) EXCEPT
        !.calls = [i \in DOMAIN r.calls |->
                     [id |-> IF r.calls[i].named THEN <<n, i>> ELSE NoId,
                      tool |-> r.calls[i].tool, valid |-> r.calls[i].valid]]]
Kept(r, n, key) == IF r.reasoned THEN [key |-> key, items |-> <<n>>] ELSE NoData

\* normalize_response of each wire, by the key it files the reasoning under.
FromChat(r, n) == [Read(r, n) EXCEPT !.data = Kept(r, n, "reasoning_content")]
FromAnthropic(r, n) == [Read(r, n) EXCEPT !.data = Kept(r, n, "anthropic_content_blocks")]
FromResponses(r, n) == [Read(r, n) EXCEPT !.data = Kept(r, n, "responses_reasoning_items")]
Normalized(r, n) ==
    CASE body.wire = "chat" -> FromChat(r, n)
      [] body.wire = "anthropic" -> FromAnthropic(r, n)
      [] body.wire = "responses" -> FromResponses(r, n)

\* What the provider may answer: calls only where tools were offered, ids
\* always but on the chat wire, thinking only where it was switched on.
Possible(r) ==
    /\ r.calls # <<>> => body.tools # {}
    /\ \A i \in DOMAIN r.calls : r.calls[i].named \/ body.wire = "chat"
    /\ r.reasoned => body.thinks \/ body.wire # "anthropic"

Answer(r) ==
    /\ pc = "sent" /\ Possible(r)
    /\ msgs' = Append(msgs, Normalized(r, round + 1))
    /\ round' = round + 1
    /\ spent' \in {spent, TRUE}     \* consume_tokens
    /\ thought' = IF r.reasoned THEN thought \cup {<<round + 1, body.wire>>} ELSE thought
    /\ IF r.calls = <<>> \/ body.final
       THEN End("answered")
       ELSE pc' = "tools" /\ UNCHANGED <<result, body>>
    /\ UNCHANGED <<seam, chain>>

Tools ==
    LET calls == Last(msgs).calls IN
    /\ pc = "tools"
    /\ \E works \in [DOMAIN calls -> BOOLEAN] :
         msgs' = msgs \o [i \in DOMAIN calls |-> ToolMessage(calls[i], works[i], Len(msgs) + i)]
    /\ pc' = "ask" /\ body' = None
    /\ UNCHANGED <<seam, chain, round, spent, result, thought>>

TranscriptNext == Ask \/ Fallback \/ Abandon \/ Tools \/ \E r \in Reply : Answer(r)

TranscriptSpec == TranscriptInit /\ [][TranscriptNext]_transcriptVars

----------------------------------------------------------------------------
(* Properties of the requests.                                             *)

Sent == pc = "sent"
Flat == FlattenSeq([i \in DOMAIN body.messages |-> body.messages[i].parts])
At(i, kind) == Flat[i].kind = kind

\* A call whose provider gave no id: its result is dropped as an orphan.
Unnamed == \E i \in DOMAIN msgs : NoId \in {msgs[i].calls[j].id : j \in DOMAIN msgs[i].calls}

\* Whatever wire a request goes out on, and whatever wires the earlier rounds
\* used, every call that has an id is answered once, with nothing but calls
\* and results in between, and no result stands without its call; on the
\* Anthropic wire the answers are all in the very next message.
CallsAnswered ==
    Sent =>
      /\ \A i \in DOMAIN Flat :
           /\ At(i, "call") /\ Flat[i].of # NoId =>
                LET answers == {j \in DOMAIN Flat : At(j, "result") /\ Flat[j].of = Flat[i].of} IN
                /\ Cardinality(answers) = 1
                /\ \A j \in answers : j > i /\ \A k \in i..j : At(k, "call") \/ At(k, "result")
           /\ At(i, "result") => \E j \in 1..i - 1 : At(j, "call") /\ Flat[j].of = Flat[i].of
      /\ body.wire = "anthropic" =>
           \A i \in DOMAIN body.messages :
             LET named(k, kind) == {p.of : p \in {q \in ToSet(body.messages[k].parts) :
                                                  q.kind = kind /\ q.of # NoId}} IN
             named(i, "call") # {} =>
               i < Len(body.messages) /\ named(i, "call") = named(i + 1, "result")

\* What the part at i of a round follows: the reasoning of that round, with
\* only its text and its calls in between.
Follows(i, n) ==
    \E j \in 1..i - 1 :
      /\ At(j, "reasoning") /\ Flat[j].of = n
      /\ \A k \in j + 1..i - 1 : At(k, "text") \/ At(k, "call")

\* Reasoning that a round on the Responses wire returned is sent back in front
\* of the calls it led to for as long as the turn stays on that wire, also when
\* rounds on other wires lie between.
ReasoningEchoed ==
    Sent /\ body.wire = "responses" =>
      \A i \in DOMAIN Flat : \A n \in 1..round :
        At(i, "call") /\ <<n, "responses">> \in thought /\ Flat[i].of \in {<<n, k>> : k \in 1..Len(Flat)}
          => Follows(i, n)

\* On the Anthropic wire the roles alternate, the last instruction of an
\* exhausted turn and calls without an id aside.
RolesAlternate ==
    Sent /\ body.wire = "anthropic" =>
      \A i \in 1..Len(body.messages) - 1 :
        \/ body.messages[i].role # body.messages[i + 1].role
        \/ body.final /\ i = Len(body.messages) - 1
        \/ Unnamed

\* A tool that was offered to a recall turn is one its executor runs: what the
\* policy advertises and what the executor accepts never disagree.
AdvertisedToolsRun ==
    seam.of = "recall" =>
      \A i \in DOMAIN msgs :
        msgs[i].tool \in Advertised => msgs[i].ran \notin {"unknown", "disabled", "stub"}

----------------------------------------------------------------------------
(* The inductive invariant.                                                *)

Id == {NoId} \cup Nat \X Nat
Messages == [role : {"system", "user", "assistant", "tool"}, text : Seq(Nat),
             calls : Seq([id : Id, tool : STRING, valid : BOOLEAN]), of : Id,
             tool : {None} \cup STRING,
             ran : {None, "ok", "error", "disabled", "unknown", "stub"},
             data : [key : {"none", "reasoning_content", "anthropic_content_blocks",
                            "responses_reasoning_items"}, items : Seq(Nat)]]

\* The transcript and the request are of their types; the turn makes at most
\* one call beyond its rounds.
TranscriptTypeOK ==
    /\ seam \in Seams
    /\ chain \in Seq(Wire) \ {<<>>}
    /\ msgs \in Seq(Messages) \ {<<>>}
    /\ pc \in {"ask", "sent", "tools", "done"}
    /\ round \in 0..MaxRounds + 1 /\ spent \in BOOLEAN
    /\ pc # "done" => round <= MaxRounds
    /\ pc = "sent" =>
         /\ body.wire = Head(chain) /\ body.tools \subseteq Advertised
         /\ body.final \in BOOLEAN /\ (~body.final => round < MaxRounds)
    /\ result \in {None, "abandoned", "answered"}
    /\ thought \subseteq (1..MaxRounds + 1) \X Wire

\* The call that message j answers is the k-th of the message k places before.
Answers(j, k) ==
    /\ k \in DOMAIN msgs[j - k].calls
    /\ msgs[j].of = msgs[j - k].calls[k].id /\ msgs[j].tool = msgs[j - k].calls[k].tool

\* In the transcript itself every call is answered by a result in its place
\* right behind, that of the tool it named, before the next request is made,
\* every result answers a call, and no two calls share an id.
CallsPaired ==
    /\ \A i \in DOMAIN msgs : \A k \in DOMAIN msgs[i].calls :
         \/ i = Len(msgs) /\ pc \in {"tools", "done"}
         \/ i + k <= Len(msgs) /\ msgs[i + k].role = "tool" /\ Answers(i + k, k)
    /\ \A j \in DOMAIN msgs : msgs[j].role = "tool" => \E k \in 1..j - 1 : Answers(j, k)
    /\ \A i, j \in DOMAIN msgs : \A k \in DOMAIN msgs[i].calls, l \in DOMAIN msgs[j].calls :
         msgs[i].calls[k].id = msgs[j].calls[l].id /\ msgs[i].calls[k].id # NoId => i = j /\ k = l

\* An id tells the round of its call and the call's place.
IdsByRound ==
    \A i \in DOMAIN msgs : \A k \in DOMAIN msgs[i].calls :
      msgs[i].calls[k].id # NoId => \E n \in 1..round : msgs[i].calls[k].id = <<n, k>>

\* Only results name a tool, and what they say of it is what the executor did.
Outcomes ==
    \A i \in DOMAIN msgs :
      /\ msgs[i].role # "tool" => msgs[i].tool = None
      /\ Executes /\ msgs[i].tool \in Advertised => msgs[i].ran \in {"ok", "error"}

TranscriptInv == TranscriptTypeOK /\ CallsPaired /\ IdsByRound /\ Outcomes
=============================================================================
