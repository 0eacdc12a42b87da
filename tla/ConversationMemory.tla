------------------------- MODULE ConversationMemory -------------------------
(***************************************************************************)
(* What the agent's language model is told: the history of a Session       *)
(* (src/agent/ovs_agent/session.py), the messages of the turn in progress  *)
(* (app_mode.py) and the tool rounds that extend both (tools/runner.py).   *)
(*                                                                         *)
(* A turn runs in one task and the next begins when that task is over      *)
(* (AgentTurns); the turn can be cancelled or fail at every await.  A      *)
(* message is its role, the text it says to the user, the number of tool   *)
(* calls it makes, and its size in tokens.  The order in which a round's   *)
(* messages are added is that of voxedge's run_turn, which is external.    *)
(***************************************************************************)
EXTENDS Integers, SequencesExt

CONSTANTS
    Replies,       \* what the assistant may say
    LongReplies,   \* those longer than ECHO_MAX_LEN
    Sizes,         \* tokens of an utterance; every other message has one
    Budget,        \* three quarters of max_input_tokens
    MaxRounds,     \* tools_max_iterations
    MaxCalls,      \* tool calls of a round
    MaxHistory,    \* messages before an utterance (a bound of the model)
    MidTurnClears  \* whether the history may be cleared while a turn runs

ASSUME MemoryAssumption ==
    /\ LongReplies \subseteq Replies
    /\ Sizes \subseteq Nat \ {0} /\ Budget \in Nat
    /\ MaxRounds \in Nat \ {0} /\ MaxCalls \in Nat \ {0}
    /\ MaxHistory \in Nat /\ MidTurnClears \in BOOLEAN

VARIABLES
    history,  \* Session.history
    prompt,   \* messages_for_llm of the turn, without the system prompt
    turn      \* [pc, round, anchor, calls, answered]

memoryVars == <<history, prompt, turn>>

ECHO_WINDOW == 3
NoText == "none"

Message == [role : {"user", "assistant", "tool"}, text : Replies \cup {NoText}, calls : 0 .. MaxCalls,
            size : Sizes \cup {1}]
User(n) == [role |-> "user", text |-> NoText, calls |-> 0, size |-> n]
Assistant(reply, n) == [role |-> "assistant", text |-> reply, calls |-> n, size |-> 1]
Tool == [role |-> "tool", text |-> NoText, calls |-> 0, size |-> 1]

NoTurn == [pc |-> "idle", round |-> 0, anchor |-> 0, calls |-> 0, answered |-> 0]

MemoryTypeOK ==
    /\ history \in Seq(Message) /\ prompt \in Seq(Message)
    /\ turn \in [pc : {"idle", "asking", "calling"}, round : 0 .. MaxRounds, anchor : Nat,
                 calls : 0 .. MaxCalls, answered : 0 .. MaxCalls]

MemoryInit == history = <<>> /\ prompt = <<>> /\ turn = NoTurn

(***************************************************************************)
(* Session                                                                 *)
(***************************************************************************)
From(messages, i) == SubSeq(messages, i, Len(messages))
Tokens(messages) == FoldLeft(LAMBDA sum, m : sum + m.size, 0, messages)
Utterances(messages) == {i \in DOMAIN messages : messages[i].role = "user"}

(* Mutant: single messages are dropped instead of turns. *)
TrimmedMidTurn(messages) ==
    LET fit == {i \in DOMAIN messages : Tokens(From(messages, i)) <= Budget}
    IN IF fit = {} THEN <<Last(messages)>> ELSE From(messages, Min(fit))

(* _trim_to_budget, of a history that ends with the user's message: the     *)
(* oldest turns go until the rest fits, the last one stays.                 *)
Trimmed(messages) ==
    LET starts == Utterances(messages)
        fit == {i \in starts : Tokens(From(messages, i)) <= Budget}
    IN IF Min(starts) \in fit THEN messages
       ELSE From(messages, IF fit = {} THEN Max(starts) ELSE Min(fit))

(* _maybe_recover_from_echo *)
Echoes(messages) ==
    LET said == SelectSeq(messages, LAMBDA m : m.text # NoText)
    IN /\ Len(said) >= ECHO_WINDOW
       /\ Last(said).text \notin LongReplies
       /\ \A i \in Len(said) - ECHO_WINDOW + 1 .. Len(said) : said[i].text = Last(said).text

AddAssistant(reply) ==
    LET said == Append(history, Assistant(reply, 0)) IN IF Echoes(said) THEN <<>> ELSE said

(* Mutant: the anchor is taken before the utterance is added. *)
RollbackWithoutUser(anchor) ==
    SubSeq(history, 1, IF anchor <= Len(history) THEN anchor - 1 ELSE Len(history))

RollbackTo(anchor) == SubSeq(history, 1, IF anchor < Len(history) THEN anchor ELSE Len(history))

(***************************************************************************)
(* A turn: run_default_dialogue_turn and stream_with_tools                 *)
(***************************************************************************)
TurnBegins ==
    /\ turn.pc = "idle" /\ Len(history) <= MaxHistory
    /\ \E n \in Sizes : history' = Append(history, User(n))
    /\ prompt' = Trimmed(history')
    /\ turn' = [pc |-> "asking", round |-> 1, anchor |-> Len(history'), calls |-> 0, answered |-> 0]

TurnEnds == turn' = NoTurn /\ prompt' = <<>>

(* Mutant: a tool's result is not mirrored to the session. *)
SinkPromptOnly(m) ==
    /\ history' = IF m.role = "tool" THEN history ELSE Append(history, m)
    /\ prompt' = Append(prompt, m)

(* _AgentMessageSink: the history and the turn's messages, in lock-step *)
Sink(m) == history' = Append(history, m) /\ prompt' = Append(prompt, m)

(* The answer of a round without tools, or no answer at all. *)
Replied ==
    /\ turn.pc = "asking"
    /\ TurnEnds
    /\ (\E r \in Replies : history' = AddAssistant(r)) \/ history' = history

CallsTools ==
    /\ turn.pc = "asking"
    /\ \E n \in 1 .. MaxCalls, r \in Replies \cup {NoText} :
         /\ Sink(Assistant(r, n))
         /\ turn' = [turn EXCEPT !.pc = "calling", !.calls = n, !.answered = 0]

ToolAnswers ==
    /\ turn.pc = "calling" /\ turn.answered < turn.calls
    /\ Sink(Tool)
    /\ turn' = [turn EXCEPT !.answered = @ + 1]

RoundAnswered == turn.pc = "calling" /\ turn.answered = turn.calls

(* Tools that all bring their own text end the turn with it. *)
TemplateReply ==
    /\ RoundAnswered
    /\ TurnEnds
    /\ \E r \in Replies : history' = AddAssistant(r)

NextRound ==
    /\ RoundAnswered /\ turn.round < MaxRounds
    /\ turn' = [turn EXCEPT !.pc = "asking", !.round = @ + 1]
    /\ UNCHANGED <<history, prompt>>

IterationLimit ==
    /\ RoundAnswered /\ turn.round = MaxRounds
    /\ TurnEnds
    /\ history' = RollbackTo(turn.anchor)

(* Mutant: a cancelled turn leaves what it has added. *)
AbandonedAsIs ==
    /\ turn.pc # "idle"
    /\ TurnEnds
    /\ UNCHANGED history

(* cancelled, failed or timed out, at any await *)
Abandoned ==
    /\ turn.pc # "idle"
    /\ TurnEnds
    /\ history' = RollbackTo(turn.anchor)

(* The dashboard, a tool list that changes, an interpreter's utterance, or  *)
(* on_assistant_done of the actuator plugin, for this turn or one before.   *)
Cleared ==
    /\ turn.pc = "idle" \/ MidTurnClears
    /\ history' = <<>>
    /\ UNCHANGED <<prompt, turn>>

MemoryNext ==
    \/ TurnBegins \/ Replied \/ CallsTools \/ ToolAnswers \/ TemplateReply \/ NextRound
    \/ IterationLimit \/ Abandoned \/ Cleared

MemorySpec == MemoryInit /\ [][MemoryNext]_memoryVars

(***************************************************************************)
(* Properties                                                              *)
(***************************************************************************)

(* Every assistant message with tool calls is followed by the results of     *)
(* exactly those calls, and no result stands alone.                         *)
Valid(messages) ==
    \A i \in DOMAIN messages :
        /\ messages[i].calls > 0 =>
             /\ i + messages[i].calls <= Len(messages)
             /\ \A k \in 1 .. messages[i].calls : messages[i + k].role = "tool"
        /\ messages[i].role = "tool" =>
             \E k \in 1 .. MaxCalls : i - k > 0 /\ messages[i - k].calls >= k

(* Every request is valid for the model's interface, whatever was trimmed,  *)
(* rolled back or recovered before (runner.py:224, session.py:186).         *)
PromptIsValid == turn.pc = "asking" => Valid(prompt)

(* What Trimmed measures against the budget. *)
Fits(first, last) == Tokens(SubSeq(history, first, last)) <= Budget

(* In a turn the prompt is the recent part of the history, from a user's    *)
(* message on; no more would have fitted, and the utterance being answered  *)
(* is in it (session.py:330, runner.py:221).                                *)
PromptIsRecentHistory ==
    turn.pc # "idle" =>
        LET first == Len(history) - Len(prompt) + 1
        IN /\ first \in 1 .. turn.anchor
           /\ prompt = From(history, first)
           /\ history[first].role = "user"
           /\ \A i \in Utterances(history) : i < first => ~Fits(i, turn.anchor)
           /\ first < turn.anchor => Fits(first, turn.anchor)

(* However a turn ends, the conversation up to and including its utterance  *)
(* is kept, unless the echo recovery clears all of it (runner.py:227).      *)
EarlierTurnsSurvive ==
    [][turn.pc # "idle" /\ turn'.pc = "idle" /\ Utterances(history) # {}
         => \/ history' = <<>> /\ \E r \in Replies : Echoes(Append(history, Assistant(r, 0)))
            \/ IsPrefix(SubSeq(history, 1, Max(Utterances(history))), history')]_memoryVars
=============================================================================
