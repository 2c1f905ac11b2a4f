------------------------- MODULE ConversationTurns -------------------------
(***************************************************************************)
(* The turns of `evidune serve` as conversations see them: the transcript, *)
(* the rolling summary that stands in for what no longer fits the prompt,  *)
(* the turn counters, the title.  handle() is one coroutine per message;   *)
(* whatever it does between two awaits is one action, and turns of one     *)
(* conversation may be under way at the same time.                         *)
(*                                                                         *)
(*   messages  rows ever inserted; the id (AUTOINCREMENT) is the position  *)
(*   convo     the conversations row and the conversation_summaries row    *)
(*   counts    AgentCore._turn_counts                                      *)
(*   turn      what the coroutine of a task knows                          *)
(*                                                                         *)
(* A message is its length in tokens.  A summary is what was folded into   *)
(* it.  A turn of the swarm harness is a turn whose answer takes longer.   *)
(***************************************************************************)
EXTENDS Integers, Sequences, FiniteSets, FiniteSetsExt, SequencesExt

CONSTANTS
    Chats,            \* conversation ids
    Tasks,            \* asyncio tasks that can be in handle()
    Sizes,            \* tokens of a message
    RecentBudget,     \* recent_token_budget
    TitleAfter,       \* title_after_turns
    FactsEvery,       \* fact_extraction_every_n_turns
    Earlier,          \* sizes of the messages that one chat has at the start
    MaxMessages       \* bound of the model

ASSUME TurnsAssumption ==
    /\ Chats # {} /\ Sizes # {} /\ Sizes \subseteq Nat /\ RecentBudget \in Nat /\ RecentBudget > 12
    /\ TitleAfter \in Nat \ {0} /\ FactsEvery \in Nat \ {0}
    /\ Earlier \in Seq(Nat) /\ MaxMessages \in Nat

VARIABLES messages, convo, counts, turn

cvars == <<messages, convo, counts, turn>>

NoSummary == [folded |-> {}, covered |-> 0, count |-> 0]

Message(c, role, of, size, kind) ==
    [chat |-> c, role |-> role, of |-> of, size |-> size, kind |-> kind, live |-> TRUE]

Idle == [ at      |-> "idle",
          chat    |-> CHOOSE c \in Chats : TRUE,
          size    |-> 0,
          asks    |-> "chat",      \* or "context", the diagnostic command
          pending |-> {},          \* _summarize_before: ids still to fold
          part    |-> 0,           \* parts of an oversized message folded so far
          sum     |-> NoSummary,   \* _summarize_before: summary, covered, source_count
          recent  |-> {},
          failed  |-> FALSE,       \* its summary call failed
          missing |-> {},          \* records it read that are in neither half of its context
          of      |-> 0,           \* id of its question
          due     |-> FALSE ]      \* facts are due, by current_turn_count

-----------------------------------------------------------------------------
(* get_history_records(limit=None): the ids, which order the rows. *)
Live(c) == {i \in DOMAIN messages : messages[i].live /\ messages[i].chat = c}

Cost(ids, overhead) == MapThenSumSet(LAMBDA i : messages[i].size + overhead, ids)

(* messages_within_budget: from the newest back as long as they fit, or the *)
(* newest alone, cut to size.                                               *)
RecentSuffix(recs) ==
    LET fitting == {i \in recs : \A n \in recs :
                       i <= n => Cost({j \in recs : n <= j}, 6) <= RecentBudget}
    IN  IF recs = {} \/ fitting # {} THEN fitting ELSE {Max(recs)}

\* A mutant: off by one.
BeforeRecent(recs) == IF recs = {} THEN 1 ELSE Min(RecentSuffix(recs)) - 1

FirstRecent(recs) == IF recs = {} THEN 1 ELSE Min(RecentSuffix(recs))

(* prefix_within_budget *)
PrefixWithin(ids) ==
    {i \in ids : \A n \in ids : n <= i => Cost({j \in ids : j <= n}, 8) <= RecentBudget}

Oversized(id) == messages[id].size + 8 > RecentBudget

(* split_text_within_budget(content, recent_token_budget - 8) *)
Parts(id) == LET width == RecentBudget - 8
             IN  (messages[id].size + width - 1) \div width

(* The records of one call of the model: a part of an oversized message, or *)
(* as many messages as fit.                                                 *)
NextChunk(ids) == IF Oversized(Min(ids)) THEN {Min(ids)} ELSE PrefixWithin(ids)

IsLastPart(t) ==
    LET first == Min(turn[t].pending)
    IN  ~Oversized(first) \/ turn[t].part + 1 = Parts(first)

-----------------------------------------------------------------------------
(* conversations *)
NoConversation == [there |-> FALSE, turns |-> 0, titled |-> FALSE, sum |-> NoSummary]

ConversationInit ==
    LET old   == Idle.chat
        of(i) == IF i % 2 = 1 THEN i ELSE i - 1
    IN  /\ messages = [i \in DOMAIN Earlier |->
                         Message(old, IF of(i) = i THEN "user" ELSE "assistant", of(i), Earlier[i], "chat")]
        /\ convo = [c \in Chats |->
                      IF c = old /\ Earlier # <<>>
                        THEN [NoConversation EXCEPT !.there = TRUE, !.turns = (Len(Earlier) + 1) \div 2]
                        ELSE NoConversation]
        /\ counts = [c \in Chats |-> 0]
        /\ turn = [t \in Tasks |-> Idle]

(* ensure_conversation *)
Ensured(c) == [convo EXCEPT ![c].there = TRUE]

(* add_message("user"), which recreates a conversation that was deleted. *)
Asked(c) == [convo EXCEPT ![c].there = TRUE, ![c].turns = @ + 1]

(* _sync_turn_counter *)
SyncedTurns(c, persisted) == Max({counts[c], persisted})

\* A mutant: a guard on the covered id alone.
SavedUpToTheLatest(c, s) ==
    [convo EXCEPT ![c].there = TRUE, ![c].sum = [s EXCEPT !.covered = Max({@, convo[c].sum.covered})]]

(* save_conversation_summary *)
SavedSummary(c, s) == [convo EXCEPT ![c].there = TRUE, ![c].sum = s]

-----------------------------------------------------------------------------
(* ConversationContextManager.build, the rest of it: the context is the     *)
(* stored summary and the recent suffix; /context answers with its report.  *)
Built(t, k, row) ==
    turn' = [turn EXCEPT ![t] =
        IF k.asks = "context" THEN [Idle EXCEPT !.at = "done", !.chat = k.chat] ELSE
        [Idle EXCEPT !.at = "asking", !.chat = k.chat, !.size = k.size, !.failed = k.failed,
                  !.missing = {i \in Live(k.chat) : k.recent # {} /\ i <= Max(k.recent)}
                                \ (row.folded \cup k.recent)]]

(* handle, up to its first await: the conversation is there, its records   *)
(* are read, and what left the recent suffix since the last summary is to  *)
(* be folded.                                                              *)
Receive(t, c, size, asks) ==
    LET recs    == Live(c)
        row     == convo[c].sum
        pending == {i \in recs : row.covered < i /\ i < FirstRecent(recs)}
        k       == [Idle EXCEPT !.chat = c, !.size = size, !.asks = asks, !.pending = pending,
                                !.sum = row, !.at = "summarising",
                                !.recent = RecentSuffix(recs)]
    IN  /\ turn[t].at = "idle"
        /\ IF pending = {} THEN Built(t, k, row) ELSE turn' = [turn EXCEPT ![t] = k]
        /\ convo' = Ensured(c)
        /\ UNCHANGED <<messages, counts>>

(* _summarize_before: the model answers.  The row is replaced by what this *)
(* turn folded, whatever another turn stored meanwhile.                    *)
SummaryAnswers(t) ==
    LET k     == turn[t]
        chunk == NextChunk(k.pending)
        rest  == k.pending \ chunk
        s     == [folded  |-> k.sum.folded \cup chunk,
                  covered |-> Max(chunk),
                  count   |-> k.sum.count + Cardinality(chunk)]
    IN  /\ k.at = "summarising" /\ chunk # {}
        /\ IF IsLastPart(t)
             THEN /\ convo' = SavedSummary(k.chat, s)
                  /\ IF rest = {}
                       THEN Built(t, [k EXCEPT !.sum = s, !.part = 0], s)
                       ELSE turn' = [turn EXCEPT ![t].pending = rest, ![t].sum = s, ![t].part = 0]
             ELSE /\ turn' = [turn EXCEPT ![t].part = @ + 1]
                  /\ UNCHANGED convo
        /\ UNCHANGED <<messages, counts>>

(* The model fails, or its answer is empty: the row stays what it is. *)
SummaryFails(t) ==
    /\ turn[t].at = "summarising"
    /\ Built(t, [turn[t] EXCEPT !.failed = TRUE, !.part = 0], convo[turn[t].chat].sum)
    /\ UNCHANGED <<messages, convo, counts>>

-----------------------------------------------------------------------------
(* _maybe_generate_title, up to its await. *)
NeedsTitle(c) ==
    /\ convo[c].there /\ ~convo[c].titled
    /\ Min({20, Cardinality(Live(c))}) >= TitleAfter * 2

(* _maybe_extract_facts *)
FactsAreDue(n) == n % FactsEvery = 0

Stored(k, id, due) ==
    [Idle EXCEPT !.at = IF due THEN "extracting" ELSE "finishing", !.chat = k.chat, !.of = id, !.due = due]

\* A mutant: the question is stored while the model is still asked.
AskFirst(t, size) ==
    LET k == turn[t]
    IN  /\ k.at = "asking"
        /\ Len(messages) + 2 <= MaxMessages
        /\ messages' = Append(messages, Message(k.chat, "user", Len(messages) + 1, k.size, "chat"))
        /\ convo' = Asked(k.chat)
        /\ turn' = [turn EXCEPT ![t] = [Stored(k, Len(messages) + 1, FALSE) EXCEPT !.at = "emerging"]]
        /\ UNCHANGED counts

(* The answer is there: question and answer are stored, the turn counted.   *)
ModelAnswers(t, size) ==
    LET k  == turn[t]
        id == Len(messages) + 1
        n  == SyncedTurns(k.chat, convo[k.chat].turns + 1)
    IN  /\ k.at = "asking"
        /\ Len(messages) + 2 <= MaxMessages
        /\ messages' = messages \o << Message(k.chat, "user", id, k.size, "chat"),
                                      Message(k.chat, "assistant", id, size, "chat") >>
        /\ convo' = Asked(k.chat)
        /\ counts' = [counts EXCEPT ![k.chat] = n]
        /\ turn' = [turn EXCEPT ![t] = Stored(k, id, FactsAreDue(n))]

(* _is_skill_transaction_request says so: the question is stored at once,  *)
(* a skill is written, and the answer says what came of it.                *)
SkillIsRequested(t) ==
    LET k  == turn[t]
        id == Len(messages) + 1
        n  == SyncedTurns(k.chat, convo[k.chat].turns + 1)
    IN  /\ k.at = "asking"
        /\ Len(messages) + 2 <= MaxMessages
        /\ messages' = Append(messages, Message(k.chat, "user", id, k.size, "skill"))
        /\ convo' = Asked(k.chat)
        /\ counts' = [counts EXCEPT ![k.chat] = n]
        /\ turn' = [turn EXCEPT ![t] = [Stored(k, id, FactsAreDue(n)) EXCEPT !.at = "emerging"]]

SkillIsWritten(t, size) ==
    LET k == turn[t]
    IN  /\ k.at = "emerging"
        /\ messages' = Append(messages, Message(k.chat, "assistant", k.of, size, messages[k.of].kind))
        /\ convo' = Ensured(k.chat)
        /\ turn' = [turn EXCEPT ![t] = Stored(k, k.of, k.due)]
        /\ UNCHANGED counts

\* A mutant: nobody is told, and the task is not freed.
TurnFailsSilently(t) ==
    /\ turn[t].at \in {"asking", "emerging"}
    /\ turn' = [turn EXCEPT ![t] = Idle]
    /\ UNCHANGED <<messages, convo, counts>>

(* The model that answers, or the writing of a skill, raises out of handle, *)
(* or what comes between the messages and the title does (the discovery of  *)
(* a skill's contract): then the turn is stored all the same.               *)
MayRaise(k) ==
    \/ k.at \in {"asking", "emerging"}
    \/ k.at \in {"extracting", "finishing"} /\ messages[k.of].kind = "chat"

TurnFails(t) ==
    /\ MayRaise(turn[t])
    /\ turn' = [turn EXCEPT ![t] = [Idle EXCEPT !.at = "done", !.chat = turn[t].chat]]
    /\ UNCHANGED <<messages, convo, counts>>

(* set_fact for what was extracted; what the facts say is left out. *)
FactsAreExtracted(t) ==
    /\ turn[t].at = "extracting"
    /\ turn' = [turn EXCEPT ![t].at = "finishing"]
    /\ UNCHANGED <<messages, convo, counts>>

(* _maybe_generate_title looks at the conversation and either asks for a    *)
(* title or is done.                                                        *)
LookForTitle(t) ==
    /\ turn[t].at = "finishing"
    /\ turn' = [turn EXCEPT ![t].at = IF NeedsTitle(turn[t].chat) THEN "titling" ELSE "done"]
    /\ UNCHANGED <<messages, convo, counts>>

(* set_conversation_title, unless the generator failed or had none. *)
Titled(t, generated) ==
    LET c == turn[t].chat
    IN  /\ turn[t].at = "titling"
        /\ turn' = [turn EXCEPT ![t].at = "done"]
        /\ convo' = IF generated /\ convo[c].there THEN [convo EXCEPT ![c].titled = TRUE] ELSE convo
        /\ UNCHANGED <<messages, counts>>

TurnStep(t) ==
    \/ SummaryAnswers(t)
    \/ SummaryFails(t)
    \/ \E size \in Sizes : ModelAnswers(t, size)
    \/ SkillIsRequested(t)
    \/ \E size \in Sizes : SkillIsWritten(t, size)
    \/ TurnFails(t)
    \/ FactsAreExtracted(t)
    \/ LookForTitle(t)
    \/ \E generated \in BOOLEAN : Titled(t, generated)

-----------------------------------------------------------------------------
(* delete_conversation, which does not look for turns under way. *)
DeleteConversation(c) ==
    /\ convo[c].there
    /\ messages' = [i \in DOMAIN messages |->
                      IF messages[i].chat = c THEN [messages[i] EXCEPT !.live = FALSE] ELSE messages[i]]
    /\ convo' = [convo EXCEPT ![c] = NoConversation]
    /\ UNCHANGED <<counts, turn>>

(* The process ends: what its coroutines knew is gone, and so are the       *)
(* counters.                                                                *)
TurnsEnd == /\ turn' = [t \in Tasks |-> Idle]
            /\ counts' = [c \in Chats |-> 0]

(* It ends between the two commits of a turn's messages. *)
QuestionOnly(t) ==
    LET k == turn[t]
    IN  /\ k.at = "asking"
        /\ Len(messages) < MaxMessages
        /\ messages' = Append(messages, Message(k.chat, "user", Len(messages) + 1, k.size, "chat"))
        /\ convo' = Asked(k.chat)

-----------------------------------------------------------------------------
(* Every row, summary and label is one the schema and handle() know.       *)
ConversationTypeOK ==
    /\ \A i \in DOMAIN messages : messages[i].chat \in Chats /\ messages[i].of \in 1..i
    /\ \A c \in Chats : convo[c].sum.covered \in 0..Len(messages)
    /\ \A t \in Tasks :
         turn[t].at \in {"idle", "summarising", "asking", "emerging", "extracting",
                         "finishing", "titling", "done"}

(* The stored summary is the summary of exactly the transcript up to the    *)
(* covered id: every message once, none twice, none beyond, whatever turns  *)
(* summarised at the same time (conversation_context.py _summarize_before,  *)
(* store.py save_conversation_summary).                                     *)
SummaryIsOfItsPrefix ==
    \A c \in Chats : LET s == convo[c].sum
                     IN  /\ s.folded = {i \in Live(c) : i <= s.covered}
                         /\ s.count = Cardinality(s.folded)

(* A turn asks with a context that has the whole transcript, folded or in   *)
(* full, unless the model failed to fold for it: the summary is read again  *)
(* after the awaits that made it, the recent suffix is not (build).         *)
ContextHasNoGap ==
    \A t \in Tasks : turn[t].at = "asking" /\ ~turn[t].failed =>
                       turn[t].missing \cap Live(turn[t].chat) = {}

(* No row comes between the question and the answer of an ordinary turn:   *)
(* both are stored when the answer is there (handle, step 7).               *)
AnswersFollowTheirQuestion ==
    \A i \in DOMAIN messages :
        messages[i].role = "assistant" /\ messages[i].kind = "chat" =>
            /\ messages[i].of = i - 1
            /\ messages[i - 1].role = "user" /\ messages[i - 1].chat = messages[i].chat

(* "later turns only summarize newly displaced messages": what a summary    *)
(* covers is never taken back, short of a deletion.                         *)
CoverageOnlyGrows ==
    [][\A c \in Chats : convo'[c].sum.covered >= convo[c].sum.covered \/ ~convo'[c].there]_convo

(* Facts are extracted after every FactsEvery-th question of a conversation *)
(* (_maybe_extract_facts, "every N turns").                                 *)
FactsOnSchedule ==
    \A t \in Tasks : turn[t].at = "extracting" =>
        Cardinality({i \in Live(turn[t].chat) : messages[i].role = "user" /\ i <= turn[t].of})
            % FactsEvery = 0

(* A deleted conversation has left nothing that a later prompt could show:  *)
(* no summary of its messages.                                              *)
DeletedIsForgotten == \A c \in Chats : convo[c].sum.folded \subseteq Live(c)
=============================================================================
