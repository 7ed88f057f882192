--------------------------- MODULE ForemanHistory ---------------------------
(***************************************************************************)
(* ForemanRun (foreman/run.py) and the history it shares: every run of a   *)
(* conversation saves its turns as rows of one table and sends the model   *)
(* the rows it loaded, fitted to a budget and stripped of tool calls and   *)
(* results that lost their counterpart.  Runs of different keys may share  *)
(* a conversation, and a run may die at any await, so the rows of several  *)
(* runs, some unfinished, are mixed.  A message is [role, id, text, tool]: *)
(* it has text blocks, and tool_use (assistant) or tool_result (user)      *)
(* blocks of the round named by id.                                        *)
(***************************************************************************)
EXTENDS Naturals, Sequences, SequencesExt

CONSTANTS Runs,       \* runs on the conversation; each executes once
          MaxRounds   \* RunConfig.max_rounds

ASSUME MaxRoundsType == MaxRounds \in Nat \ {0}

VARIABLES
    rows,  \* the ForemanTurn rows of the conversation, without the system ones
    run    \* each run: where it is, its round, its messages, and whether a
           \* budget made it forget some

historyVars == <<rows, run>>

Message(role, id, text, tool) == [role |-> role, id |-> id, text |-> text, tool |-> tool]
HumanTurn(r) == Message("user", <<r, 0>>, TRUE, FALSE)
AssistantTurn(r, n, text, tool) == Message("assistant", <<r, n>>, text, tool)
ToolResults(r, n) == Message("user", <<r, n>>, FALSE, TRUE)
Messages == [role : {"user", "assistant"}, id : Runs \X (0..MaxRounds + 1),
             text : BOOLEAN, tool : BOOLEAN]

HistoryTypeOK ==
    /\ rows \in Seq(Messages)
    /\ run \in [Runs -> [pc : {"idle", "load", "fit", "call", "tools", "ended", "dead"},
                         round : 1..MaxRounds + 1, messages : Seq(Messages), cut : BOOLEAN]]

HistoryInit ==
    /\ rows = <<>>
    /\ run = [r \in Runs |-> [pc |-> "idle", round |-> 1, messages |-> <<>>, cut |-> FALSE]]

-----------------------------------------------------------------------------
(* What is sent to the model *)

From(m, i) == SubSeq(m, i, Len(m))

\* fit_token_budget (and prune_history) for a budget that reaches back to the
\* start-th message: the older ones go, and the replies at the new front.
Fit(m, start) ==
    LET kept == From(m, start)
        user == SelectInSeq(kept, LAMBDA x : x.role = "user")
    IN  IF user = 0 THEN <<>> ELSE From(kept, user)

\* A tool block is kept when its counterpart is in the neighbouring message:
\* the next one still to be looked at, the previous one as it was left.
Answered(m, i) ==
    i < Len(m) /\ m[i+1].role = "user" /\ m[i+1].tool /\ m[i+1].id = m[i].id
Answers(out, x) ==
    out # <<>> /\ Last(out).role = "assistant" /\ Last(out).tool /\ Last(out).id = x.id

\* Variant: calls with no result are kept.
PairsResultsOnly(m) ==
    LET out[i \in 0..Len(m)] ==
            IF i = 0 THEN <<>>
            ELSE LET before == out[i-1]
                     x == [m[i] EXCEPT !.tool = @ /\ (m[i].role = "user" => Answers(before, m[i]))]
                 IN  IF x.text \/ x.tool THEN Append(before, x) ELSE before
    IN  out[Len(m)]

Paired(m) ==
    LET out[i \in 0..Len(m)] ==
            IF i = 0 THEN <<>>
            ELSE LET before == out[i-1]
                     kept == \/ m[i].role = "assistant" /\ Answered(m, i)
                             \/ m[i].role = "user" /\ Answers(before, m[i])
                     x == [m[i] EXCEPT !.tool = @ /\ kept]
                 IN  IF x.text \/ x.tool THEN Append(before, x) ELSE before
    IN  out[Len(m)]

\* strip_orphaned_tool_results: the pairing, then everything up to the first user
\* message with text of its own, whose results (if any) just lost their call.
Strip(m) ==
    LET paired == Paired(m)
        first == SelectInSeq(paired, LAMBDA x : x.role = "user" /\ x.text)
    IN  IF first = 0 THEN <<>>
        ELSE <<[paired[first] EXCEPT !.tool = FALSE]>> \o From(paired, first + 1)

\* _inject_state_preamble: a text block in the last message, when it is a user's.
WithState(m) ==
    [i \in DOMAIN m |-> IF i = Len(m) /\ m[i].role = "user" THEN [m[i] EXCEPT !.text = TRUE]
                                                             ELSE m[i]]

-----------------------------------------------------------------------------
(* One run *)

At(r, pc) == run[r].pc = pc
\* Some budget: everything is kept, or only a suffix, of at least one message.
Keeps(m) == 1..Len(m)

\* execute: the human's turn is saved ...
HumanSaved(r) ==
    /\ At(r, "idle")
    /\ rows' = Append(rows, HumanTurn(r))
    /\ run' = [run EXCEPT ![r].pc = "load"]

\* ... the conversation is loaded (load_for_llm) and given the state of the guild.
Loaded(r) ==
    /\ At(r, "load")
    /\ \E start \in Keeps(rows) :
          run' = [run EXCEPT ![r].pc = "fit", ![r].cut = start > 1,
                             ![r].messages = WithState(Fit(rows, start))]
    /\ UNCHANGED rows

\* _one_round up to the call of the model.
Fitted(r) ==
    /\ At(r, "fit")
    /\ \E start \in Keeps(run[r].messages) :
          run' = [run EXCEPT ![r].pc = "call", ![r].cut = @ \/ start > 1,
                             ![r].messages = Strip(Fit(@, start))]
    /\ UNCHANGED rows

\* The model answers and its turn is saved.  It calls tools or ends the run; the
\* wrap-up round after the last one (tool_choice none) has no calls.  Nothing is
\* answered to an empty request.
Reply(r, text, tool) ==
    /\ At(r, "call") /\ run[r].messages # <<>>
    /\ text \/ tool
    /\ tool => run[r].round <= MaxRounds
    /\ LET reply == AssistantTurn(r, run[r].round, text, tool) IN
       /\ rows' = Append(rows, reply)
       /\ run' = [run EXCEPT ![r].messages = Append(@, reply),
                             ![r].pc = IF tool THEN "tools" ELSE "ended"]

\* Variant: the messages are those of the table again.
RereadsRows(r) ==
    /\ At(r, "tools")
    /\ rows' = Append(rows, ToolResults(r, run[r].round))
    /\ run' = [run EXCEPT ![r].pc = "fit", ![r].round = @ + 1, ![r].messages = rows']

\* The tools have run, each with a result or an error result, saved in one turn.
ToolsDone(r) ==
    /\ At(r, "tools")
    /\ rows' = Append(rows, ToolResults(r, run[r].round))
    /\ run' = [run EXCEPT ![r].pc = "fit", ![r].round = @ + 1,
                          ![r].messages = Append(@, ToolResults(r, run[r].round))]

\* A call of the model or the database raises, or the backend stops: what the run
\* has saved stays.
Dies(r) ==
    /\ run[r].pc \in {"load", "fit", "call", "tools"}
    /\ run' = [run EXCEPT ![r].pc = "dead"]
    /\ UNCHANGED rows

RunStep(r) ==
    \/ Loaded(r) \/ Fitted(r) \/ ToolsDone(r)
    \/ \E text, tool \in BOOLEAN : Reply(r, text, tool)
    \/ Dies(r)

HistoryNext == \E r \in Runs : HumanSaved(r) \/ RunStep(r)

HistorySpec == HistoryInit /\ [][HistoryNext]_historyVars

-----------------------------------------------------------------------------
(* Properties *)

Sends(r) == At(r, "call")

\* What the model's API demands of every request, whatever was cut off, died half
\* way or was written by another run in between: a user's message first, the
\* result of each call in the very next message, no result without its call.
RequestWellFormed ==
    \A r \in Runs : Sends(r) =>
        LET m == run[r].messages IN
        \A i \in DOMAIN m :
            /\ i = 1 => m[i].role = "user" /\ ~m[i].tool
            /\ m[i].role = "assistant" /\ m[i].tool => Answered(m, i)
            /\ m[i].role = "user" /\ m[i].tool => Answers(SubSeq(m, 1, i-1), m[i])
            /\ m[i].text \/ m[i].tool

OwnRow(r) == SelectInSeq(rows, LAMBDA x : x = HumanTurn(r))
Recalls(m, x) == \E i \in DOMAIN m : m[i].role = x.role /\ m[i].id = x.id
                                    /\ (x.text => m[i].text) /\ (x.tool => m[i].tool)

\* Stripping repairs and no more: while no budget cut the messages, a run sees all
\* that was said before it, and every call that its result follows directly.
HistoryIntact ==
    \A r \in Runs : Sends(r) /\ ~run[r].cut =>
        \A i \in 1..OwnRow(r) - 1 :
            /\ rows[i].text => Recalls(run[r].messages, [rows[i] EXCEPT !.tool = FALSE])
            /\ rows[i].role = "assistant" /\ rows[i].tool /\ Answered(rows, i)
                  => Recalls(run[r].messages, rows[i]) /\ Recalls(run[r].messages, rows[i+1])

\* A run never loses its own turn: its human's message, and all its calls with their
\* results, are in each request, though other runs save their turns in between.
OwnTurnSent ==
    \A r \in Runs : Sends(r) /\ ~run[r].cut =>
        /\ Recalls(run[r].messages, HumanTurn(r))
        /\ \A n \in 1..run[r].round - 1 :
              /\ Recalls(run[r].messages, AssistantTurn(r, n, FALSE, TRUE))
              /\ Recalls(run[r].messages, ToolResults(r, n))

\* While no budget cut them, the messages sent have all that was said before the
\* run, and all that the run itself said and was told.
AllSent == HistoryIntact /\ OwnTurnSent

=============================================================================
