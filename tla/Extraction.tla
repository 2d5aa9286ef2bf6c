----------------------------- MODULE Extraction -----------------------------
(* The 10-K extraction agent of task3 working off its queue file:
     __main__._run_queue   takes the first pending row, runs it, marks it;
     queue.py              the markdown sheet, one row per filing, [ ] or [x];
     loop.run_loop         the tool-calling loop: steps, cost, tool calls;
     tools/*.py, state.py  what the calls do to the session.
   A filing, a text and a list of records are names and versions here.  The
   process can die at every step; the sheet survives it.  *)
EXTENDS Integers, FiniteSets, Sequences

CONSTANTS
  Sheet,      \* the filings of the rows, in order; a filing may have two rows
  Cached,     \* the filings whose archive entry is in index.json
  MaxSteps, Ceiling,    \* Config: max_steps, cost_ceiling_usd
  Costs,      \* what one reply of the big model can cost, 0 without usage
  MaxCalls,   \* bound: tool calls in one reply
  MaxRuns     \* bound: runs, over all launches

ASSUME SheetIsList == Len(Sheet) \in Nat /\ DOMAIN Sheet = 1..Len(Sheet)
ASSUME Bounds == {MaxSteps, MaxCalls, MaxRuns} \subseteq Nat
ASSUME Prices == Ceiling \in Nat \ {0} /\ Costs \subseteq Nat /\ Costs # {}

VARIABLES
  proc,       \* the process: idle, looking, thinking, calling, ended,
              \* marking, or hung in a tool call
  all, row,   \* --all, and the row that is run
  run,        \* the number of the run
  status,     \* what run_loop returned
  steps, cost, calls,         \* SessionState, and the tool calls still to do
  unanswered,                 \* tool calls of the transcript without an answer
  loaded, anchored, records,  \* a text is stored, anchors are found, version
  torn,       \* the sheet is truncated
  marked,     \* the rows with [x]
  completed   \* runs of each filing that ended with done

process == <<proc, all, row, run, status>>
budget == <<steps, cost, calls, unanswered>>
work == <<loaded, anchored, records>>
disk == <<torn, marked>>
vars == <<process, budget, work, disk, completed>>

Rows == DOMAIN Sheet
Filings == {Sheet[i] : i \in Rows}

IsFirst(i, S) == i \in S /\ \A j \in S : i <= j
IsLast(i, S) == i \in S /\ \A j \in S : i >= j

-----------------------------------------------------------------------------
(* The queue: next_pending reads the sheet; a sheet without a header has no
   rows, and the process exits with 0 as if all were done.                   *)

Pending == IF torn THEN {} ELSE Rows \ marked

Launch ==
  /\ proc = "idle"
  /\ proc' = "looking"
  /\ all' \in BOOLEAN
  /\ UNCHANGED <<row, run, status, budget, work, disk, completed>>

NewSession ==
  /\ steps' = 0 /\ cost' = 0 /\ calls' = 0 /\ unanswered' = 0
  /\ loaded' = FALSE /\ anchored' = FALSE /\ records' = 0

TakeRow ==
  /\ proc = "looking" /\ run < MaxRuns
  /\ \E i \in Pending : IsFirst(i, Pending) /\ Sheet[i] \in Cached /\ row' = i
  /\ run' = run + 1
  /\ proc' = "thinking"
  /\ NewSession
  /\ UNCHANGED <<all, status, disk, completed>>

(* No pending row, or _resolve_html_path does not find the filing: exit.     *)
LookEnds ==
  /\ proc = "looking"
  /\ \A i \in Pending : IsFirst(i, Pending) => Sheet[i] \notin Cached
  /\ proc' = "idle"
  /\ UNCHANGED <<all, row, run, status, budget, work, disk, completed>>

-----------------------------------------------------------------------------
(* run_loop: the two limits are looked at before each request.               *)

RunReturns(s) ==
  /\ proc' = "ended"
  /\ status' = s
  /\ UNCHANGED <<all, row, run>>

(* Mutant: the ceiling is not looked at.                                     *)
CeilingIgnored == FALSE
OverCeiling == cost >= Ceiling
StepsAfterNudge == steps + 1

LimitReached ==
  /\ proc = "thinking"
  /\ \/ steps >= MaxSteps /\ RunReturns("max_steps_exceeded")
     \/ steps < MaxSteps /\ OverCeiling /\ RunReturns("cost_exceeded")
  /\ UNCHANGED <<budget, work, disk, completed>>

(* One reply of the big model: without tool calls it is nudged on.           *)
Reply ==
  /\ proc = "thinking" /\ steps < MaxSteps /\ ~OverCeiling
  /\ \E c \in Costs : cost' = cost + c
  /\ \/ /\ steps' = StepsAfterNudge
        /\ UNCHANGED <<proc, calls, unanswered>>
     \/ /\ \E k \in 1..MaxCalls : calls' = k /\ unanswered' = unanswered + k
        /\ proc' = "calling"
        /\ UNCHANGED steps
  /\ UNCHANGED <<all, row, run, status, work, disk, completed>>

(* big.chat raises: HTTP errors, and a tool name outside the list.  Nothing
   in run_loop or __main__ catches it; the process ends.                     *)
ChatRaises ==
  /\ proc = "thinking" /\ steps < MaxSteps /\ ~OverCeiling
  /\ proc' = "idle"
  /\ UNCHANGED <<all, row, run, status, budget, work, disk, completed>>

-----------------------------------------------------------------------------
(* The tool calls of a reply, one after another; the step is counted after
   the last.                                                                 *)

(* Mutant: a reply with tool calls is no step.                               *)
StepsStay == steps
StepsAfterCalls == steps + 1

NextCall ==
  /\ proc = "calling" /\ calls > 0
  /\ calls' = calls - 1
  /\ IF calls = 1 THEN proc' = "thinking" /\ steps' = StepsAfterCalls
                  ELSE UNCHANGED <<proc, steps>>
  /\ UNCHANGED <<all, row, run, status, cost>>

Answered == unanswered' = unanswered - 1

(* A tool_call without a name, arguments or id is answered too.
   Mutant: it is passed over.                                                *)
PassedOver == UNCHANGED unanswered
MalformedAnswered == Answered

Malformed == NextCall /\ MalformedAnswered /\ UNCHANGED <<work, disk, completed>>

(* The tools that only look (read_chars, regex_search, inspect_record,
   validate_records), an unknown tool, arguments that are not JSON, and every
   tool that answers with an error before it changes anything.               *)
LooksOnly == NextCall /\ Answered /\ UNCHANGED <<work, disk, completed>>

CleanAndLoad ==
  /\ NextCall /\ Answered
  /\ loaded' = TRUE
  /\ UNCHANGED <<anchored, records, disk, completed>>

(* find_anchors replaces the anchors, by an empty list too.                  *)
FindAnchors ==
  /\ NextCall /\ Answered /\ loaded
  /\ anchored' \in BOOLEAN
  /\ UNCHANGED <<loaded, records, disk, completed>>

SliceItems ==
  /\ NextCall /\ Answered /\ loaded /\ anchored
  /\ records' = records + 1
  /\ UNCHANGED <<loaded, anchored, disk, completed>>

(* classify_statuses replaces the records, update_record changes one, also
   when it then reports an unknown text_id.                                  *)
ChangeRecords ==
  /\ NextCall /\ Answered /\ records > 0
  /\ records' = records + 1
  /\ UNCHANGED <<loaded, anchored, disk, completed>>

(* The path is what the model says; no step reads the file again.            *)
WriteOutput == NextCall /\ Answered /\ records > 0 /\ UNCHANGED <<work, disk, completed>>

(* done ends the run, whatever its arguments, and drops the calls after it.  *)
Done ==
  /\ proc = "calling" /\ calls > 0
  /\ RunReturns("done")
  /\ calls' = 0
  /\ Answered
  /\ completed' = [completed EXCEPT ![Sheet[row]] = @ + 1]
  /\ UNCHANGED <<steps, cost, work, disk>>

(* A pattern of the model (regex_search, find_anchors, extra_strip_patterns)
   is matched against a whole filing without a time limit: the call may never
   return.  Only the death of the process ends the run then.                 *)
Hangs ==
  /\ proc = "calling" /\ calls > 0
  /\ proc' = "hung"
  /\ UNCHANGED <<all, row, run, status, budget, work, disk, completed>>

ToolCall ==
  \/ Malformed \/ LooksOnly \/ CleanAndLoad \/ FindAnchors \/ SliceItems
  \/ ChangeRecords \/ WriteOutput \/ Done

-----------------------------------------------------------------------------
(* After the run.  Mutants: every run is marked, the last row is marked.     *)

AnyStatus == TRUE
LastMatch(S) == {i \in S : IsLast(i, S)}
WorthMarking == status = "done"
MatchTaken(S) == {i \in S : IsFirst(i, S)}

(* Only done is marked: mark_done reads the sheet and truncates it to write. *)
MarkBegins ==
  /\ proc = "ended" /\ WorthMarking
  /\ proc' = "marking"
  /\ torn' = TRUE
  /\ UNCHANGED <<all, row, run, status, budget, work, marked, completed>>

MarkEnds ==
  /\ proc = "marking"
  /\ LET matches == {i \in Rows \ marked : Sheet[i] = Sheet[row]}
     IN  marked' = marked \cup MatchTaken(matches)
  /\ torn' = FALSE
  /\ proc' = IF all THEN "looking" ELSE "idle"
  /\ UNCHANGED <<all, row, run, status, budget, work, completed>>

RunFailed ==
  /\ proc = "ended" /\ ~WorthMarking
  /\ proc' = "idle"
  /\ UNCHANGED <<all, row, run, status, budget, work, disk, completed>>

(* The process dies: a sheet that was being written stays truncated.         *)
Crash ==
  /\ proc # "idle"
  /\ proc' = "idle"
  /\ UNCHANGED <<all, row, run, status, budget, work, disk, completed>>

-----------------------------------------------------------------------------
Init ==
  /\ proc = "idle" /\ all = FALSE /\ row = 1 /\ run = 0 /\ status = "none"
  /\ steps = 0 /\ cost = 0 /\ calls = 0 /\ unanswered = 0
  /\ loaded = FALSE /\ anchored = FALSE /\ records = 0
  /\ torn = FALSE /\ marked = {}
  /\ completed = [f \in Filings |-> 0]

RunStep == LimitReached \/ Reply \/ ChatRaises \/ ToolCall

(* The bound is reached.                                                    *)
Finished == proc = "looking" /\ run = MaxRuns /\ UNCHANGED vars

Next ==
  \/ Launch \/ TakeRow \/ LookEnds \/ RunStep
  \/ Hangs \/ MarkBegins \/ MarkEnds \/ RunFailed \/ Crash \/ Finished

Spec == Init /\ [][Next]_vars

(* The model answers, or its request times out; a tool call returns or hangs;
   and the loop goes on.                                                     *)
FairSpec == Spec /\ WF_vars(RunStep)

-----------------------------------------------------------------------------
(* The type of the state.                                                   *)
TypeOK ==
  /\ proc \in {"idle", "looking", "thinking", "calling", "ended", "marking", "hung"}
  /\ all \in BOOLEAN /\ torn \in BOOLEAN /\ loaded \in BOOLEAN /\ anchored \in BOOLEAN
  /\ row \in Rows /\ marked \subseteq Rows
  /\ status \in {"none", "done", "max_steps_exceeded", "cost_exceeded"}
  /\ run \in 0..MaxRuns /\ steps \in 0..MaxSteps
  /\ {cost, unanswered, records} \subseteq Nat /\ calls \in 0..MaxCalls
  /\ completed \in [Filings -> Nat]

(* next_pending and mark_done agree on the row, with two rows of one filing
   and over crashes and restarts: rows are ticked off from the top, and no
   row is passed over (queue.py:95, queue.py:130).                           *)
MarkedInOrder == \A i \in marked : \A j \in Rows : j < i => j \in marked

(* A row is ticked off for a run of its filing that called done, one row for
   each: the repeated run after a crash earns no second mark.                *)
MarksAreEarned ==
  \A f \in Filings : Cardinality({i \in marked : Sheet[i] = f}) <= completed[f]

(* loop.py:72, looked at before each request: what is counted passes the
   ceiling by less than one reply.                                           *)
BudgetHolds == \E c \in Costs : cost < Ceiling + c

(* The API of the model refuses a transcript with a tool call left open: when
   the next request goes out, each call of the replies before has its answer,
   those that are malformed, unknown or failed too (loop.py:92-124).         *)
EveryCallAnswered == proc = "thinking" => unanswered = 0

(* The limits end every run, on whatever the model replies, unless it stands
   for ever in one tool call: no run goes on replying and calling tools.     *)
RunsEnd == proc \in {"thinking", "calling"} ~> proc \notin {"thinking", "calling"}

=============================================================================
