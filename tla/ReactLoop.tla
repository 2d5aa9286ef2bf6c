------------------------------ MODULE ReactLoop ------------------------------
(***************************************************************************)
(* ReactLoop.run (loop.py) for one session: the steps of the agent, the    *)
(* masking of tools that bring nothing new, the memo of what was read, the *)
(* wall streak, the forced done on the last step and the ways a run ends.  *)
(* Each await of the loop is a step of its own: in between, the page may   *)
(* change by itself.  What the model answers is an input, and what makes   *)
(* done() acceptable is the subject of Grounding.                          *)
(***************************************************************************)
EXTENDS PageDiff, FiniteSets

CONSTANTS
  Settings,   (* the runs: which tools the model uses, the lines that a search
                 may print, max_steps, and whether the page is flaky: changes
                 by itself, with calls into it that fail                     *)
  Texts,      (* innerText of the pages; <<>> when it cannot be evaluated    *)
  WallOf,     (* detect_wall: a kind or "none", by text                      *)
  Elements,   (* interactive elements of a page, by text                     *)
  Offsets,    (* offsets the model asks for                                  *)
  ReadLimit, ListLimit,
  MaxHops,    (* max_auto_advance_hops                                       *)
  NoText      (* GlobalTextCache before its first update                     *)

ASSUME LoopAssumption ==
  /\ MaxHops \in Nat /\ ReadLimit \in Nat \ {0} /\ ListLimit \in Nat \ {0}
  /\ \A s \in Settings : s.maxSteps \in Nat \ {0} /\ s.flaky \in BOOLEAN
  /\ NoText \notin Texts \cup {<<>>}

VARIABLE setting  (* one of Settings, the same for a whole run               *)

(* "read", "read_grep", "list_interactive", "press_key", "reason", "done", and
   "act" for those that change the page: goto, back, click, type.            *)
Tools == setting.tools
Lines == setting.lines
MaxSteps == setting.maxSteps
Flaky == setting.flaky

VARIABLES
  page,        (* text of the page now                                       *)
  phase,       (* where run() stands: see Phases                             *)
  step,        (* step_idx                                                   *)
  at,          (* offset of the paged call under way                         *)
  hops,        (* hops of the list_interactive call under way                *)
  prev,        (* GlobalTextCache                                            *)
  hidden,      (* _hidden_tools                                              *)
  readCache, listCache,
  grepSeen,    (* _read_grep_line_hashes                                     *)
  streak,      (* _read_grep_dedup_streak                                    *)
  wallKind, wallStreak,
  tape,        (* action, offset and observation of each step                *)
  doneEvent,   (* status of the done event in the trace, "none" without one  *)
  outcome,     (* how run() ended                                            *)
  seen         (* history: the texts run() looked at, one for each step      *)

caches == <<readCache, listCache, grepSeen>>
walls  == <<wallKind, wallStreak, prev, seen>>
ends   == <<doneEvent, outcome>>
vars   == <<setting, page, phase, step, at, hops, hidden, caches, streak, walls, tape, ends>>

Phases == {"look", "chat", "plan", "read", "grep", "list", "act", "press_key",
           "reason", "forcing", "distilling", "over", "hung"}
Statuses == {"success", "failed", "needs_user"}

(* Observations of a step that shows nothing of the page.                  *)
Error     == [kind |-> "error"]      (* an error, or a tool that was not run  *)
Exhausted(offset) == [kind |-> "end", offset |-> offset]
Duplicate == [kind |-> "duplicate"]
Ok        == [kind |-> "ok"]
Served(text)   == [kind |-> "text", text |-> text]
Printed(lines) == [kind |-> "lines", lines |-> lines]

(* What an evaluation of innerText, or a call into the page, may return.   *)
Evaluated == {page} \cup (IF Flaky THEN {<<>>} ELSE {})

-----------------------------------------------------------------------------
(* The head of a step: what changed since the last look.

   Mutants: the masks survive a change; the wall streak survives one, too;
   the lines already printed survive it.                                     *)
MasksSurvive(moved) == hidden
MasksAfter(moved) == IF moved THEN {} ELSE hidden

KeyStuck(text) ==
  /\ prev # NoText /\ prev = text
  /\ tape # <<>> /\ tape[Len(tape)].action = "press_key"

StreakOfAnyWall(kind) == wallStreak + 1
StreakOf(kind) == IF wallKind = kind THEN wallStreak + 1 ELSE 1

PrintedSurvive(moved) == grepSeen
PrintedAfter(moved) == IF moved THEN {} ELSE grepSeen

Look ==
  /\ phase = "look" /\ step < MaxSteps - 1
  /\ \E text \in Evaluated :
       LET moved == prev # NoText /\ prev # text IN
       /\ hidden' = MasksAfter(moved) \cup (IF KeyStuck(text) THEN {"press_key"} ELSE {})
       /\ readCache' = IF moved THEN EmptyCache ELSE readCache
       /\ listCache' = IF moved THEN EmptyCache ELSE listCache
       /\ grepSeen' = PrintedAfter(moved)
       /\ streak' = IF moved THEN 0 ELSE streak
       /\ wallKind' = WallOf[text]
       /\ wallStreak' = IF WallOf[text] = "none" THEN 0 ELSE StreakOf(WallOf[text])
       /\ prev' = text
       /\ seen' = Append(seen, text)
  /\ phase' = "chat"
  /\ UNCHANGED <<page, step, at, hops, tape, ends>>

(* The banner of the messages that are sent next.                          *)
BannerShown == wallStreak >= 2 /\ wallKind # "none"

-----------------------------------------------------------------------------
(* The end of a step: the tape grows and the next step begins.               *)
EndStep(action, offset, obs) ==
  /\ tape' = Append(tape, [action |-> action, offset |-> offset, obs |-> obs])
  /\ step' = step + 1
  /\ phase' = "look"
  /\ at' = 0 /\ hops' = 0
  /\ UNCHANGED <<walls, ends>>

(* A tool call raises: an error observation, and the streak is left as it is. *)
Raises(action, offset) ==
  /\ EndStep(action, offset, Error)
  /\ UNCHANGED <<page, hidden, caches, streak>>

(* The reply names a tool that was not offered.                            *)
NotAllowed(name) ==
  /\ phase = "chat" /\ name \in hidden \cup {"unknown"}
  /\ Raises(name, 0)

(* The reason field is missing: the tool is not executed.                  *)
NoReason(name) ==
  /\ phase = "chat" /\ name \in Tools \ hidden
  /\ Raises(name, 0)

(* A reply without a tool call ends the run, without a done event.         *)
NoToolCall ==
  /\ phase = "chat"
  /\ phase' = "over" /\ outcome' = "failed"
  /\ UNCHANGED <<page, step, at, hops, hidden, caches, streak, walls, tape, doneEvent>>

(* A reply that calls a tool: the arguments are taken, the await begins.   *)
Calls(name, newPhase, offset) ==
  /\ phase = "chat" /\ name \in Tools \ hidden
  /\ phase' = newPhase /\ at' = offset
  /\ UNCHANGED <<page, step, hops, hidden, caches, streak, walls, tape, ends>>

Chat ==
  \/ \E o \in Offsets : Calls("read", "plan", o) \/ Calls("list_interactive", "list", o)
  \/ Calls("read_grep", "grep", 0)
  \/ \E name \in {"act", "press_key", "reason"} : Calls(name, name, 0)

-----------------------------------------------------------------------------
(* read: the plan is made, and recorded, on one evaluation of the page ...
   Mutant: the window is recorded under the offset that was asked for.       *)
RecordedAtRequest(plan) == at
RecordedAt(plan) == plan.offset

PlanTheRead ==
  /\ phase = "plan"
  /\ \E text \in Evaluated :
       LET plan == PlanRead(text, at, readCache, ReadLimit, MaxHops) IN
       IF plan.exhausted
       THEN /\ hidden' = hidden \cup {"read"}
            /\ EndStep("read", at, Exhausted(plan.offset))
            /\ UNCHANGED <<page, caches, streak>>
       ELSE /\ readCache' = Record(readCache, RecordedAt(plan), plan.served)
            /\ at' = plan.offset /\ phase' = "read"
            /\ UNCHANGED <<page, step, hops, hidden, listCache, grepSeen, streak,
                           walls, tape, ends>>

(* ... and the window is served from another one.                           *)
ReadReturns ==
  /\ phase = "read"
  /\ \/ EndStep("read", at, Served(Window(page, at, ReadLimit)))
     \/ Flaky /\ EndStep("read", at, Error)
  /\ streak' = 0
  /\ UNCHANGED <<page, hidden, caches>>

ReadRaises == phase = "read" /\ Flaky /\ Raises("read", at)

-----------------------------------------------------------------------------
(* read_grep: lines printed before are dropped; a second search in a row that
   prints nothing new masks the tool.

   Mutant: the streak is not reset by a search that prints something new.    *)
StreakKept == streak
StreakReset == 0

GrepPrints(lines) ==
  IF lines \subseteq grepSeen
  THEN /\ streak' = streak + 1
       /\ hidden' = IF streak' >= 2 THEN hidden \cup {"read_grep"} ELSE hidden
       /\ EndStep("read_grep", 0, Duplicate)
       /\ UNCHANGED <<page, caches>>
  ELSE /\ grepSeen' = grepSeen \cup lines
       /\ streak' = StreakReset
       /\ EndStep("read_grep", 0, Printed(lines \ grepSeen))
       /\ UNCHANGED <<page, hidden, readCache, listCache>>

GrepReturns ==
  /\ phase = "grep"
  /\ \E lines \in SUBSET Lines \ {{}} : GrepPrints(lines)

GrepRaises == phase = "grep" /\ Raises("read_grep", 0)

(* A pattern seen nowhere is not searched for; its error is a printed line. *)
GrepBlocked ==
  /\ phase = "chat" /\ "read_grep" \in Tools \ hidden
  /\ \E line \in Lines : GrepPrints({line})

-----------------------------------------------------------------------------
(* list_interactive: one snapshot for each hop.  What is memorised, and served
   next to the live section of the prompt, is the number of elements.        *)
Listed(offset) ==
  LET left == Elements[page] - offset IN
  IF left < 0 THEN 0 ELSE IF left < ListLimit THEN left ELSE ListLimit

ListSnapshot ==
  /\ phase = "list"
  /\ IF ~WasServed(listCache, at, Listed(at))
     THEN /\ listCache' = Record(listCache, at, Listed(at))
          /\ EndStep("list_interactive", at, Served(<<Listed(at)>>))
          /\ streak' = 0
          /\ UNCHANGED <<page, hidden, readCache, grepSeen>>
     ELSE IF hops + 1 >= MaxHops
     THEN /\ hidden' = hidden \cup {"list_interactive"}
          /\ EndStep("list_interactive", at, Exhausted(at))
          /\ streak' = 0
          /\ UNCHANGED <<page, caches>>
     ELSE /\ hops' = hops + 1 /\ at' = at + ListLimit
          /\ UNCHANGED <<page, phase, step, hidden, caches, streak, walls, tape, ends>>

ListFails ==
  /\ phase = "list" /\ Flaky
  /\ EndStep("list_interactive", at, Error)
  /\ streak' = 0
  /\ UNCHANGED <<page, hidden, caches>>

-----------------------------------------------------------------------------
(* The other tools.  Those that act on the page may change its text; a question
   to the user is, here, like a note of the agent to itself.                 *)
ToolReturns ==
  /\ phase \in {"act", "press_key", "reason"}
  /\ page' \in IF phase = "reason" THEN {page} ELSE Texts
  /\ EndStep(phase, 0, Ok)
  /\ streak' = 0
  /\ UNCHANGED <<hidden, caches>>

ToolRaises == phase \in {"act", "press_key", "reason"} /\ Raises(phase, 0)

(* done(): rejected with an error, or the end of the run.  The done event is
   written before the page knowledge is distilled.                           *)
DoneRejected == phase = "chat" /\ "done" \in Tools /\ Raises("done", 0)

Done(status) ==
  /\ doneEvent' = status
  /\ phase' = "distilling"
  /\ UNCHANGED <<page, step, at, hops, hidden, caches, streak, walls, tape, outcome>>

DoneAccepted == phase = "chat" /\ "done" \in Tools /\ \E s \in Statuses : Done(s)

(* The last step asks the model for done() and nothing else.               *)
LastStep ==
  /\ phase = "look" /\ step = MaxSteps - 1
  /\ phase' = "forcing"
  /\ UNCHANGED <<page, step, at, hops, hidden, caches, streak, walls, tape, ends>>

(* Mutant: the model is asked again until its done() is accepted.          *)
AskAgain == phase = "forcing" /\ UNCHANGED vars
ForcedDone == phase = "forcing" /\ \E s \in Statuses : Done(s)

Distilled ==
  /\ phase = "distilling"
  /\ phase' = "over" /\ outcome' = doneEvent
  /\ UNCHANGED <<page, step, at, hops, hidden, caches, streak, walls, tape, doneEvent>>

(* The model cannot be reached, or its arguments are no JSON: nobody catches. *)
ChatRaises ==
  /\ phase \in {"chat", "forcing"}
  /\ phase' = "over" /\ outcome' = "raised"
  /\ UNCHANGED <<page, step, at, hops, hidden, caches, streak, walls, tape, doneEvent>>

(* The client leaves: the task is cancelled wherever it waits.             *)
Cancelled ==
  /\ phase # "over"
  /\ phase' = "over" /\ outcome' = "cancelled"
  /\ UNCHANGED <<page, step, at, hops, hidden, caches, streak, walls, tape, doneEvent>>

(* Evaluating the page, counting its elements, pressing a key and taking a
   snapshot have no time limit, and neither has the user who is asked: a call
   may never return.  Only a cancellation ends the run then.                 *)
Hangs ==
  /\ phase \in {"look", "plan", "read", "grep", "list", "act", "press_key", "reason"}
  /\ phase' = "hung"
  /\ UNCHANGED <<page, step, at, hops, hidden, caches, streak, walls, tape, ends>>

(* Scripts of the page run at any time.                                    *)
PageMoves ==
  /\ Flaky /\ phase \notin {"over", "hung"}
  /\ page' \in Texts \ {page}
  /\ UNCHANGED <<phase, step, at, hops, hidden, caches, streak, walls, tape, ends>>

-----------------------------------------------------------------------------
Init ==
  /\ setting \in Settings /\ page \in Texts
  /\ phase = "look" /\ step = 0 /\ at = 0 /\ hops = 0
  /\ prev = NoText /\ hidden = {}
  /\ readCache = EmptyCache /\ listCache = EmptyCache /\ grepSeen = {} /\ streak = 0
  /\ wallKind = "none" /\ wallStreak = 0
  /\ tape = <<>> /\ seen = <<>> /\ doneEvent = "none" /\ outcome = "none"

Replies ==
  \/ \E name \in Tools \cup {"unknown"} : NotAllowed(name) \/ NoReason(name)
  \/ NoToolCall \/ Chat \/ GrepBlocked \/ DoneRejected \/ DoneAccepted \/ ForcedDone
  \/ Distilled

Returns ==
  \/ PlanTheRead \/ ReadReturns \/ ReadRaises
  \/ GrepReturns \/ GrepRaises \/ ListSnapshot \/ ListFails
  \/ ToolReturns \/ ToolRaises

Proceed == UNCHANGED setting /\ (Look \/ LastStep \/ Replies \/ Returns)

Finished == phase = "over" /\ UNCHANGED vars

Next ==
  \/ Proceed
  \/ UNCHANGED setting /\ (ChatRaises \/ Cancelled \/ Hangs \/ PageMoves)
  \/ Finished

Spec == Init /\ [][Next]_vars

(* A reply of the model ends (timeout of 120 seconds), a call into the page
   ends or hangs, and the loop itself is never blocked.                      *)
FairSpec == Spec /\ WF_vars(Proceed)

-----------------------------------------------------------------------------
(* The type of the state.                                                  *)
TypeOK ==
  /\ page \in Texts /\ phase \in Phases
  /\ step \in 0..(MaxSteps - 1) /\ at \in Int /\ hops \in 0..MaxHops
  /\ prev \in Texts \cup {<<>>, NoText}
  /\ hidden \subseteq {"read", "read_grep", "list_interactive", "press_key"}
  /\ grepSeen \subseteq Lines /\ streak \in 0..MaxSteps
  /\ wallStreak \in 0..MaxSteps
  /\ seen \in Seq(Texts \cup {<<>>})
  /\ doneEvent \in Statuses \cup {"none"}
  /\ outcome \in Statuses \cup {"none", "raised", "cancelled"}

(* The text has been the same in every look since step i.                  *)
SteadySince(i) == \A j \in i..Len(seen) : seen[j] = seen[Len(seen)]

(* No mask outlives the page it was earned on: a hidden tool brought nothing
   new in a step since which no look saw the text change.                    *)
MasksAreEarned ==
  \A tool \in hidden : \E i \in DOMAIN tape :
    /\ tape[i].action = tool /\ SteadySince(i)
    /\ tool = "press_key" \/ tape[i].obs.kind \in {"end", "duplicate"}

(* A line of a search is dropped only if it was printed since the text last
   changed: what the loop remembers is what those steps printed.             *)
PrintedOnThisPage ==
  grepSeen = UNION {tape[i].obs.lines : i \in
    {k \in DOMAIN tape : tape[k].obs.kind = "lines" /\ SteadySince(k)}}

(* The streak behind the BLOCKED banner counts the consecutive last looks that
   met the same kind of wall.                                                *)
WallStreakCounts ==
  seen # <<>> =>
    LET kind == WallOf[seen[Len(seen)]] IN
    wallStreak = IF kind = "none" THEN 0
                 ELSE Cardinality({i \in DOMAIN seen :
                        \A j \in i..Len(seen) : WallOf[seen[j]] = kind})

(* A search is masked only after two searches of the same page, without any
   other tool that ran in between, printed nothing new.                      *)
TwoVainSearches ==
  "read_grep" \in hidden => \E i, j \in DOMAIN tape :
    /\ i < j /\ SteadySince(i)
    /\ \A k \in {i, j} : tape[k].obs = Duplicate
    /\ \A k \in (i + 1)..(j - 1) : tape[k].obs.kind \in {"error", "end"}

(* On a page that only the agent changes, no read repeats a window that the
   agent has read at that offset since the text last changed.                *)
ReadsAreNews ==
  ~Flaky => \A i, j \in DOMAIN tape :
    ( /\ i < j /\ tape[i].action = "read" /\ tape[j].action = "read"
      /\ tape[i].obs.kind = "text" /\ tape[i].offset = tape[j].offset
      /\ \A k \in i..j : seen[k] = seen[i] )
    => tape[j].obs # tape[i].obs

(* max_steps bounds the run: whatever the model answers and however calls fail,
   it ends, or stands for ever in one call that has no time limit.           *)
RunEnds == <>(phase \in {"over", "hung"})

-----------------------------------------------------------------------------
(* Claims of the documents and comments that the code does not keep.       *)

(* page_diff.py:8, "Per-offset memo of the last string served to the LLM at
   each offset".                                                             *)
MemoIsWhatWasServed ==
  phase \notin {"read", "over", "hung"} => \A o \in DOMAIN readCache :
    LET reads == {i \in DOMAIN tape : /\ tape[i].action = "read" /\ tape[i].offset = o
                                      /\ tape[i].obs.kind = "text"}
    IN  \E i \in reads : /\ \A j \in reads : j <= i
                         /\ tape[i].obs.text = readCache[o]

(* The message that masks the search, "returned only previously-shown lines 3x
   in a row" (loop.py:567-568), and its design, "3rd consecutive call where every
   line was already shown" (2026-05-03-readgrep-redesign-...-design.md:143):
   three searches of the same page, one after another, brought nothing new.    *)
ThreeVainSearches ==
  "read_grep" \in hidden => \E first, third \in DOMAIN tape :
    /\ first < third /\ SteadySince(first)
    /\ \A k \in first..third : tape[k].obs.kind \in {"duplicate", "error", "end"}
    /\ Cardinality({k \in first..third : tape[k].obs = Duplicate}) = 3

=============================================================================
