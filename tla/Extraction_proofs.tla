-------------------------- MODULE Extraction_proofs --------------------------
(* What the queue and the budgets of the extraction agent keep for every
   sheet, every price list and every bound.                                  *)
EXTENDS Extraction, FiniteSetTheorems, TLAPS

Active == proc \in {"thinking", "calling", "ended", "marking"}

(* The row that is run is the first that is not ticked off, until mark_done
   has written the sheet.                                                    *)
RowIsNext == Active => IsFirst(row, Rows \ marked)

QueueInv == marked \subseteq Rows /\ RowIsNext /\ MarkedInOrder

LEMMA QueueInit == Init => QueueInv
  BY DEF Init, QueueInv, RowIsNext, MarkedInOrder, Active

(* A step that leaves the sheet and the row alone, and starts no run.        *)
LEMMA QueueKept ==
  ASSUME QueueInv, UNCHANGED <<row, marked>>, Active' => Active
  PROVE  QueueInv'
  BY DEF QueueInv, RowIsNext, MarkedInOrder, IsFirst, Rows

LEMMA RowTaken == QueueInv /\ TakeRow => QueueInv'
<1> SUFFICES ASSUME QueueInv, TakeRow PROVE QueueInv'
  OBVIOUS
<1>1. marked' = marked
  BY DEF TakeRow, disk
<1>2. IsFirst(row', Rows \ marked)
  BY DEF TakeRow, Pending, IsFirst
<1> QED
  BY <1>1, <1>2 DEF QueueInv, RowIsNext, MarkedInOrder, IsFirst, Rows

(* The matching row that mark_done finds first is the one that was run.      *)
LEMMA RowFound == QueueInv /\ MarkEnds => row \in Rows \ marked /\ marked' = marked \cup {row}
<1> SUFFICES ASSUME QueueInv, MarkEnds PROVE row \in Rows \ marked /\ marked' = marked \cup {row}
  OBVIOUS
<1> DEFINE matches == {i \in Rows \ marked : Sheet[i] = Sheet[row]}
<1>1. IsFirst(row, Rows \ marked)
  BY DEF QueueInv, RowIsNext, Active, MarkEnds
<1>2. matches \subseteq Nat
  BY SheetIsList DEF Rows
<1>3. row \in Rows \ marked /\ row \in matches /\ \A j \in matches : row <= j
  BY <1>1 DEF IsFirst
<1>4. MatchTaken(matches) = {row}
  <2> HIDE DEF matches
  <2>1. IsFirst(row, matches)
    BY <1>3 DEF IsFirst
  <2>2. ASSUME NEW i \in matches, IsFirst(i, matches) PROVE i = row
    BY <1>2, <1>3, <2>2 DEF IsFirst
  <2> QED
    BY <1>3, <2>1, <2>2 DEF MatchTaken
<1> QED
  BY <1>3, <1>4 DEF MarkEnds

LEMMA RowMarked == QueueInv /\ MarkEnds => QueueInv'
<1> SUFFICES ASSUME QueueInv, MarkEnds PROVE QueueInv'
  OBVIOUS
<1>1. row \in Rows \ marked /\ marked' = marked \cup {row}
  BY RowFound
<1>2. ~Active'
  BY DEF MarkEnds, Active
<1>3. \A j \in Rows : j < row => j \in marked
  BY SheetIsList DEF QueueInv, RowIsNext, Active, MarkEnds, IsFirst, Rows
<1>4. MarkedInOrder'
  BY <1>1, <1>3 DEF QueueInv, MarkedInOrder, Rows
<1> QED
  BY <1>1, <1>2, <1>4 DEF QueueInv, RowIsNext, Rows

LEMMA QueueStep == QueueInv /\ [Next]_vars => QueueInv'
<1> SUFFICES ASSUME QueueInv, [Next]_vars PROVE QueueInv'
  OBVIOUS
<1>1. CASE Launch
  BY <1>1, QueueKept DEF Launch, disk, Active
<1>2. CASE TakeRow
  BY <1>2, RowTaken
<1>3. CASE LookEnds
  BY <1>3, QueueKept DEF LookEnds, disk, Active
<1>4. CASE RunStep
  <2>1. CASE LimitReached
    BY <2>1, QueueKept DEF LimitReached, RunReturns, disk, Active
  <2>2. CASE Reply
    BY <2>2, QueueKept DEF Reply, disk, Active
  <2>3. CASE ChatRaises
    BY <2>3, QueueKept DEF ChatRaises, disk, Active
  <2>4. CASE ToolCall
    <3>1. UNCHANGED marked
      BY <2>4 DEF ToolCall, Malformed, LooksOnly, CleanAndLoad, FindAnchors, SliceItems,
                  ChangeRecords, WriteOutput, Done, disk
    <3>2. UNCHANGED row /\ Active
      BY <2>4 DEF ToolCall, Malformed, LooksOnly, CleanAndLoad, FindAnchors, SliceItems,
                  ChangeRecords, WriteOutput, Done, NextCall, RunReturns, Active
    <3> QED
      BY <3>1, <3>2, QueueKept
  <2> QED
    BY <1>4, <2>1, <2>2, <2>3, <2>4 DEF RunStep
<1>5. CASE MarkBegins
  BY <1>5, QueueKept DEF MarkBegins, Active
<1>6. CASE MarkEnds
  BY <1>6, RowMarked
<1>7. CASE RunFailed
  BY <1>7, QueueKept DEF RunFailed, disk, Active
<1>8. CASE Crash
  BY <1>8, QueueKept DEF Crash, disk, Active
<1>9. CASE Finished \/ UNCHANGED vars
  BY <1>9, QueueKept DEF Finished, vars, process, disk, Active
<1>10. CASE Hangs
  BY <1>10, QueueKept DEF Hangs, disk, Active
<1> QED
  BY <1>1, <1>2, <1>3, <1>4, <1>5, <1>6, <1>7, <1>8, <1>9, <1>10 DEF Next

(* Rows are ticked off from the top on every sheet, with any number of rows of
   one filing, crashes and restarts (queue.py:95-154, __main__.py:111-137).   *)
THEOREM RowsInOrder == Spec => []MarkedInOrder
<1>1. QueueInv => MarkedInOrder
  BY DEF QueueInv
<1> QED
  BY <1>1, QueueInit, QueueStep, PTL DEF Spec

-----------------------------------------------------------------------------
(* Rows of a filing that are ticked off, and a run that has called done but has
   not ticked its row yet: it is one ahead.                                  *)
Ticks(f) == Cardinality({i \in marked : Sheet[i] = f})

DoneIsAhead ==
  proc \in {"ended", "marking"} /\ status = "done" => Ticks(Sheet[row]) < completed[Sheet[row]]

MarksInv ==
  /\ completed \in [Filings -> Nat]
  /\ MarksAreEarned
  /\ proc = "marking" => status = "done"
  /\ DoneIsAhead

LEMMA TicksType == ASSUME QueueInv, NEW f PROVE Ticks(f) \in Nat
<1>1. IsFiniteSet(Rows)
  BY SheetIsList, FS_Interval DEF Rows
<1>2. IsFiniteSet({i \in marked : Sheet[i] = f})
  BY <1>1, FS_Subset DEF QueueInv
<1> QED
  BY <1>2, FS_CardinalityType DEF Ticks

(* A tick counts for the filing of its row, and for no other.              *)
LEMMA TickAdded ==
  ASSUME QueueInv, row \in Rows \ marked, marked' = marked \cup {row}, NEW f
  PROVE  Ticks(f)' = Ticks(f) + (IF f = Sheet[row] THEN 1 ELSE 0)
<1> DEFINE S == {i \in marked : Sheet[i] = f}
<1>1. IsFiniteSet(S)
  <2>1. IsFiniteSet(Rows)
    BY SheetIsList, FS_Interval DEF Rows
  <2> QED
    BY <2>1, FS_Subset DEF QueueInv
<1>2. {i \in marked' : Sheet[i] = f} = IF f = Sheet[row] THEN S \cup {row} ELSE S
  OBVIOUS
<1>3. row \notin S
  OBVIOUS
<1>4. Ticks(f)' = Cardinality(IF f = Sheet[row] THEN S \cup {row} ELSE S)
  BY <1>2 DEF Ticks
<1>5. Ticks(f) = Cardinality(S)
  BY DEF Ticks
<1> HIDE DEF S
<1>6. Cardinality(S \cup {row}) = Cardinality(S) + 1 /\ Cardinality(S) \in Nat
  BY <1>1, <1>3, FS_AddElement, FS_CardinalityType
<1> QED
  BY <1>4, <1>5, <1>6

LEMMA MarksStep == QueueInv /\ MarksInv /\ [Next]_vars => MarksInv'
<1> SUFFICES ASSUME QueueInv, MarksInv, [Next]_vars PROVE MarksInv'
  OBVIOUS
<1> USE DEF MarksInv, DoneIsAhead
<1>1. ASSUME UNCHANGED <<marked, completed>>, proc' \notin {"ended", "marking"} PROVE MarksInv'
  BY <1>1 DEF MarksAreEarned
<1>2. ASSUME UNCHANGED <<marked, completed>>, RunReturns("max_steps_exceeded") \/ RunReturns("cost_exceeded")
      PROVE  MarksInv'
  BY <1>2 DEF MarksAreEarned, RunReturns
<1>3. CASE Launch \/ TakeRow \/ LookEnds \/ Reply \/ ChatRaises \/ RunFailed \/ Crash \/ Hangs
  BY <1>1, <1>3 DEF Launch, TakeRow, LookEnds, Reply, ChatRaises, RunFailed, Crash, Hangs, disk
<1>4. CASE LimitReached
  BY <1>2, <1>4 DEF LimitReached, disk
<1>5. CASE Malformed \/ LooksOnly \/ CleanAndLoad \/ FindAnchors \/ SliceItems \/ ChangeRecords \/ WriteOutput
  BY <1>1, <1>5 DEF Malformed, LooksOnly, CleanAndLoad, FindAnchors, SliceItems,
                    ChangeRecords, WriteOutput, NextCall, disk
<1>6. CASE Done
  <2>1. row \in Rows /\ Sheet[row] \in Filings
    BY <1>6 DEF Done, QueueInv, RowIsNext, Active, IsFirst, Filings
  <2>2. completed' = [completed EXCEPT ![Sheet[row]] = @ + 1] /\ UNCHANGED <<row, marked>>
        /\ proc' = "ended"
    BY <1>6 DEF Done, RunReturns, disk
  <2>3. \A f \in Filings : Ticks(f)' = Ticks(f) /\ Ticks(f) \in Nat /\ Ticks(f) <= completed[f]
    BY <2>2, TicksType DEF MarksAreEarned, Ticks
  <2>4. \A f \in Filings : Ticks(f)' <= completed'[f]
    BY <2>1, <2>2, <2>3
  <2>5. Ticks(Sheet[row])' < completed'[Sheet[row]]
    BY <2>1, <2>2, <2>3
  <2> QED
    BY <2>1, <2>2, <2>4, <2>5 DEF MarksAreEarned, Ticks
<1>7. CASE MarkBegins
  BY <1>7 DEF MarkBegins, WorthMarking, MarksAreEarned, Ticks
<1>8. CASE MarkEnds
  <2>1. row \in Rows \ marked /\ marked' = marked \cup {row}
    BY <1>8, RowFound
  <2>2. /\ UNCHANGED completed /\ proc' \notin {"ended", "marking"} /\ row \in Rows
        /\ Ticks(Sheet[row]) < completed[Sheet[row]]
    BY <1>8, <2>1 DEF MarkEnds
  <2>3. ASSUME NEW f \in Filings PROVE Ticks(f)' <= completed'[f]
    <3>1. Ticks(f) \in Nat /\ completed[f] \in Nat /\ Ticks(f) <= completed[f]
      BY TicksType DEF MarksAreEarned, Ticks
    <3> QED
      BY <2>1, <2>2, <3>1, TickAdded
  <2> QED
    BY <2>2, <2>3 DEF MarksAreEarned, Ticks
<1>9. CASE Finished \/ UNCHANGED vars
  BY <1>9 DEF Finished, vars, process, disk, MarksAreEarned, Ticks
<1> QED
  BY <1>3, <1>4, <1>5, <1>6, <1>7, <1>8, <1>9 DEF Next, RunStep, ToolCall

(* However often the process dies between the run, the sheet and the tick, and
   with any number of rows of one filing: a row is ticked off for a run of its
   filing that called done, and no run earns two (__main__.py:111-137, queue.py). *)
THEOREM TicksAreEarned == Spec => []MarksAreEarned
<1>1. Init => MarksInv
  <2> SUFFICES ASSUME Init PROVE MarksInv
    OBVIOUS
  <2>1. \A f : {i \in marked : Sheet[i] = f} = {}
    BY DEF Init
  <2>2. \A f : Cardinality({i \in marked : Sheet[i] = f}) = 0
    BY <2>1, FS_EmptySet
  <2> QED
    BY <2>2 DEF Init, MarksInv, MarksAreEarned, DoneIsAhead
<1>2. MarksInv => MarksAreEarned
  BY DEF MarksInv
<1> QED
  BY <1>1, <1>2, MarksStep, QueueInit, QueueStep, PTL DEF Spec

-----------------------------------------------------------------------------
(* The open calls of the transcript are the calls that are still to be done. *)
AnswerInv ==
  /\ proc = "thinking" => calls = 0 /\ unanswered = 0
  /\ proc = "calling" => calls \in Nat \ {0} /\ unanswered = calls

LEMMA AnswerStep == AnswerInv /\ [Next]_vars => AnswerInv'
<1> SUFFICES ASSUME AnswerInv, [Next]_vars PROVE AnswerInv'
  OBVIOUS
<1> USE DEF AnswerInv
<1>1. CASE proc' \notin {"thinking", "calling"}
  BY <1>1
<1>2. CASE TakeRow
  BY <1>2 DEF TakeRow, NewSession
<1>3. CASE Reply
  BY <1>3, Bounds DEF Reply
<1>4. CASE NextCall /\ Answered
  BY <1>4 DEF NextCall, Answered
<1>5. CASE Malformed \/ LooksOnly \/ CleanAndLoad \/ FindAnchors \/ SliceItems \/ ChangeRecords \/ WriteOutput
  BY <1>4, <1>5 DEF Malformed, MalformedAnswered, LooksOnly, CleanAndLoad, FindAnchors,
                    SliceItems, ChangeRecords, WriteOutput
<1>6. CASE Done \/ LimitReached
  BY <1>1, <1>6 DEF Done, LimitReached, RunReturns
<1>7. CASE Launch \/ LookEnds \/ ChatRaises \/ MarkBegins \/ MarkEnds \/ RunFailed \/ Crash \/ Hangs
  BY <1>1, <1>7 DEF Launch, LookEnds, ChatRaises, MarkBegins, MarkEnds, RunFailed, Crash, Hangs
<1>8. CASE Finished \/ UNCHANGED vars
  BY <1>8 DEF Finished, vars, process, budget
<1> QED
  BY <1>2, <1>3, <1>5, <1>6, <1>7, <1>8 DEF Next, RunStep, ToolCall

(* When the next request goes out, each call of the replies before has its
   answer, whatever the calls were (loop.py:92-124).                         *)
THEOREM CallsAreAnswered == Spec => []EveryCallAnswered
<1>1. Init => AnswerInv
  BY DEF Init, AnswerInv
<1>2. AnswerInv => EveryCallAnswered
  BY DEF AnswerInv, EveryCallAnswered
<1> QED
  BY <1>1, <1>2, AnswerStep, PTL DEF Spec

-----------------------------------------------------------------------------
BudgetInv == cost \in Nat /\ BudgetHolds

(* Nothing spent is below the ceiling.                                      *)
LEMMA NothingSpent == \E c \in Costs : 0 < Ceiling + c
<1>1. PICK c \in Costs : TRUE
  BY Prices
<1>2. c \in Nat /\ Ceiling \in Nat \ {0}
  BY Prices
<1>3. 0 < Ceiling + c
  BY <1>2
<1> QED
  BY <1>3

LEMMA BudgetInit == Init => BudgetInv
<1> SUFFICES ASSUME Init PROVE BudgetInv
  OBVIOUS
<1>1. cost = 0
  BY DEF Init
<1> QED
  BY <1>1, NothingSpent DEF BudgetInv, BudgetHolds

(* A reply is only asked for below the ceiling.                             *)
LEMMA ReplySpends == BudgetInv /\ Reply => BudgetInv'
<1> SUFFICES ASSUME BudgetInv, Reply PROVE BudgetInv'
  OBVIOUS
<1>1. PICK c \in Costs : cost' = cost + c
  BY DEF Reply
<1>2. c \in Nat /\ cost \in Nat /\ Ceiling \in Nat
  BY Prices DEF BudgetInv
<1>3. cost < Ceiling
  BY <1>2 DEF Reply, OverCeiling
<1>4. cost' < Ceiling + c /\ cost' \in Nat
  BY <1>1, <1>2, <1>3
<1> QED
  BY <1>4 DEF BudgetInv, BudgetHolds

LEMMA BudgetStep == BudgetInv /\ [Next]_vars => BudgetInv'
<1> SUFFICES ASSUME BudgetInv, [Next]_vars PROVE BudgetInv'
  OBVIOUS
<1>1. CASE UNCHANGED cost
  BY <1>1 DEF BudgetInv, BudgetHolds
<1>2. CASE TakeRow
  <2>1. cost' = 0
    BY <1>2 DEF TakeRow, NewSession
  <2> QED
    BY <2>1, NothingSpent DEF BudgetInv, BudgetHolds
<1>3. CASE Reply
  BY <1>3, ReplySpends
<1>4. ToolCall => UNCHANGED cost
  BY DEF ToolCall, Malformed, LooksOnly, CleanAndLoad, FindAnchors, SliceItems,
         ChangeRecords, WriteOutput, Done, NextCall
<1>5. LimitReached \/ ChatRaises => UNCHANGED cost
  BY DEF LimitReached, ChatRaises, budget
<1>6. Launch \/ LookEnds \/ MarkBegins \/ MarkEnds \/ RunFailed \/ Crash \/ Hangs => UNCHANGED cost
  BY DEF Launch, LookEnds, MarkBegins, MarkEnds, RunFailed, Crash, Hangs, budget
<1>7. Finished \/ UNCHANGED vars => UNCHANGED cost
  BY DEF Finished, vars, budget
<1> QED
  BY <1>1, <1>2, <1>3, <1>4, <1>5, <1>6, <1>7 DEF Next, RunStep

(* Whatever a reply costs, the counted cost passes the ceiling by less than one
   reply (loop.py:71-76).                                                    *)
THEOREM BudgetKept == Spec => []BudgetHolds
<1>1. BudgetInv => BudgetHolds
  BY DEF BudgetInv
<1> QED
  BY <1>1, BudgetInit, BudgetStep, PTL DEF Spec

=============================================================================
