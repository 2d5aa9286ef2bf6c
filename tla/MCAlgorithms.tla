----------------------------- MODULE MCAlgorithms -----------------------------
(* The sequential algorithms over every small input.  A read asked again:   *)
(* against the loop of the source, written out hop by hop.  The slicer and *)
(* the status split, the diff with a legacy layout: against what a reader  *)
(* of the records would say.  The tools of a session, the runs that        *)
(* distil: in every order.  The token bucket: over every timing.  Each     *)
(* behaviour has one subject; the variables of the others keep a default.  *)
EXTENDS PlannedReads, Slicing, StatusSplit, Toolbox, Notes, Comparison,
        TokenBucket

Letters == {"a", "b"}
MCTexts == UNION {[1..n -> Letters] : n \in 0..3}
MCWindows == UNION {[1..n -> Letters] : n \in 1..Limit}
MCCaches == UNION {[D -> MCWindows] : D \in SUBSET {-1, 0, 2}}
MCRequests == -1..3

(* Filings of up to six letters: headings anywhere, page numbers, empty lines. *)
MCFilings == UNION {[1..n -> Items \cup {"n", "9", "x"}] : n \in 1..6}

(* Four records of one filing: a first one with a heading after it, one that splits
   in two, one that is not asked about, and one whose call failed.  The segments
   of the first have any status and snippet.                                 *)
Bodies ==
  UNION {[1..n -> {"x", "y"}] : n \in 1..3}
    \cup {<<"x", "x", "y", "y">>, <<"y", "x", "x", "y">>, <<"x", "y", "x", "x">>, <<"x", "x", "x", "y">>}
Segments ==
  [status : {"extracted", "not_applicable"}, starts : UNION {[1..n -> {"x", "y"}] : n \in 1..2}]
    \cup {[status |-> "unknown", starts |-> <<"x">>], [status |-> "extracted", starts |-> <<>>]}
RecordsOf(body) ==
  LET content == <<body, <<"x", "y">>, <<"y", "x">>, <<"x", "y">>>>
      from(k) == IF k = 1 THEN 0 ELSE Len(body) + 1 + 2 * (k - 2)
  IN  [k \in 1..4 |-> [item |-> IF k = 1 THEN "15" ELSE "1", at |-> 0, from |-> from(k),
                       to |-> from(k) + Len(content[k]), content |-> content[k],
                       status |-> IF k = 3 THEN "reserved" ELSE "extracted"]]
MCLabellings ==
  {[records |-> RecordsOf(body),
    reply |-> <<segs,
      <<[status |-> "not_applicable", starts |-> <<"x">>], [status |-> "extracted", starts |-> <<"y">>]>>,
      <<[status |-> "not_applicable", starts |-> <<"y">>]>>>>] :
    body \in Bodies, segs \in UNION {[1..n -> Segments] : n \in 0..3}}

(* Two texts of a session, in one of which the second heading lies past the end
   of the other.                                                             *)
MCCleaned == {<<"A", "n", "x", "y">>, <<"A", "n", "x", "y", "x", "x", "n", "B", "n", "x">>}
MCRanges == {<<2, 4>>, <<2, 9>>, <<-1, 2>>}
MCContents == {<<"x">>}
MCReplied == {<<[status |-> "incorporated_by_reference", starts |-> <<"y">>]>>}

(* Runs end on two pages of one site and on a page of another; a line may fill the
   note or be too long for it.                                               *)
MCPages == {[site |-> "s", path |-> "/"], [site |-> "s", path |-> "/p"], [site |-> "t", path |-> "/p"]}
MCLearned == {<<"a">>, <<"w", "w">>, <<"a", "n", "w">>, <<"a", "a", "a", "a">>, <<"a", "w", "w", "a">>}

(* Layouts of up to two records; a length of 21 is a twentieth more than 20, a
   length of 20 is not a twentieth less than 21.                             *)
LayoutRecords ==
  {[item |-> i, status |-> s, length |-> n, range |-> <<0, n>>] :
     i \in Items, s \in {"extracted", "reserved"}, n \in {20, 21}}
    \cup {[item |-> NoItem, status |-> "extracted", length |-> 20, range |-> <<>>]}
MCLayouts == UNION {[1..n -> LayoutRecords] : n \in 0..2}
MCOverrides ==
  {[i \in D |-> {kind}] : D \in SUBSET Items,
                          kind \in {"missing", "extra", "status_flip", "count_drift"}}

VARIABLE subject  (* "plan", "slice", "split", "diff", "tools", "notes", "bucket" *)
inputs == <<planVars, sliceVars, splitVars, diffVars>>
vars == <<subject, inputs, toolVars, noteVars, bucket>>

NoPlan ==
  /\ page = <<>> /\ cache = EmptyCache /\ requested = 0 /\ maxHops = 0 /\ asked = MaxAsked
  /\ plan = [offset |-> 0, served |-> <<>>, advanced |-> FALSE, exhausted |-> TRUE]

NoSlices == filing = <<>> /\ tocEnd = 0
NoSplit == parents = <<>> /\ reply = <<>>
NoLayouts == legacy = <<>> /\ current = <<>> /\ override = <<>>

Init ==
  /\ BucketInit /\ ToolboxInit /\ NotesInit
  /\ \/ subject = "plan" /\ PlanInit /\ NoSlices /\ NoSplit /\ NoLayouts
     \/ subject = "slice" /\ SliceInit /\ NoPlan /\ NoSplit /\ NoLayouts
     \/ subject = "split" /\ SplitInit /\ NoPlan /\ NoSlices /\ NoLayouts
     \/ subject = "diff" /\ DiffInit /\ NoPlan /\ NoSlices /\ NoSplit
     \/ subject \in {"tools", "notes", "bucket"} /\ NoPlan /\ NoSlices /\ NoSplit /\ NoLayouts

ReadAgain ==
  /\ AskAgain
  /\ UNCHANGED <<subject, sliceVars, splitVars, diffVars, toolVars, noteVars, bucket>>

Throttle ==
  /\ subject = "bucket"
  /\ BucketNext
  /\ UNCHANGED <<subject, inputs, toolVars, noteVars>>

UseTools ==
  /\ subject = "tools"
  /\ ToolboxNext
  /\ UNCHANGED <<subject, inputs, noteVars, bucket>>

TakeNotes ==
  /\ subject = "notes"
  /\ NotesNext
  /\ UNCHANGED <<subject, inputs, toolVars, bucket>>

Next == ReadAgain \/ Throttle \/ UseTools \/ TakeNotes

Spec == Init /\ [][Next]_vars

=============================================================================
