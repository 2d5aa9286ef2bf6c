------------------------------- MODULE Toolbox -------------------------------
(***************************************************************************)
(* The tools of the extraction agent (extract_agent/tools) on one session  *)
(* (state.py): texts, anchors and records, in whatever order the model     *)
(* calls them.  Each call names its text by itself, and a record is a      *)
(* range and a content that only the calls keep in step.                   *)
(***************************************************************************)
EXTENDS Records

CONSTANTS
  Cleaned,    (* texts that clean_and_load can return                        *)
  Thresholds, (* thresholds of the table of contents                         *)
  Ranges,     (* ranges that the model patches, as <<from, to>>              *)
  Contents,   (* contents that it patches                                    *)
  Replied,    (* segments that the small model replies                       *)
  MaxTexts, MaxCalls  (* bounds                                              *)

ASSUME ToolboxAssumption ==
  /\ \A text \in Cleaned : IsSequence(text)
  /\ \A segs \in Replied : IsSequence(segs) /\ \A i \in DOMAIN segs : IsSequence(segs[i].starts)
  /\ \A range \in Ranges : {range[1], range[2]} \subseteq Int

VARIABLES
  texts,      (* text_store: the text of each id, ids in the order of storing *)
  anchors,    (* of the last find_anchors                                    *)
  records,    (* of the last slice_items, classify_statuses, update_record   *)
  anchored,   (* history: the text that the anchors were found in            *)
  slips,      (* history: the kinds of calls that may part range and content *)
  used        (* calls                                                       *)
toolVars == <<texts, anchors, records, anchored, slips, used>>

Ids == DOMAIN texts
Call == used < MaxCalls /\ used' = used + 1

CleanAndLoad ==
  /\ Call /\ Len(texts) < MaxTexts
  /\ \E text \in Cleaned : texts' = Append(texts, text)
  /\ UNCHANGED <<anchors, records, anchored, slips>>

FindAnchorsTool ==
  /\ Call
  /\ \E id \in Ids, tocEnd \in Thresholds :
       anchors' = DedupeAnchors(FindAnchors(texts[id]), tocEnd) /\ anchored' = id
  /\ UNCHANGED <<texts, records, slips>>

(* slice_items: the anchors may be of another text.                        *)
SliceItemsTool ==
  /\ Call /\ anchors # {}
  /\ \E id \in Ids :
       /\ records' = SliceItems(texts[id], anchors)
       /\ slips' = IF texts[id] = texts[anchored] THEN {} ELSE {"other text"}
  /\ UNCHANGED <<texts, anchors, anchored>>

ClassifyStatuses ==
  /\ Call /\ records # <<>>
  /\ \E i \in DOMAIN records, segs \in Replied :
       records' = ClassifyRecords(records, [j \in {i} |-> segs])
  /\ UNCHANGED <<texts, anchors, anchored, slips>>

-----------------------------------------------------------------------------
(* update_record: the patch is applied, and after that the content is taken from
   the text of the range; if there is no such text the call reports an error.
   A negative position counts from the end.

   Mutant: the content stays.                                                *)
KeepContent(record, id) == record
FromEnd(text, p) == IF p < 0 THEN Max({0, Len(text) + p}) ELSE p
Recomputed(record, id) ==
  IF id \in Ids
  THEN [record EXCEPT !.content =
          Part(texts[id], FromEnd(texts[id], record.from), FromEnd(texts[id], record.to))]
  ELSE record

PatchRange ==
  /\ Call
  /\ \E i \in DOMAIN records, range \in Ranges, id \in Ids \cup {0} :
       /\ records' = [records EXCEPT ![i] =
            Recomputed([@ EXCEPT !.from = range[1], !.to = range[2]], id)]
       /\ slips' = slips \cup
            IF id \notin Ids THEN {"no text"}
            ELSE IF 0 <= range[1] /\ range[1] <= range[2] /\ range[2] <= Len(texts[id]) THEN {}
            ELSE {"no range"}
  /\ UNCHANGED <<texts, anchors, anchored>>

PatchContent ==
  /\ Call
  /\ \E i \in DOMAIN records, content \in Contents :
       records' = [records EXCEPT ![i].content = content]
  /\ slips' = slips \cup {"content"}
  /\ UNCHANGED <<texts, anchors, anchored>>

PatchStatus ==
  /\ Call
  /\ \E i \in DOMAIN records, status \in {"extracted", "reserved"} :
       records' = [records EXCEPT ![i].status = status]
  /\ UNCHANGED <<texts, anchors, anchored, slips>>

ToolboxInit ==
  /\ texts = <<>> /\ anchors = {} /\ records = <<>>
  /\ anchored = 0 /\ slips = {} /\ used = 0

ToolboxNext ==
  \/ CleanAndLoad \/ FindAnchorsTool \/ SliceItemsTool \/ ClassifyStatuses
  \/ PatchRange \/ PatchContent \/ PatchStatus

ToolboxSpec == ToolboxInit /\ [][ToolboxNext]_toolVars

-----------------------------------------------------------------------------
(* docs/plans/2026-05-04-task3-extraction-design.md:71, the char_range roundtrip,
   and task3/README.md:14, a char_range inside the text: over any sequence of
   tool calls a record parts from its text only by what "slips" names, a slice
   by the anchors of another text, a patch of a range that has no text or is not
   one of it, a patch that brings its own content.                           *)
RangesHoldContent ==
  slips = {} =>
    \A i \in DOMAIN records : \E id \in Ids :
      /\ 0 <= records[i].from /\ records[i].from <= records[i].to
      /\ records[i].to <= Len(texts[id])
      /\ records[i].content = Part(texts[id], records[i].from, records[i].to)

=============================================================================
