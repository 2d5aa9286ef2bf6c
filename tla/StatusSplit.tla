------------------------------ MODULE StatusSplit ------------------------------
(***************************************************************************)
(* The status pass on one filing: its records, which lie apart in the text *)
(* as slice_items leaves them, the replies of the small model, and the     *)
(* records that classify_records makes of both.                            *)
(***************************************************************************)
EXTENDS Records

CONSTANT Labellings  (* records of a filing, with the replies that carry segments *)

AreRecords(records) ==
  /\ IsSequence(records)
  /\ \A k \in DOMAIN records :
       /\ DOMAIN records[k] = {"item", "at", "from", "to", "content", "status"}
       /\ IsSequence(records[k].content) /\ records[k].from \in Nat
       /\ records[k].to = records[k].from + Len(records[k].content)
  /\ \A j, k \in DOMAIN records : j < k => records[j].to <= records[k].from

AreSegments(segs) ==
  IsSequence(segs) /\ \A i \in DOMAIN segs : IsSequence(segs[i].starts)

ASSUME StatusSplitAssumption ==
  \A l \in Labellings : AreRecords(l.records) /\ \A k \in DOMAIN l.reply : AreSegments(l.reply[k])

VARIABLES
  parents, (* the records before the pass                                  *)
  reply    (* the segments of each record that the model has labelled      *)
splitVars == <<parents, reply>>

SplitInit == \E l \in Labellings : parents = l.records /\ reply = l.reply
SplitSpec == SplitInit /\ [][FALSE]_splitVars

-----------------------------------------------------------------------------
(* The status of a letter of a body: of the last segment that starts at or before
   it, extracted where there is none.                                        *)
LabelAt(body, segs, p) ==
  LET spans == SpansOf(body, segs)
      before == {i \in DOMAIN spans : spans[i].at <= p}
  IN  IF before = {} THEN "extracted" ELSE spans[Max(before)].status

(* A reply counts if the record was asked about and the segments can be applied. *)
Counts(k) ==
  k \in DOMAIN reply /\ Eligible(parents[k]) /\ Accepted(parents[k].content, reply[k])
StatusAt(k, p) ==
  IF Counts(k) THEN LabelAt(parents[k].content, reply[k], p) ELSE parents[k].status

IsPieceOf(piece, k) ==
  LET parent == parents[k] IN
  /\ piece.item = parent.item
  /\ parent.from <= piece.from /\ piece.from <= piece.to /\ piece.to <= parent.to
  /\ piece.content = Part(parent.content, piece.from - parent.from, piece.to - parent.from)
  /\ \A p \in piece.from..(piece.to - 1) : piece.status = StatusAt(k, p - parent.from)

(* However the replies fail or split, no letter changes hands: the new records do
   not overlap, together they hold every letter of the old ones, each lies in one
   old record and is of its item, with the content of its range, and each letter
   has the status that the reply for its own record gives it.                *)
SplitAsLabelled ==
  LET pieces == ClassifyRecords(parents, reply) IN
  /\ RangeFindings(pieces) = {}
  /\ \A j \in DOMAIN pieces : \E k \in DOMAIN parents : IsPieceOf(pieces[j], k)
  /\ \A k \in DOMAIN parents : \A p \in parents[k].from..(parents[k].to - 1) :
       \E j \in DOMAIN pieces : p \in pieces[j].from..(pieces[j].to - 1)

=============================================================================
