-------------------------------- MODULE Slicing --------------------------------
(***************************************************************************)
(* One filing from its headings to its slices: what find_anchors reports,  *)
(* what slice_items cuts, and how the two belong together.                 *)
(***************************************************************************)
EXTENDS Records

CONSTANTS
  Filings,  (* cleaned filings                                             *)
  TocEnds   (* thresholds of the table of contents                         *)

ASSUME SlicingAssumption ==
  /\ \A text \in Filings : IsSequence(text)
  /\ TocEnds \subseteq Int

VARIABLES filing, tocEnd
sliceVars == <<filing, tocEnd>>

SliceInit == filing \in Filings /\ tocEnd \in TocEnds
SliceSpec == SliceInit /\ [][FALSE]_sliceVars

Headings == DedupeAnchors(FindAnchors(filing), tocEnd)
Slices == SliceItems(filing, Headings)

(* The find_anchors tool tells the model which heading of each item has the
   longest body, by a rule of its own; it is the one the slicer cuts at.     *)
ReportedIsSliced ==
  ByItem(filing, Headings) = [i \in ItemsOf(Headings) |->
    (CHOOSE r \in Range(Slices) : r.item = i).at]

(* Records are cut from between the headings that were kept: they do not overlap,
   and none holds a character of another's heading.                          *)
SlicesAreBodies ==
  /\ RangeFindings(Slices) = {}
  /\ \A r \in Range(Slices), a \in Headings : r.from >= a.end \/ r.to <= a.start

=============================================================================
