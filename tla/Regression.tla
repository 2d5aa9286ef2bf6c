------------------------------ MODULE Regression ------------------------------
(***************************************************************************)
(* eval/regression.py: the records of a filing against those of the legacy *)
(* script.  Differences are hard failures, soft ones (length or place of a *)
(* body) or, where legacy_overrides.json tolerates the kind for the item,  *)
(* expected; the accuracy of the run is counted beside them.               *)
(***************************************************************************)
EXTENDS Integers, Sequences, FiniteSets, FiniteSetsExt, SequencesExt

CONSTANT NoItem  (* a record without item_number                           *)

(* _index_by_item: the last record of each item.                           *)
ItemsIn(layout) == {r.item : r \in Range(layout)} \ {NoItem}
IndexByItem(layout) ==
  [i \in ItemsIn(layout) |-> layout[Max({k \in DOMAIN layout : layout[k].item = i})]]

(* _tol: an override gives each of its items the kinds it tolerates.
   Mutant: whatever the kind.                                                *)
ToleratedAtAll(override, item, kind) == item \in DOMAIN override /\ override[item] # {}
Tolerated(override, item, kind) == item \in DOMAIN override /\ kind \in override[item]

(* The body drifts by a twentieth of the legacy length or more.            *)
Gap(a, b) == IF a < b THEN b - a ELSE a - b
Drifts(l, c) == 20 * Gap(l.length, c.length) >= Max({l.length, 1})
(* _hausdorff; a range that is missing is not compared.                    *)
Moved(l, c) ==
  /\ l.range # <<>> /\ c.range # <<>>
  /\ Max({Gap(l.range[1], c.range[1]), Gap(l.range[2], c.range[2])}) > 0

(* _diff_filing: [hard, soft, expected] as sets of <<kind, item>>, and the counts.
   A count drift is tolerated for the filing when it is for any item.        *)
DiffFiling(legacy, current, override) ==
  LET old == IndexByItem(legacy)
      new == IndexByItem(current)
      both == DOMAIN old \cap DOMAIN new
      flipped == {i \in both : old[i].status # new[i].status}
      differences ==
        {<<"missing", i>> : i \in DOMAIN old \ DOMAIN new}
          \cup {<<"extra", i>> : i \in DOMAIN new \ DOMAIN old}
          \cup {<<"status_flip", i>> : i \in flipped}
      tolerated == {d \in differences : Tolerated(override, d[2], d[1])}
      drifted == {i \in both : Drifts(old[i], new[i])}
      moved == {i \in both \ drifted : Moved(old[i], new[i])}
      count == IF Len(legacy) = Len(current) THEN {} ELSE {<<"count_drift", NoItem>>}
      countTolerated == \E i \in DOMAIN override : "count_drift" \in override[i]
      strict == Cardinality(both \ flipped)
  IN  [hard |-> (differences \ tolerated) \cup (IF countTolerated THEN {} ELSE count),
       expected |-> tolerated \cup (IF countTolerated THEN count ELSE {}),
       soft |-> {<<"length", i>> : i \in drifted \ flipped} \cup {<<"range", i>> : i \in moved \ flipped},
       total |-> Cardinality(DOMAIN old),
       strict |-> strict,
       allowed |-> strict + Cardinality({d \in tolerated : d[1] = "status_flip"}),
       within |-> Cardinality(both \ drifted)]

(* The end of _evaluate_one, for a run that is in scope and done.          *)
Verdict(diff) ==
  IF diff.hard # {} THEN "hard"
  ELSE IF diff.soft # {} THEN "soft"
  ELSE IF diff.expected # {} THEN "expected" ELSE "ok"

=============================================================================
