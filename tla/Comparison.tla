------------------------------ MODULE Comparison ------------------------------
(***************************************************************************)
(* One filing of the regression: the records of the legacy script and of a *)
(* run, compared once, and what its verdict says of them.                  *)
(***************************************************************************)
EXTENDS Regression

CONSTANTS
  Layouts,   (* sequences of records: item, status, length, range          *)
  Overrides  (* the kinds of differences that are tolerated, per item      *)

ASSUME RegressionAssumption ==
  \A layout \in Layouts : layout \in Seq({layout[k] : k \in DOMAIN layout})

VARIABLES
  legacy, current,  (* the layouts of one filing                           *)
  override          (* its entry of legacy_overrides.json                  *)
diffVars == <<legacy, current, override>>

(* One comparison of two layouts.                                          *)
DiffInit == legacy \in Layouts /\ current \in Layouts /\ override \in Overrides
DiffSpec == DiffInit /\ [][FALSE]_diffVars

StatusesIn(layout, i) == {r.status : r \in {x \in Range(layout) : x.item = i}}
PlacesOf(layout, i) == {k \in DOMAIN layout : layout[k].item = i}

(* task3/README.md:45-52, "the regression diff": where an item has one record on
   either side, an item that is gone, is new or has another status fails the
   filing, or that kind of difference is tolerated for that item; a filing is ok
   only if it has the items and statuses of the legacy layout, all of them counted
   as matching, and as many records (regression.py:78).                      *)
DriftIsReported ==
  LET diff == DiffFiling(legacy, current, override)
      items == {i \in ItemsIn(legacy) \cup ItemsIn(current) :
                  Cardinality(PlacesOf(legacy, i)) <= 1 /\ Cardinality(PlacesOf(current, i)) <= 1}
      Kind(i) == IF StatusesIn(current, i) = {} THEN "missing"
                 ELSE IF StatusesIn(legacy, i) = {} THEN "extra" ELSE "status_flip"
  IN
  /\ \A i \in items : StatusesIn(legacy, i) # StatusesIn(current, i) =>
       \/ Verdict(diff) = "hard"
       \/ i \in DOMAIN override /\ Kind(i) \in override[i]
  /\ Verdict(diff) = "ok" =>
       /\ \A i \in items : StatusesIn(legacy, i) = StatusesIn(current, i)
       /\ Len(legacy) = Len(current)
       /\ diff.strict = diff.total /\ diff.allowed = diff.total /\ diff.within = diff.total

=============================================================================
