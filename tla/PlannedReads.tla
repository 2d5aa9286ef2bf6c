----------------------------- MODULE PlannedReads -----------------------------
(***************************************************************************)
(* A read that is repeated on one page: what plan_read plans for it, with  *)
(* the memo of the windows that it served before.                          *)
(***************************************************************************)
EXTENDS PageDiff

CONSTANTS
  Texts,     (* texts of a page                                            *)
  Caches,    (* memos that earlier reads, also of other texts, left behind *)
  Requests,  (* offsets asked for; negative ones count from the end        *)
  Hops,      (* caps on the hops (_max_auto_advance_hops)                  *)
  Limit,     (* length of a window (_read_limit, 1600)                     *)
  MaxAsked   (* bound: times the request is made                           *)

ASSUME PlannedReadsAssumption ==
  /\ \A text \in Texts : text \in Seq({text[i] : i \in DOMAIN text})
  /\ Requests \subseteq Int /\ Hops \subseteq Nat
  /\ Limit \in Nat \ {0}

VARIABLES
  page, cache, requested, maxHops,
  plan,   (* of the last request                                           *)
  asked   (* requests                                                      *)
planVars == <<page, cache, requested, maxHops, plan, asked>>

PlanInit ==
  /\ page \in Texts /\ cache \in Caches
  /\ requested \in Requests /\ maxHops \in Hops
  /\ plan = PlanRead(page, requested, cache, Limit, maxHops)
  /\ asked = 1

(* The window is served, and recorded before the next request for it.      *)
AskAgain ==
  /\ ~plan.exhausted /\ asked < MaxAsked
  /\ asked' = asked + 1
  /\ cache' = Record(cache, plan.offset, plan.served)
  /\ plan' = PlanRead(page, requested, cache', Limit, maxHops)
  /\ UNCHANGED <<page, requested, maxHops>>

PlanSpec == PlanInit /\ [][AskAgain]_planVars

-----------------------------------------------------------------------------
(* The plan is the one that the loop of plan_read computes.                *)
PlanIsTheLoop == plan = PlanByLoop(page, requested, cache, Limit, maxHops)

(* A served plan is progress: asked again, after its window was recorded, the
   same request is answered by a later window or not at all.                 *)
NextPlanMovesOn ==
  [][plan'.exhausted \/ plan'.offset > plan.offset]_planVars

=============================================================================
