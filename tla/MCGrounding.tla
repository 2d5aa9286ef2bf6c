----------------------------- MODULE MCGrounding -----------------------------
(* What ties the agent to the page: its claims, and the elements it acts on.   *)
(* Claims: two pages with a word in common, and a model that cites what it read, *)
(* words of the goal, what it made up unless the user says the same, and the    *)
(* harness's own words.  Elements: a field, a select, an option in a closed     *)
(* shadow root, and a field in an open one that a script may add, or make by    *)
(* cloning.  Each behaviour has one subject.                                    *)
EXTENDS Grounding, Elements

MCPageTexts == {<<"ann", "bob">>, <<"bob", "cid">>}
MCUserTexts == {<<"eve", "eve">>}
MCGoal == <<"cid">>
MCCitations == {<<"ann", "bob">>, <<"bob">>, <<"cid">>, <<"eve", "eve">>, <<Wording>>}

MCNodes == {"field", "select", "option", "spare"}
MCRole ==
  [n \in MCNodes |-> CASE n = "option" -> "option" [] n = "select" -> "select" [] OTHER -> "textbox"]

MCRoot ==
  [n \in MCNodes |-> CASE n = "spare" -> "open" [] n = "option" -> "closed" [] OTHER -> "document"]

VARIABLE subject  (* "claims", "elements" *)
MCVars == <<subject, vars, elementVars>>

MCInit == subject \in {"claims", "elements"} /\ Init /\ ElementsInit

MCNext ==
  \/ subject = "claims" /\ Next /\ UNCHANGED <<subject, elementVars>>
  \/ subject = "elements" /\ ElementsNext /\ UNCHANGED <<subject, vars>>

MCSpec == MCInit /\ [][MCNext]_MCVars
=============================================================================
