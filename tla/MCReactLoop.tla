----------------------------- MODULE MCReactLoop -----------------------------
(* Two pages of which the first is longer than a window, each behind a wall   *)
(* of its own kind.  The windows at offset 0 differ, so that a read can tell the pages.   *)
EXTENDS ReactLoop, TLC

Long == <<"a", "b", "c">>
Short == <<"d", "b">>

MCTexts == {Long, Short}
MCWallOf == (Long :> "captcha") @@ (Short :> "login") @@ (<<>> :> "none")
MCElements == (Long :> 2) @@ (Short :> 1)

(* The tools that can be masked, on a page that changes by itself; and longer
   runs on a page that only the agent changes.                               *)
Unsteady == [tools |-> {"read", "read_grep", "list_interactive", "press_key"},
             lines |-> {"l1"}, maxSteps |-> 4, flaky |-> TRUE]
Steady == [tools |-> {"read", "read_grep", "act", "done"},
           lines |-> {"l1", "l2"}, maxSteps |-> 5, flaky |-> FALSE]
MCSettings == {Unsteady, Steady}

(* Reads and acts on a page that changes by itself.                         *)
MCReads == {[tools |-> {"read", "act"}, lines |-> {"l1"}, maxSteps |-> 4, flaky |-> TRUE]}
=============================================================================
