------------------------------- MODULE FifoPool -------------------------------
(***************************************************************************)
(* What a pool of browsing sessions promises: at most Places clients are   *)
(* inside, the others stand in a line, places go to the head of the line,  *)
(* and whoever stays in the line gets in.  How a freed place travels (kept *)
(* as a counter, or handed over to a task that has not run yet) is left to *)
(* the implementation: a client may have to queue although a place is free,*)
(* but then somebody lets the head of the line in.                         *)
(***************************************************************************)
EXTENDS Naturals, FiniteSets, Sequences

CONSTANTS Clients, Places

VARIABLES inside, line

abstractVars == <<inside, line>>

InLine(c) == \E i \in DOMAIN line : line[i] = c
Without(i) == SubSeq(line, 1, i - 1) \o SubSeq(line, i + 1, Len(line))

Init == inside = {} /\ line = <<>>

WalkIn(c) ==
  /\ c \notin inside /\ ~InLine(c)
  /\ line = <<>> /\ Cardinality(inside) < Places
  /\ inside' = inside \cup {c}
  /\ UNCHANGED line

Join(c) ==
  /\ c \notin inside /\ ~InLine(c)
  /\ line' = Append(line, c)
  /\ UNCHANGED inside

GiveUp(c) ==
  /\ \E i \in DOMAIN line : line[i] = c /\ line' = Without(i)
  /\ UNCHANGED inside

Serve ==
  /\ line # <<>> /\ Cardinality(inside) < Places
  /\ inside' = inside \cup {Head(line)}
  /\ line' = Tail(line)

(* A client leaves; the head of the line, if any, takes its place at once. *)
Leave(c) ==
  /\ c \in inside
  /\ IF line = <<>>
     THEN inside' = inside \ {c} /\ UNCHANGED line
     ELSE inside' = (inside \ {c}) \cup {Head(line)} /\ line' = Tail(line)

Next ==
  \/ Serve
  \/ \E c \in Clients : WalkIn(c) \/ Join(c) \/ GiveUp(c) \/ Leave(c)

Spec == Init /\ [][Next]_abstractVars

FairSpec ==
  /\ Spec
  /\ WF_abstractVars(Serve)
  /\ \A c \in Clients : WF_abstractVars(Leave(c))

=============================================================================
