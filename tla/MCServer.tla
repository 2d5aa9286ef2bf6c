------------------------------- MODULE MCServer -------------------------------
(* The server and its page: the slots for browsing sessions, with four sessions *)
(* over two of them, so that a slot can be freed, handed over, cancelled and    *)
(* passed on while newcomers arrive; the question channel of one session, a few *)
(* questions in a row, where the answer of one could meet the next; and the     *)
(* page that moves among sessions and runs.  Each behaviour has one subject;    *)
(* the variables of the others rest.                                            *)
EXTENDS SessionPoolRefinement, AskUser, Page

VARIABLE subject  (* "pool", "channel", "page"                             *)

MCInit ==
  /\ subject \in {"pool", "channel", "page"}
  /\ Init /\ AskInit /\ PageInit

PoolMoves == subject = "pool" /\ UNCHANGED <<subject, askVars, system>>
ChannelMoves == subject = "channel" /\ UNCHANGED <<subject, vars, system>>

MCNext ==
  \/ PoolMoves /\ Next
  \/ ChannelMoves /\ AskNext
  \/ subject = "page" /\ PageNext /\ UNCHANGED <<subject, vars, askVars>>

MCSpec ==
  /\ MCInit /\ [][MCNext]_<<subject, vars, askVars, system>>
  /\ \A s \in Sessions : WF_vars(PoolMoves /\ Progress(s))
  /\ WF_askVars(ChannelMoves /\ Deliver)
  /\ WF_askVars(ChannelMoves /\ UserAnswers)
=============================================================================
