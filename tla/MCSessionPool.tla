---------------------------- MODULE MCSessionPool ----------------------------
(* Four sessions over two slots: two hold, two wait, and a slot can be freed,
   handed over, cancelled and passed on while newcomers arrive.             *)
EXTENDS SessionPoolRefinement
=============================================================================
