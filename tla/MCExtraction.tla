---------------------------- MODULE MCExtraction ----------------------------
(* Two rows of one filing around another, and one that was never fetched.    *)
EXTENDS Extraction
MCSheet == <<"brk", "ibm", "brk", "ge">>
=============================================================================
