--------------------------- MODULE MCRunControl ----------------------------
(* Small instances of RunControl for TLC.                                   *)
EXTENDS RunControl

\* A scenario that injects and clears, and one that only injects.
MCScenarios == [partition |-> <<"inject", "clear">>, eclipse |-> <<"inject">>]

=============================================================================
