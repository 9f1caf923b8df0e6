----------------------------- MODULE MCRollback -----------------------------
(* Two players with a neutral and a pressed input.                          *)
EXTENDS RollbackSession

CONSTANTS idle, press

MCInputs == {idle, press}

\* The frames at which each player has a choice: enough for a prediction to be
\* wrong on either side, once or twice in a row, before and after a stall.
MCChoices == {<<"host", 0>>, <<"host", 3>>, <<"join", 2>>}
MCFeeds(p, f) == IF <<p, f>> \in MCChoices THEN MCInputs ELSE {idle}
=============================================================================
