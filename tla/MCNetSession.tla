---------------------------- MODULE MCNetSession -----------------------------
(* Two players with a neutral and a pressed input.                          *)
EXTENDS NetSession

CONSTANTS idle, press

MCInputs == {idle, press}

\* The frames at which each player has a choice.
MCChoices == {<<"host", 0>>, <<"host", 2>>, <<"join", 1>>}
MCFeeds(p, f) == IF <<p, f>> \in MCChoices THEN MCInputs ELSE {idle}
=============================================================================
