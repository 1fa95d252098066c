--------------------------- MODULE MCBaselineApply ---------------------------
(* Instances of Baseline's apply panel for TLC.                             *)
EXTENDS BaselineApply

CONSTANTS a, b, c, d

\* Two lanes: a list that fits them, longer ones, and a single host.
MCHostLists == {<<a>>, <<a, b, c>>, <<b, c, d>>}

MCFewLists == {<<a>>, <<b, c, d>>}

=============================================================================
