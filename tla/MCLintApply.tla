---------------------------- MODULE MCLintApply ----------------------------
(* Page x; n, which would have x's title; y and the wisdom page w, which   *)
(* share another.  Content 2 links to both titles.                         *)
EXTENDS LintApply

CONSTANTS x, y, n, w

MCTitleOf  == [p \in Page |-> IF p \in {x, n} THEN "s" ELSE "u"]
MCMentions == [v \in Content |-> IF v = 2 THEN {"s", "u"} ELSE {}]
=============================================================================
