--------------------------- MODULE MCInvestigation ---------------------------
(* TLC instances of Investigation.                                          *)
EXTENDS Investigation, TLC

Form(k, watch, ids, call, r, c, q, st) ==
  [kinds |-> k, watched |-> watch, automation |-> "propose", ids |-> ids, calls |-> call,
   runs |-> r, commands |-> c, requests |-> q, statuses |-> st]

\* Two revisions of a plan with an action, two revisions with an observed verification, and
\* one plan taken up by two runs.
TaskForms ==
  { Form(<<"evidence", "action">>, FALSE, {1, 2}, {"c1"}, 0, 2, 3, {}),
    Form(<<"verification">>, TRUE, {1, 2}, {"c1", "c2"}, 0, 2, 3, {}),
    Form(<<"evidence", "evidence">>, FALSE, {1}, {"c1"}, 2, 3, 2, {"expired"}) }
=============================================================================
