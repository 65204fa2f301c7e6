-------------------------- MODULE MCAddressTables --------------------------
(* Transactions that pay one script twice, pay an OP_RETURN output, cast a  *)
(* spell shorter than the outputs with one output beamed, and one with an   *)
(* index that has no app.                                                   *)
EXTENDS CharmRoutes

CONSTANTS s, t, op, a, b

MCTemplate ==
  { [outs |-> <<s>>, spell |-> None],
    [outs |-> <<t, s, s>>,
     spell |-> [apps |-> <<a, b>>, outs |-> <<{1, 2}, {2}>>, beamed |-> {2}]],
    [outs |-> <<op, t>>, spell |-> [apps |-> <<a>>, outs |-> <<{1}, {}>>, beamed |-> {}]],
    [outs |-> <<s, t>>, spell |-> [apps |-> <<b>>, outs |-> <<{2}, {1, 2}>>, beamed |-> {}]] }
=============================================================================
