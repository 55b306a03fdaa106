----------------------------- MODULE MCDispatch -----------------------------
(* Instances of Dispatch: streams about one incident with overlapping unit  *)
(* lists (a first dispatch, an additional unit, a repeat), closing messages *)
(* with and without a new unit, and the streams that do not parse.          *)
EXTENDS Dispatch, TLC

CONSTANTS c1, c2, c3, i1, i2, u1, u2, other

Open(i, us)  == [reply |-> TRUE, body |-> "incident", inc |-> i,
                 units |-> us, closed |-> FALSE]
Close(i, us) == [Open(i, us) EXCEPT !.closed = TRUE]
Plain(i, us) == [Open(i, us) EXCEPT !.reply = FALSE]
Broken(b, r) == [reply |-> r, body |-> b, inc |-> i1, units |-> {},
                 closed |-> FALSE]

MCChildren  == {c1, c2, c3}
MCPair      == {c1, c2}
MCIncidents == {i1, i2}
MCAllUnits  == {u1, u2, other}
MCStation   == {u1, u2}

\* Dispatches only: first alarm, the added unit, another incident.
OpenMessages ==
  {Open(i1, {u1, other}), Open(i1, {u1, u2}), Plain(i1, {u2}),
   Open(i2, {u1})}

AllMessages ==
  OpenMessages \cup
  {Close(i1, {u1}), Close(i1, {u1, u2}),
   Broken("empty", FALSE), Broken("no output", TRUE), Broken("unparsed", TRUE)}

Symmetry == Permutations(MCChildren)
=============================================================================
