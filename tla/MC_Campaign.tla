----------------------------- MODULE MC_Campaign -----------------------------
(* Instances of Campaign small enough to enumerate.                         *)
EXTENDS Campaign

CONSTANTS c1, anchor, gemma

\* The composite over one case (`evals run paper --only c1`): the case under both
\* arms, back to back; and the second arm launched on its own.
Paper      == {<< <<c1, anchor>>, <<c1, gemma>> >>, << <<c1, gemma>> >>}
SingleCell == {<< <<c1, anchor>> >>}
=============================================================================
