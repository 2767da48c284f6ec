----------------------------- MODULE MCArmLink -----------------------------
EXTENDS ArmLink

(* A ragged range on both edges up to the TAR boundary at 8, an aligned    *)
(* one whose first run ends at the boundary, and one byte.                 *)
MCSpans == {<<3, 6>>, <<6, 6>>, <<5, 1>>}
=============================================================================
