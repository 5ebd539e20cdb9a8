----------------------------- MODULE MCApproval -----------------------------
(* A small instance of Lifecycle, and of the ceremony below it, for TLC. *)
EXTENDS Lifecycle, TLC

CONSTANTS base, leaf, new

\* The draft `leaf` rests on the draft `base`: a batch may hold both, in either
\* order.  Once `base` is approved, `new` may be drafted to replace it.
FewSupersedes == (base :> {}) @@ (leaf :> {}) @@ (new :> {base})
FewSupports   == (base :> {}) @@ (leaf :> {base}) @@ (new :> {})
FewStatus     == (base :> "draft") @@ (leaf :> "draft") @@ (new :> "absent")

\* A caller asserts nothing, or the text of the draft `base` as it was at first.
FewSayings == {[claim |-> Unsaid, op |-> Unsaid, ver |-> Unsaid],
               [claim |-> base, op |-> Unsaid, ver |-> 0]}

Symmetry == Permutations(Challenges) \cup Permutations(Procs)
=============================================================================
