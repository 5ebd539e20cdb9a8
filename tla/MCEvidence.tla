----------------------------- MODULE MCEvidence -----------------------------
(* A small instance of Evidence for TLC. *)
EXTENDS Evidence, TLC

CONSTANT f

\* One origin leads back to the captured file, the other to no local file.
Local    == [scheme |-> "none", path |-> f]
Web      == [scheme |-> "other", path |-> f]
Known    == {Local, Web}
Captures == {[origin |-> Local, media |-> "valid"], [origin |-> Web, media |-> "invalid"]}

Symmetry == Permutations(Contents) \cup Permutations(Procs)
=============================================================================
