--------------------------- MODULE MCTrustedStore ---------------------------
(* Small instances of TrustedStore for TLC. *)
EXTENDS TrustedStore, TLC

CONSTANTS p1, p2, p3, old, new, leaf

\* `new` is a replacement draft for the approved claim `old`.
PairSupersedes == (old :> {}) @@ (new :> {old})
PairSupports   == (old :> {}) @@ (new :> {})
PairStatus     == (old :> "approved") @@ (new :> "draft")

\* A replacement draft for an approved claim, and an approved claim that rests on it.
FullSupersedes == (old :> {}) @@ (new :> {old}) @@ (leaf :> {})
FullSupports   == (old :> {}) @@ (new :> {}) @@ (leaf :> {old})
FullStatus     == (old :> "approved") @@ (new :> "draft") @@ (leaf :> "approved")

EveryCommand == (p1 :> {"draft", "approve", "revoke"}) @@ (p2 :> {"reindex", "ask", "view"})
OneOfEach == (p1 :> {"approve", "ask"}) @@ (p2 :> {"reindex"})
TwoRebuilders   == (p1 :> {"approve", "reindex"}) @@ (p2 :> {"reindex", "ask"})
=============================================================================
