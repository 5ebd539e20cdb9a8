--------------------------- MODULE Contradiction ---------------------------
(***************************************************************************)
(* The advisory contradiction heuristics of claims.rs, over texts that are *)
(* already cut into lower-case tokens (contradiction_tokens).  The word    *)
(* lists of the code are constants.                                        *)
(***************************************************************************)
EXTENDS Sequences, SequencesExt

CONSTANTS
    Negators, Predicates, StatusWords, Auxiliaries, \* negator(), predicate(), ...
    Stem \* [word -> word], stem_contradiction_token: a plural "s" is dropped

Heuristics == {"status-change", "negation", "value-swap"}

\* normalize_contradiction_core: what is left without negators and auxiliaries,
\* stemmed, and whether a negator was dropped.
Core(text) ==
    LET kept == SelectSeq(text, LAMBDA w : w \notin Negators \cup Auxiliaries)
    IN  [words   |-> [i \in 1 .. Len(kept) |-> Stem[kept[i]]],
         negated |-> \E i \in 1 .. Len(text) : text[i] \in Negators]

\* detect_negation_flip: the same core, one of them negated.
NegationFlip(a, b) ==
    /\ Core(a).words = Core(b).words /\ Core(a).words # <<>>
    /\ Core(a).negated # Core(b).negated

\* split_contradiction_clause: subject, verb and object around the first
\* predicate word.
NoClause == [subject |-> <<>>, verb |-> "none", object |-> <<>>]
Clause(text) ==
    LET verbs == {i \in 1 .. Len(text) : text[i] \in Predicates}
        v     == CHOOSE i \in verbs : \A j \in verbs : i <= j
    IN  IF \/ verbs = {} \/ v = 1 \/ v = Len(text)
           \/ text[v + 1] \in Negators
        THEN NoClause
        ELSE [subject |-> SubSeq(text, 1, v - 1), verb |-> text[v],
              object  |-> SubSeq(text, v + 1, Len(text))]

TwoClauses(a, b) == Clause(a) # NoClause /\ Clause(b) # NoClause

\* detect_value_swap
ValueSwap(a, b) ==
    /\ TwoClauses(a, b)
    /\ Clause(a).verb = Clause(b).verb
    /\ Clause(a).subject = Clause(b).subject
    /\ Clause(a).object # Clause(b).object

\* detect_status_change
StatusChange(a, b) ==
    /\ TwoClauses(a, b)
    /\ Clause(a).subject = Clause(b).subject
    /\ Clause(a).object # Clause(b).object
    /\ \A t \in {a, b} : Len(Clause(t).object) = 1 /\ Clause(t).object[1] \in StatusWords

\* classify_contradiction: at most one heuristic per pair of texts.
Classify(a, b) ==
    CASE StatusChange(a, b) -> {"status-change"}
      [] ~StatusChange(a, b) /\ NegationFlip(a, b) -> {"negation"}
      [] ~StatusChange(a, b) /\ ~NegationFlip(a, b) /\ ValueSwap(a, b) -> {"value-swap"}
      [] OTHER -> {}

\* detect_contradictions: titles and bodies are compared, never the claim with
\* itself.
Detect(id, text, approved) ==
    UNION {{[claim |-> c.id, heuristic |-> h] :
               h \in Classify(text.title, c.text.title) \cup Classify(text.body, c.text.body)}
           : c \in {d \in approved : d.id # id}}
=============================================================================
