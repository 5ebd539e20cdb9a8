---------------------------- MODULE MCClaimFiles ----------------------------
(* A small instance of ClaimFiles for TLC. *)
EXTENDS ClaimFiles

CONSTANTS c1, c2, memo

NotWords  == {"not"}
Verbs     == {"is"}
States    == {"enabled", "disabled"}
Helpers   == {"does"}
Stems     == [w \in {"cache", "caches", "is", "enabled", "disabled", "big", "not", "does"} |->
                 IF w = "caches" THEN "cache" ELSE w]

On   == [title |-> <<"cache", "is", "enabled">>,  body |-> <<>>]
Off  == [title |-> <<"cache", "is", "not", "enabled">>, body |-> <<"caches">>]
FewTexts == {On, Off}

\* "wrong" and "wrong, / see below".
FewReasons == {<<"a">>, <<"a", "nl", "a">>}

\* Every string of up to three classes, blanks and line breaks alone too, and
\* longer ones whose lines matter.
FewScalars ==
    UNION {[1 .. n -> Y!Words \cup Y!Chars] : n \in 0 .. 3}
    \cup {<<" ", "a", "nl", "a">>, <<"nl", "nl", "a", "nl">>, <<"a", "nl", "nl", "a">>,
          <<"a", "nl", " ", "a", "nl", "nl">>, <<"a", " ", "nl", "a">>, <<"1", ":", "1", "1">>,
          <<"-", "-", "1", ":", "1">>, <<"a", ":", " ", "a">>, <<"a", " ", "#", "a">>}

\* A claim and what each of its other fields may hold; every pair of fields varies.
Plain == FullClaim(ClaimDoc("okf", c1, "projects", "draft", On, NoDigest, {}, 0))
Lines(from, to) == [evidence_id |-> "evd_ab", start_line |-> from, end_line |-> to,
                    digest |-> "sha256:span-v1:ab"]
From(title, digest, spans) == [id |-> "evd_ab", resource |-> "file", title |-> title,
                               digest |-> digest, spans |-> spans]
Granted == [challenge_id |-> "chg_ab", method |-> "terminal", mcp_client |-> "host"]
Full    == [Revocation EXCEPT !.reason = "why", !.related_claim_ids = <<c2, c1>>,
                              !.prior_verification_digest = "sha256:ab",
                              !.authorization = <<Granted>>]
Fields ==
    [schema |-> {"", F!LegacySchema}, type |-> {"", F!OkfType}, status |-> Statuses,
     description |-> {"", " ", "text"}, resource |-> {"", "text"},
     basis |-> {"owner", "evidence", "derived"}, stale_after |-> {"", Time},
     sources |-> {<<>>, <<From("", "sha256:ab", <<>>)>>,
                  <<From("title", "", <<Lines(1, 1), Lines(2, 3)>>), From("", "", <<>>)>>},
     evidence_ids |-> {<<>>, <<"evd_ab">>, <<"evd_ab", "evd_ab">>},
     supporting_claim_ids |-> {<<>>, <<c1>>}, supersedes |-> {<<>>, <<c2, c1>>},
     conflicts_with |-> {<<>>, <<c2>>}, tags |-> {<<>>, <<"">>, <<"x", "y">>},
     contradicts |-> {<<>>, <<[claim_id |-> c2, heuristic |-> "negation"]>>},
     transitions |-> {<<>>, <<Revocation>>, <<Full, Revocation>>,
                      <<[Full EXCEPT !.kind = "supersede", !.reason = " "]>>}]
FewRenderings ==
    {[Plain EXCEPT ![f] = x, ![g] = y, !.verified_at = signed[1], !.verified_by = signed[2],
                   !.verified_digest = signed[3]] :
        <<f, x>> \in UNION {{f} \X Fields[f] : f \in DOMAIN Fields},
        <<g, y>> \in UNION {{f} \X Fields[f] : f \in DOMAIN Fields},
        signed \in {<<"", "", "">>, <<Time, "owner", "sha256:ab">>}}

Flatly(t, n)  == Path(t, FALSE, n)
Deeply(t, n)  == Path(t, TRUE, n)
FewPaths == {Flatly("projects", c1), Flatly("projects", memo), Flatly("research", c2),
             Deeply("projects", memo)}
Nothing       == [p \in Paths |-> NoDoc]
Old(id, st, digest) == ClaimDoc("legacy", id, "elsewhere", st, On, digest, {}, 0)

\* An empty wiki; a legacy draft beside an approval that cannot be verified; a
\* legacy approval that can, below a nested directory; an approval beside its
\* copy under another name; an approval and a revoked claim.
Signed1(st, n) == ClaimDoc("okf", c1, "projects", st, On, Sha(c1, "projects", On, {}, 0), {}, n)
Flipped == {[claim |-> c1, heuristic |-> "negation"]}
Signed2 == ClaimDoc("okf", c2, "research", "approved", Off,
                    Sha(c2, "research", Off, Flipped, 0), Flipped, 0)
StartWikis ==
    {Nothing,
     [Nothing EXCEPT ![Flatly("projects", c1)] = Old(c1, "draft", NoDigest),
                     ![Flatly("research", c2)] = Old(c2, "approved", Malformed)],
     [Nothing EXCEPT ![Deeply("projects", memo)] = Old(c1, "approved", Sha(c1, "projects", On, {}, 0)),
                     ![Flatly("projects", memo)] = Old(c2, "approved", Sha(c2, "research", On, {}, 0))],
     [Nothing EXCEPT ![Flatly("projects", c1)] = Signed1("approved", 0),
                     ![Flatly("projects", memo)] = Signed1("approved", 0)],
     [Nothing EXCEPT ![Flatly("projects", c1)] = Signed1("revoked", 1),
                     ![Flatly("research", c2)] = Signed2]}
=============================================================================
