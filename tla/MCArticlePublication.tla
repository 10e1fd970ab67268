------------------------ MODULE MCArticlePublication ------------------------
(* Small instances of ArticlePublication for TLC.                          *)
EXTENDS ArticlePublication, TLC

CONSTANTS s1, s2, first, second, named, retitled, moved

\* Two titles with one slug, and a name with another.
MCSlugOf == [n \in {named, retitled, moved} |-> IF n = moved THEN "new" ELSE "old"]

\* Sessions differ in nothing but their name, and so do texts.
MCSymmetry == Permutations(Sessions) \cup Permutations(Bodies)

\* Nothing is promised once executions of a kind have met; the article begins
\* with a name whose slug another one shares, and a post is not edited besides
\* a change of name; and the text promoted comes from the second generation run,
\* the first having failed.
MCScope ==
    /\ overlapped = {}
    /\ patched = 0 => article.name = named
    /\ article.name # named => edited = 0
    /\ promo # None => gens = <<"failed", "succeeded">>
=============================================================================
