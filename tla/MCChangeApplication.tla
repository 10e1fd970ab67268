------------------------- MODULE MCChangeApplication -------------------------
(* Small instances of ChangeApplication, and of the ContentUpdate within it. *)
EXTENDS ChangeApplication, TLC

\* Requests are interchangeable, and so are the contents but the first.
ChangeSymmetry ==
    Permutations(Operators) \cup Permutations(Keys) \cup Permutations(Contents \ {First})

\* Three applications without an edit in WordPress, or two with one.
ChangeScope == edits = 0 \/ Len(apps) <= 2
=============================================================================
