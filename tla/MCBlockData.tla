---------------------------- MODULE MCBlockData ----------------------------
EXTENDS BlockData, TLC

MCData == {<<"a", "n">>, <<"b", Mark, "c", "d", "n">>}

\* Files are interchangeable, and so are blocks: any clear one may be handed out.
Symmetry == Permutations(Files) \cup Permutations(Blocks)

=============================================================================
