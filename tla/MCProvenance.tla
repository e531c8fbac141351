---------------------------- MODULE MCProvenance ----------------------------
EXTENDS Provenance, TLC
CONSTANTS a, b, c1, c2
MCAnswers == {<<a>>, <<b>>}
MCPairs == {<<b>>, <<b, a>>}
MCSymmetry == Permutations(Call)
=============================================================================
