----------------------------- MODULE MCTomlEdit -----------------------------
\* TomlEdit for TLC: values the tool sets are told apart only by being different.
EXTENDS TomlEdit, TLC

Symmetry == Permutations(Values)

=============================================================================
