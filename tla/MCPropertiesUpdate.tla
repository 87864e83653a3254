------------------------- MODULE MCPropertiesUpdate -------------------------
(***************************************************************************)
(* PropertiesUpdate for TLC: a batch over two records, a further update of *)
(* one of them, and edits by others of two properties.                     *)
(***************************************************************************)
EXTENDS PropertiesUpdate, TLC

Symmetry ==
    Permutations(Record) \cup Permutations(Name) \cup Permutations(Value)
    \cup Permutations(Batch)

=============================================================================
