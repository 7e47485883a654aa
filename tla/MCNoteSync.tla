------------------------------ MODULE MCNoteSync ------------------------------
EXTENDS NoteSync, TLC
Symmetry == Permutations(Dev) \cup Permutations(Bodies)
=============================================================================
