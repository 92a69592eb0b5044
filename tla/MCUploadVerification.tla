------------------------ MODULE MCUploadVerification ------------------------
(* UploadVerification on small instances.                                  *)
EXTENDS UploadVerification, TLC

Symmetry == Permutations(Uploads) \cup Permutations(Names) \cup Permutations(Workers)
=============================================================================
