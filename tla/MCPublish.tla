----------------------------- MODULE MCPublish -----------------------------
\* Small instances of Publish.
EXTENDS Publish

MCScopes == {"youtube", "video", "audio"}
Symmetry == Permutations(Attempts)
=============================================================================
