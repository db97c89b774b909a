----------------------------- MODULE MCDocsStore -----------------------------
\* DocsStore with two requests at once and no more versions than can collide.
EXTENDS DocsStore, TLC

Renamings == Permutations(Texts) \cup Permutations(Cats) \cup Permutations(Requests)
=============================================================================
