----------------------------- MODULE MCQueryEngine -----------------------------
(* Small instances of QueryEngine with turns that interleave freely.          *)
EXTENDS QueryEngine, TLC

CONSTANTS t1, t2, s1, s2, bash, read, snip

MCTurns == {t1, t2}
MCOneSession == {s1}
MCOneTool == {bash}
MCShortResponses == {<<>>, <<bash>>}
MCPrompt == {"prompt"}

Symmetric == Permutations(Turns) \cup Permutations(Sessions)
=============================================================================
