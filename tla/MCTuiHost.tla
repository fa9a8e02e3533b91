------------------------------- MODULE MCTuiHost -------------------------------
(* Small instances of TuiHost. *)
EXTENDS TuiHost, TLC

CONSTANTS t1, t2, s1, s2, s3, bash, read, snip

MCTurns == {t1, t2}
MCSessions == {s1, s2, s3}
MCOneSession == {s1}
MCTools == {bash, read}
MCShortResponses == {<<>>, <<bash>>}
MCPairResponses == {<<>>, <<bash, read>>}
MCPrompt == {"prompt"}

Symmetric == Permutations(Turns) \cup Permutations(Sessions)
=============================================================================
