--------------------------- MODULE MCSequentialHost ---------------------------
(* Small instances of SequentialHost. *)
EXTENDS SequentialHost, TLC

CONSTANTS t1, t2, t3, s1, s2, s3, bash, read, snip

MCTwoTurns == {t1, t2}
MCTurns == {t1, t2, t3}
MCTwoSessions == {s1, s2}
MCSessions == {s1, s2, s3}
MCTools == {bash, read}
MCSnipTools == {bash, snip}
MCResponses == {<<>>, <<bash>>, <<bash, read>>}
MCShortResponses == {<<>>, <<bash>>}
MCSnipResponses == {<<>>, <<bash>>, <<snip>>}

MCPrompt == {"prompt"}
MCPrompts == {"prompt", "clear", "local", "unknown"}
MCCompactInputs == {"prompt", "compact", "rollback"}
MCHistoryInputs == {"prompt", "clear", "rewind", "resume"}
MCRewindInputs == {"prompt", "rewind"}

Symmetric == Permutations(Turns) \cup Permutations(Sessions)
=============================================================================
