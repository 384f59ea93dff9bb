---------------------------- MODULE MCReplayWords ----------------------------
(* Small instance of ReplayWords: the constants are in MCReplayWords.cfg.   *)
(* What is proved of ReplayWindow is stated here of the array of words.     *)
EXTENDS ReplayWords

Ideal == INSTANCE ReplayFilter

\* The array of words is exact: `highest' is the largest accepted counter, and
\* a bit is set exactly when its counter was accepted (replay.rs, the comment
\* on `bitmap').
WindowIsExact == Window!WindowIsExact

\* accept answers exactly as an ideal filter that remembers every counter: it
\* neither accepts a replay nor refuses a new counter that is at most
\* WINDOW_BITS late.
ImplementsIdealFilter == Ideal!Spec

=============================================================================
