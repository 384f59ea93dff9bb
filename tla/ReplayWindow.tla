---------------------------- MODULE ReplayWindow ----------------------------
(***************************************************************************)
(* The replay detector of pq-tunnel-core/src/replay.rs as a state machine: *)
(* one window, any sequence of calls of accept and clear.                  *)
(***************************************************************************)
EXTENDS ReplayBitmap

VARIABLES
    window,
    accepted,   \* history: the counters accepted since the last clear
    verdict     \* history: what the last call of accept answered

vars == <<window, accepted, verdict>>

Verdicts == [counter : Counters, ok : BOOLEAN]

NoVerdict == [counter |-> NoCounter, ok |-> FALSE]

TypeOK ==
    /\ window \in WindowStates
    /\ accepted \subseteq Counters
    /\ verdict \in Verdicts \cup {NoVerdict}

Init ==
    /\ window = NewWindow
    /\ accepted = {}
    /\ verdict = NoVerdict

Accept(counter) ==
    /\ window' = AfterAccept(window, counter)
    /\ verdict' = [counter |-> counter, ok |-> Accepts(window, counter)]
    /\ accepted' = IF Accepts(window, counter)
                   THEN accepted \cup {counter}
                   ELSE accepted

Clear ==
    /\ window' = NewWindow
    /\ accepted' = {}
    /\ verdict' = NoVerdict

Next ==
    \/ \E counter \in Counters : Accept(counter)
    \/ Clear

Spec == Init /\ [][Next]_vars

-----------------------------------------------------------------------------

(***************************************************************************)
(* The bitmap is exact: `highest' is the largest accepted counter, and a   *)
(* bit is set exactly when its counter was accepted (the comment on        *)
(* ReplayWindow's `bitmap' field).  Shifts, the gap = WINDOW_BITS boundary *)
(* and clears must all preserve it.                                        *)
(***************************************************************************)
WindowIsExact == Exact(window, accepted)

(***************************************************************************)
(* accept would refuse every counter it has already accepted, whatever the *)
(* order the counters arrived in and however far the window has moved: "no *)
(* counter is ever accepted twice", which replay.rs claims "holds for any  *)
(* non-zero window size".                                                  *)
(***************************************************************************)
NoReplayAccepted == \A counter \in accepted : ~Accepts(window, counter)

=============================================================================
