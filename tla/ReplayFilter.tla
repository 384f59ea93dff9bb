---------------------------- MODULE ReplayFilter ----------------------------
(***************************************************************************)
(* What a replay window promises, without a bitmap: it remembers every     *)
(* counter it accepted and accepts a counter exactly when it is new and no *)
(* more than WindowBits behind the largest one accepted.  ReplayWindow     *)
(* implements this with bounded memory.                                    *)
(***************************************************************************)
EXTENDS Integers

CONSTANTS WindowBits, MaxCounter

VARIABLES accepted, verdict

vars == <<accepted, verdict>>

Counters == 0 .. MaxCounter

NoVerdict == [counter |-> -1, ok |-> FALSE]

InWindow(counter) == \A other \in accepted : other - counter <= WindowBits

Fresh(counter) == counter \notin accepted /\ InWindow(counter)

Init == accepted = {} /\ verdict = NoVerdict

Accept(counter) ==
    /\ verdict' = [counter |-> counter, ok |-> Fresh(counter)]
    /\ accepted' = IF Fresh(counter) THEN accepted \cup {counter} ELSE accepted

Clear == accepted' = {} /\ verdict' = NoVerdict

Next == (\E counter \in Counters : Accept(counter)) \/ Clear

Spec == Init /\ [][Next]_vars

=============================================================================
