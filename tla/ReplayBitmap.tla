---------------------------- MODULE ReplayBitmap ----------------------------
(***************************************************************************)
(* The sliding bitmap of pq-tunnel-core/src/replay.rs and the decision     *)
(* `accept' takes on it, as operators on a window value.                   *)
(*                                                                         *)
(* A window is a record [highest, bitmap].  `bitmap' is the set of bit     *)
(* positions that are set: bit i stands for counter highest - i - 1.  The  *)
(* word-by-word layout of the bitmap is modelled in ReplayWords.           *)
(***************************************************************************)
EXTENDS Integers

CONSTANTS
    WindowBits,   \* WINDOW_BITS, 1024 in the code; any positive width is sound
    MaxCounter    \* the largest packet_nonce, u64::MAX in the code

ASSUME WindowAssumption == WindowBits \in Nat \ {0}
ASSUME CounterAssumption == MaxCounter \in Nat

Counters == 0 .. MaxCounter

Bits == 0 .. (WindowBits - 1)

NoCounter == -1       \* `highest' is None: no packet seen yet

WindowStates == [highest : Counters \cup {NoCounter}, bitmap : SUBSET Bits]

NewWindow == [highest |-> NoCounter, bitmap |-> {}]

-----------------------------------------------------------------------------

\* Bits move to higher indices; those pushed past the end are discarded.
ShiftRight(bitmap, gap) == {i \in Bits : i - gap \in bitmap}

\* The bitmap once `counter' is the new highest: the old highest becomes the
\* bit gap - 1, unless it has left the window.
AdvancedBitmap(w, counter) ==
    LET gap == counter - w.highest
    IN  IF gap > WindowBits
        THEN {}
        ELSE IF gap = WindowBits
             THEN {WindowBits - 1}
             ELSE ShiftRight(w.bitmap, gap) \cup {gap - 1}

\* MUTANT of Accepts: every late counter is refused.
AcceptsOnlyNewer(w, counter) ==
    w.highest = NoCounter \/ counter > w.highest

\* accept returns Ok.
Accepts(w, counter) ==
    \/ w.highest = NoCounter
    \/ counter > w.highest
    \/ /\ counter < w.highest
       /\ w.highest - counter <= WindowBits
       /\ w.highest - counter - 1 \notin w.bitmap

\* The window accept leaves behind; a rejected counter changes nothing.
AfterAccept(w, counter) ==
    IF w.highest = NoCounter
    THEN [w EXCEPT !.highest = counter]
    ELSE IF counter > w.highest
         THEN [highest |-> counter, bitmap |-> AdvancedBitmap(w, counter)]
         ELSE IF Accepts(w, counter)
              THEN [w EXCEPT !.bitmap = @ \cup {w.highest - counter - 1}]
              ELSE w

-----------------------------------------------------------------------------

\* The comment on the field `bitmap': bit i is set exactly when the counter
\* highest - i - 1 has been accepted.
Exact(w, accepted) ==
    /\ w.highest = NoCounter => accepted = {} /\ w.bitmap = {}
    /\ w.highest # NoCounter =>
        /\ w.highest \in accepted
        /\ \A counter \in accepted : counter <= w.highest
        /\ \A i \in Bits : i \in w.bitmap <=> w.highest - i - 1 \in accepted

=============================================================================
