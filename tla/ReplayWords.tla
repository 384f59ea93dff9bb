----------------------------- MODULE ReplayWords -----------------------------
(***************************************************************************)
(* The bitmap of pq-tunnel-core/src/replay.rs as the code lays it out: an  *)
(* array of machine words, shifted in place, first by whole words and then *)
(* by bits with a carry from the word below.  A word is the set of its set *)
(* bits, so << and >> drop what leaves the word, as they do on a u64.      *)
(***************************************************************************)
EXTENDS Integers, SequencesExt

CONSTANTS
    WordBits,      \* 64 in the code
    WindowWords,   \* WINDOW_WORDS, 16 in the code
    MaxCounter

ASSUME WordsAssumption ==
    /\ WordBits \in Nat \ {0}
    /\ WindowWords \in Nat \ {0}
    /\ MaxCounter \in Nat

WindowBits == WordBits * WindowWords

Counters == 0 .. MaxCounter

NoCounter == -1

WordIndices == 0 .. (WindowWords - 1)

ZeroBitmap == [i \in WordIndices |-> {}]

\* u64 `<<' and `>>'.
Shl(word, n) == {b \in 0 .. (WordBits - 1) : b - n \in word}

Shr(word, n) == {b \in 0 .. (WordBits - 1) : b + n \in word}

\* (lo .. hi).rev() of the loops below: the half-open range, highest first.
Descending(lo, hi) == [k \in 1 .. (hi - lo) |-> hi - k]

Ascending(lo, hi) == [k \in 1 .. (hi - lo) |-> lo + k - 1]

\* MUTANT of WordShift: the loop runs from the lowest word up.
WordShiftUpward(bitmap, wordGap) ==
    LET moved == FoldLeft(LAMBDA m, i : [m EXCEPT ![i] = m[i - wordGap]],
                          bitmap, Ascending(wordGap, WindowWords))
    IN  [i \in WordIndices |-> IF i < wordGap THEN {} ELSE moved[i]]

\* The word-level loop: word i takes word i - wordGap, highest index first, so
\* that no word is overwritten before it is read.
WordShift(bitmap, wordGap) ==
    LET moved == FoldLeft(LAMBDA m, i : [m EXCEPT ![i] = m[i - wordGap]],
                          bitmap, Descending(wordGap, WindowWords))
    IN  [i \in WordIndices |-> IF i < wordGap THEN {} ELSE moved[i]]

\* MUTANT of BitShift: the carry from the word below is lost.
BitShiftNoCarry(bitmap, bitShift) ==
    [i \in WordIndices |-> Shl(bitmap[i], bitShift)]

\* The bit-level loop, with the carry from the word below.
BitShift(bitmap, bitShift) ==
    LET inv == WordBits - bitShift
        carried == FoldLeft(
            LAMBDA m, i : [m EXCEPT ![i] =
                Shl(m[i], bitShift) \cup Shr(m[i - 1], inv)],
            bitmap, Descending(1, WindowWords))
    IN  [carried EXCEPT ![0] = Shl(@, bitShift)]

ShiftRight(bitmap, gap) ==
    LET wordGap == gap \div WordBits
        bitShift == gap % WordBits
        words == IF wordGap > 0 THEN WordShift(bitmap, wordGap) ELSE bitmap
    IN  IF bitShift > 0 THEN BitShift(words, bitShift) ELSE words

SetBit(bitmap, i) == [bitmap EXCEPT ![i \div WordBits] = @ \cup {i % WordBits}]

GetBit(bitmap, i) == i % WordBits \in bitmap[i \div WordBits]

-----------------------------------------------------------------------------

VARIABLES
    highest, bitmap,
    accepted,   \* history: the counters accepted since the last clear
    verdict     \* history: what the last call of accept answered

vars == <<highest, bitmap, accepted, verdict>>

Init ==
    /\ highest = NoCounter
    /\ bitmap = ZeroBitmap
    /\ accepted = {}
    /\ verdict = [counter |-> NoCounter, ok |-> FALSE]

Ok(counter) ==
    /\ accepted' = accepted \cup {counter}
    /\ verdict' = [counter |-> counter, ok |-> TRUE]

\* The first packet ever.
AcceptFirst(counter) ==
    /\ highest = NoCounter
    /\ highest' = counter
    /\ UNCHANGED bitmap
    /\ Ok(counter)

\* MUTANT of AcceptNewHighest: a jump of exactly the window's size
\* clears everything.
AcceptNewHighestForgetsBoundary(counter) ==
    LET gap == counter - highest
    IN  /\ highest # NoCounter
        /\ counter > highest
        /\ bitmap' = IF gap >= WindowBits THEN ZeroBitmap
                     ELSE SetBit(ShiftRight(bitmap, gap), gap - 1)
        /\ highest' = counter
        /\ Ok(counter)

\* A new highest: the window advances by the gap.
AcceptNewHighest(counter) ==
    LET gap == counter - highest
    IN  /\ highest # NoCounter
        /\ counter > highest
        /\ bitmap' =
              IF gap > WindowBits
              THEN ZeroBitmap
              ELSE IF gap = WindowBits
                   THEN SetBit(ZeroBitmap, WindowBits - 1)
                   ELSE SetBit(ShiftRight(bitmap, gap), gap - 1)
        /\ highest' = counter
        /\ Ok(counter)

\* Inside the window and its bit is clear.
Unseen(counter) ==
    LET offset == highest - counter
    IN  offset \in 1 .. WindowBits /\ ~GetBit(bitmap, offset - 1)

\* A late packet inside the window, not seen before.
AcceptLate(counter) ==
    /\ highest # NoCounter
    /\ counter <= highest
    /\ Unseen(counter)
    /\ bitmap' = SetBit(bitmap, highest - counter - 1)
    /\ UNCHANGED highest
    /\ Ok(counter)

\* The current highest, a counter below the window, or one already seen.
Reject(counter) ==
    /\ highest # NoCounter
    /\ counter <= highest
    /\ ~Unseen(counter)
    /\ verdict' = [counter |-> counter, ok |-> FALSE]
    /\ UNCHANGED <<highest, bitmap, accepted>>

Clear ==
    /\ highest' = NoCounter
    /\ bitmap' = ZeroBitmap
    /\ accepted' = {}
    /\ verdict' = [counter |-> NoCounter, ok |-> FALSE]

Next ==
    \/ \E counter \in Counters :
          \/ AcceptFirst(counter)
          \/ AcceptNewHighest(counter)
          \/ AcceptLate(counter)
          \/ Reject(counter)
    \/ Clear

Spec == Init /\ [][Next]_vars

-----------------------------------------------------------------------------

\* The bit positions set in the array of words.
SetBits == {i \in 0 .. (WindowBits - 1) : GetBit(bitmap, i)}

Window == INSTANCE ReplayWindow
    WITH window <- [highest |-> highest, bitmap |-> SetBits]

(***************************************************************************)
(* The word-by-word shifts, masks and carries of replay.rs do on the array *)
(* of words what ReplayWindow's accept does on one bitmap: every call of   *)
(* accept and clear is a step of ReplayWindow under the mapping SetBits.   *)
(***************************************************************************)
ImplementsReplayWindow == Window!Spec

=============================================================================
