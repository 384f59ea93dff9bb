-------------------------- MODULE ReplayBitmapProofs --------------------------
(***************************************************************************)
(* What `accept' of replay.rs does to a window whose bitmap is exact, for  *)
(* every window width and every range of counters.                         *)
(***************************************************************************)
EXTENDS ReplayBitmap, TLAPS

\* A window of the right type stays one whatever counter is presented.
LEMMA AfterAcceptType ==
    ASSUME NEW w \in WindowStates, NEW counter \in Counters
    PROVE  AfterAccept(w, counter) \in WindowStates
<1>1. CASE w.highest = NoCounter
    BY <1>1 DEF AfterAccept, WindowStates
<1>2. CASE w.highest # NoCounter /\ counter > w.highest
    <2>1. AdvancedBitmap(w, counter) \subseteq Bits
        <3>1. w.highest \in Nat /\ counter \in Nat
            BY <1>2, CounterAssumption DEF WindowStates, Counters
        <3> QED
            BY <3>1, <1>2, WindowAssumption
            DEF AdvancedBitmap, ShiftRight, Bits
    <2> QED
        BY <1>2, <2>1 DEF AfterAccept, WindowStates
<1>3. CASE w.highest # NoCounter /\ ~(counter > w.highest)
    <2>1. w.highest \in Nat /\ counter \in Nat
        BY <1>3, CounterAssumption DEF WindowStates, Counters
    <2>2. CASE Accepts(w, counter)
        <3>1. w.highest - counter - 1 \in Bits
            BY <1>3, <2>1, <2>2, WindowAssumption DEF Accepts, Bits
        <3> QED
            BY <1>3, <2>2, <3>1 DEF AfterAccept, WindowStates
    <2>3. CASE ~Accepts(w, counter)
        BY <1>3, <2>3 DEF AfterAccept
    <2> QED
        BY <2>2, <2>3
<1> QED
    BY <1>1, <1>2, <1>3

\* An exact window refuses the counters it has accepted, and accepts every
\* other one that is at most WINDOW_BITS behind the highest.
LEMMA ExactAccepts ==
    ASSUME NEW w \in WindowStates, NEW accepted \in SUBSET Counters,
           Exact(w, accepted), NEW counter \in Counters
    PROVE  Accepts(w, counter) <=>
              /\ counter \notin accepted
              /\ \A other \in accepted : other - counter <= WindowBits
<1> DEFINE h == w.highest
<1>0. counter \in Nat /\ accepted \subseteq Nat /\ WindowBits \in Nat \ {0}
    BY CounterAssumption, WindowAssumption DEF Counters
<1>1. CASE h = NoCounter
    BY <1>1 DEF Exact, Accepts
<1>2. CASE h # NoCounter
    <2>1. h \in Nat /\ h \in accepted /\ \A c \in accepted : c <= h
        BY <1>2, CounterAssumption DEF WindowStates, Counters, Exact
    <2>2. (\A other \in accepted : other - counter <= WindowBits)
             <=> h - counter <= WindowBits
        BY <1>0, <2>1
    <2>3. CASE counter > h
        <3>1. counter \notin accepted
            BY <1>0, <2>1, <2>3
        <3> QED
            BY <1>0, <2>1, <2>2, <2>3, <3>1 DEF Accepts
    <2>4. CASE counter = h
        BY <1>0, <1>2, <2>1, <2>4 DEF Accepts
    <2>5. CASE counter < h
        <3>1. CASE h - counter <= WindowBits
            <4>1. h - counter - 1 \in Bits /\ h - (h - counter - 1) - 1 = counter
                BY <1>0, <2>1, <2>5, <3>1 DEF Bits
            <4>2. h - counter - 1 \in w.bitmap <=> counter \in accepted
                BY <1>2, <4>1 DEF Exact
            <4> QED
                BY <1>0, <1>2, <2>1, <2>2, <2>5, <3>1, <4>2 DEF Accepts
        <3>2. CASE ~(h - counter <= WindowBits)
            BY <1>0, <1>2, <2>1, <2>2, <2>5, <3>2 DEF Accepts
        <3> QED
            BY <3>1, <3>2
    <2> QED
        BY <1>0, <2>1, <2>3, <2>4, <2>5
<1> QED
    BY <1>1, <1>2

\* Moving the window to a new highest keeps the bitmap exact.
LEMMA AdvanceKeepsExact ==
    ASSUME NEW w \in WindowStates, NEW accepted \in SUBSET Counters,
           Exact(w, accepted), NEW counter \in Counters,
           w.highest # NoCounter, counter > w.highest
    PROVE  Exact(AfterAccept(w, counter), accepted \cup {counter})
<1> DEFINE h == w.highest
           after == AfterAccept(w, counter)
           gap == counter - h
<1>0. counter \in Nat /\ accepted \subseteq Nat /\ h \in Nat
    BY CounterAssumption DEF Counters, WindowStates
<1>1. after.highest = counter /\ after.bitmap = AdvancedBitmap(w, counter)
    BY DEF AfterAccept
<1>2. h \in accepted /\ \A c \in accepted : c <= h
    BY DEF Exact
<1>3. ASSUME NEW i \in Bits
      PROVE  i \in AdvancedBitmap(w, counter)
                <=> counter - i - 1 \in accepted \cup {counter}
    <2>1. i \in Nat /\ i < WindowBits /\ WindowBits \in Nat \ {0}
        BY WindowAssumption DEF Bits
    <2>2. counter - i - 1 # counter
        BY <1>0, <2>1
    <2>3. CASE i < gap - 1
        <3>1. counter - i - 1 \notin accepted
            BY <2>1, <2>3, <1>2, <1>0
        <3>2. i - gap \notin w.bitmap
            BY <2>1, <2>3, <1>0 DEF WindowStates, Bits
        <3> QED
            BY <2>1, <2>2, <2>3, <3>1, <3>2, <1>0 DEF AdvancedBitmap, ShiftRight
    <2>4. CASE i = gap - 1
        <3>1. counter - i - 1 = h
            BY <2>4, <1>0
        <3> QED
            BY <2>1, <2>4, <3>1, <1>2, <1>0 DEF AdvancedBitmap, ShiftRight
    <2>5. CASE i > gap - 1
        <3>1. i - gap \in Bits /\ h - (i - gap) - 1 = counter - i - 1
            BY <2>1, <2>5, <1>0 DEF Bits
        <3>2. i - gap \in w.bitmap <=> counter - i - 1 \in accepted
            BY <3>1 DEF Exact
        <3>3. gap < WindowBits /\ i # gap - 1
            BY <2>1, <2>5, <1>0
        <3>4. AdvancedBitmap(w, counter) = ShiftRight(w.bitmap, gap) \cup {gap - 1}
            BY <3>3, <2>1, <1>0 DEF AdvancedBitmap
        <3> QED
            BY <2>2, <3>2, <3>3, <3>4 DEF ShiftRight
    <2> QED
        BY <2>1, <2>3, <2>4, <2>5, <1>0
<1>4. \A c \in accepted \cup {counter} : c <= counter
    BY <1>0, <1>2
<1> QED
    BY <1>0, <1>1, <1>3, <1>4 DEF Exact, NoCounter

\* An accepted counter is recorded: the bitmap stays exact.
LEMMA AcceptKeepsExact ==
    ASSUME NEW w \in WindowStates, NEW accepted \in SUBSET Counters,
           Exact(w, accepted), NEW counter \in Counters, Accepts(w, counter)
    PROVE  Exact(AfterAccept(w, counter), accepted \cup {counter})
<1> DEFINE h == w.highest
           after == AfterAccept(w, counter)
<1>0. counter \in Nat /\ accepted \subseteq Nat
    BY CounterAssumption DEF Counters
<1>1. CASE h = NoCounter
    <2>1. after.highest = counter /\ after.bitmap = {} /\ accepted = {}
        BY <1>1 DEF AfterAccept, Exact, WindowStates
    <2>2. \A i \in Bits : counter - i - 1 # counter
        BY <1>0, WindowAssumption DEF Bits
    <2> QED
        BY <1>0, <2>1, <2>2 DEF Exact, NoCounter
<1>2. CASE h # NoCounter /\ counter > h
    BY <1>2, AdvanceKeepsExact
<1>3. CASE h # NoCounter /\ ~(counter > h)
    <2>1. h \in Nat /\ counter < h /\ h - counter <= WindowBits
        BY <1>0, <1>3, CounterAssumption DEF WindowStates, Counters, Accepts
    <2>2. after.highest = h /\ after.bitmap = w.bitmap \cup {h - counter - 1}
        BY <1>3 DEF AfterAccept, WindowStates
    <2>3. \A i \in Bits : i = h - counter - 1 <=> h - i - 1 = counter
        BY <1>0, <2>1, WindowAssumption DEF Bits
    <2> QED
        BY <1>0, <1>3, <2>1, <2>2, <2>3 DEF Exact
<1> QED
    BY <1>1, <1>2, <1>3

\* A refused counter leaves the window as it was.
LEMMA RejectChangesNothing ==
    ASSUME NEW w \in WindowStates, NEW counter \in Counters,
           ~Accepts(w, counter)
    PROVE  AfterAccept(w, counter) = w
BY DEF AfterAccept, Accepts

=============================================================================
