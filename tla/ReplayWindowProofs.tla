-------------------------- MODULE ReplayWindowProofs --------------------------
(***************************************************************************)
(* Proofs about the replay detector, for every window width and every      *)
(* range of counters.  The inductive invariant is IInv: the type of the    *)
(* window together with the exactness of its bitmap.                       *)
(***************************************************************************)
EXTENDS ReplayWindow, ReplayBitmapProofs

Ideal == INSTANCE ReplayFilter

IInv == TypeOK /\ WindowIsExact

\* The empty window is exact.
LEMMA InitIInv == Init => IInv
<1> SUFFICES ASSUME Init PROVE IInv
    OBVIOUS
<1>1. TypeOK
    BY DEF Init, TypeOK, NewWindow, WindowStates
<1>2. WindowIsExact
    BY DEF Init, WindowIsExact, Exact, NewWindow
<1> QED
    BY <1>1, <1>2 DEF IInv

\* accept and clear keep the window exact.
LEMMA NextIInv == IInv /\ [Next]_vars => IInv'
<1> SUFFICES ASSUME IInv, [Next]_vars PROVE IInv'
    OBVIOUS
<1>1. ASSUME NEW counter \in Counters, Accept(counter) PROVE IInv'
    <2>1. window' \in WindowStates
        BY <1>1, AfterAcceptType DEF Accept, IInv, TypeOK
    <2>2. accepted' \subseteq Counters /\ verdict' \in Verdicts
        BY <1>1 DEF Accept, IInv, TypeOK, Verdicts, Accepts
    <2>3. Exact(window', accepted')
        <3>1. CASE Accepts(window, counter)
            BY <1>1, <3>1, AcceptKeepsExact
            DEF Accept, IInv, TypeOK, WindowIsExact
        <3>2. CASE ~Accepts(window, counter)
            BY <1>1, <3>2, RejectChangesNothing
            DEF Accept, IInv, TypeOK, WindowIsExact
        <3> QED
            BY <3>1, <3>2
    <2> QED
        BY <2>1, <2>2, <2>3 DEF IInv, TypeOK, WindowIsExact, Exact
<1>2. CASE Clear
    <2>1. TypeOK'
        BY <1>2 DEF Clear, TypeOK, NewWindow, WindowStates
    <2>2. WindowIsExact'
        BY <1>2 DEF Clear, WindowIsExact, Exact, NewWindow
    <2> QED
        BY <2>1, <2>2 DEF IInv
<1>3. CASE UNCHANGED vars
    BY <1>3 DEF vars, IInv, TypeOK, WindowIsExact, Exact
<1> QED
    BY <1>1, <1>2, <1>3 DEF Next

(***************************************************************************)
(* The window always has its type and its bitmap is exact: the bits set by *)
(* accept are those of the accepted counters, for every window width.      *)
(***************************************************************************)
THEOREM WindowCorrect == Spec => [](TypeOK /\ WindowIsExact)
<1>1. IInv => TypeOK /\ WindowIsExact
    BY DEF IInv
<1> QED
    BY <1>1, InitIInv, NextIInv, PTL DEF Spec

(***************************************************************************)
(* accept answers Ok at most once for a counter, for every window width.   *)
(***************************************************************************)
THEOREM ReplaySafety == Spec => []NoReplayAccepted
<1>1. IInv => NoReplayAccepted
    BY ExactAccepts DEF IInv, TypeOK, WindowIsExact, NoReplayAccepted
<1> QED
    BY <1>1, InitIInv, NextIInv, PTL DEF Spec

(***************************************************************************)
(* The bitmap window of replay.rs implements the ideal filter: for every   *)
(* width, accept answers as if it remembered every counter it accepted.    *)
(***************************************************************************)
THEOREM ImplementsFilter == Spec => Ideal!Spec
<1>1. Init => Ideal!Init
    BY DEF Init, Ideal!Init, NoVerdict, Ideal!NoVerdict, NoCounter
<1>2. IInv /\ [Next]_vars => [Ideal!Next]_(Ideal!vars)
    <2> SUFFICES ASSUME IInv, [Next]_vars PROVE [Ideal!Next]_(Ideal!vars)
        OBVIOUS
    <2>1. ASSUME NEW counter \in Counters, Accept(counter)
          PROVE  Ideal!Next
        <3>1. Accepts(window, counter) <=> Ideal!Fresh(counter)
            BY ExactAccepts
            DEF IInv, TypeOK, WindowIsExact, Ideal!Fresh, Ideal!InWindow
        <3>2. Accepts(window, counter) = Ideal!Fresh(counter)
            BY <3>1 DEF Accepts, Ideal!Fresh
        <3>3. Ideal!Accept(counter)
            BY <2>1, <3>2 DEF Accept, Ideal!Accept
        <3> QED
            BY <3>3 DEF Ideal!Next, Counters, Ideal!Counters
    <2>2. CASE Clear
        BY <2>2 DEF Clear, Ideal!Next, Ideal!Clear, NoVerdict,
                    Ideal!NoVerdict, NoCounter
    <2>3. CASE UNCHANGED vars
        BY <2>3 DEF vars, Ideal!vars
    <2> QED
        BY <2>1, <2>2, <2>3 DEF Next
<1> QED
    BY <1>1, <1>2, InitIInv, NextIInv, PTL DEF Spec, Ideal!Spec

=============================================================================
