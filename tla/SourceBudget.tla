---------------------------- MODULE SourceBudget ----------------------------
(***************************************************************************)
(* What a per-source token table of bounded size promises.  Each source    *)
(* may be charged Burst times per window; at most MaxBuckets sources are   *)
(* remembered, and only a new source arriving when the table is full makes *)
(* it forget a source whose window is still open.                          *)
(***************************************************************************)
EXTENDS Integers, FiniteSets

CONSTANTS Sources, Burst, Window, MaxBuckets

VARIABLES
    known,      \* the sources remembered
    spent,      \* spent[s]: charges in the current window, 0 if it has closed
    age,        \* age[s]: time since the window of s opened, Window if closed
    verdict

vars == <<known, spent, age, verdict>>

Init ==
    /\ known = {}
    /\ spent = [s \in Sources |-> 0]
    /\ age = [s \in Sources |-> Window]
    /\ verdict = [source |-> "none", ok |-> FALSE]

Allowed(s) == MaxBuckets # 0 /\ spent[s] < Burst

Closed == {s \in known : age[s] = Window}

\* Charge s, after `gone' of the closed windows were forgotten and `victims'
\* made room for it.
Charge(s, gone, victims) ==
    LET kept == known \ gone
    IN  /\ victims \subseteq kept \ {s}
        /\ IF s \in kept
           THEN victims = {}
           ELSE /\ Cardinality(kept \ victims) < MaxBuckets
                /\ victims # {} => Cardinality(kept \ victims) = MaxBuckets - 1
        /\ known' = (kept \ victims) \cup {s}
        /\ spent' = [q \in Sources |-> IF q = s THEN spent[s] + 1
                                       ELSE IF q \in victims THEN 0
                                       ELSE spent[q]]
        /\ age' = [q \in Sources |->
                      IF q = s THEN (IF age[s] = Window THEN 0 ELSE age[s])
                      ELSE IF q \in victims THEN Window ELSE age[q]]

Attempt(s) ==
    \E gone \in SUBSET Closed :
        /\ verdict' = [source |-> s, ok |-> Allowed(s)]
        /\ IF Allowed(s)
           THEN \E victims \in SUBSET known : Charge(s, gone, victims)
           ELSE known' = known \ gone /\ UNCHANGED <<spent, age>>

Forget ==
    /\ \E gone \in SUBSET Closed : known' = known \ gone
    /\ UNCHANGED <<spent, age, verdict>>

TimePasses ==
    /\ age' = [s \in Sources |-> IF age[s] < Window THEN age[s] + 1 ELSE Window]
    /\ spent' = [s \in Sources |-> IF age'[s] = Window THEN 0 ELSE spent[s]]
    /\ UNCHANGED <<known, verdict>>

Next == (\E s \in Sources : Attempt(s)) \/ Forget \/ TimePasses

Spec == Init /\ [][Next]_vars

=============================================================================
