----------------------------- MODULE CloseRetry -----------------------------
(***************************************************************************)
(* PendingClose and retransmit_closes, which ServerSessionManager and      *)
(* ClientSessionManager (pq-tunnel-core/src/session_manager.rs) both have: *)
(* the sessions kept only to seal further copies of their Close packet.    *)
(* Waits are in driver ticks.                                              *)
(***************************************************************************)
EXTENDS Integers, Sequences

CONSTANT CloseTotal   \* CLOSE_RETRANSMIT_TOTAL

ASSUME CloseAssumption == CloseTotal \in Nat \ {0}

PendingCloses == [left : 0 .. CloseTotal, wait : 0 .. 2]

Sooner(wait) == IF wait > 0 THEN wait - 1 ELSE wait

\* The first Close was sent with the teardown; the next is due in one tick.
NewClose == [left |-> CloseTotal - 1, wait |-> 1]

AgeCloses(closes) ==
    [i \in DOMAIN closes |-> [closes[i] EXCEPT !.wait = Sooner(@)]]

\* Every due Close is sent again; spent are the ones encrypt refuses, which
\* are given up, as are those with no attempts left.
RetransmitCloses(closes, spent) ==
    LET Retry(i) == IF closes[i].left = 0 \/ closes[i].wait > 0 THEN closes[i]
                    ELSE [left |-> IF i \in spent THEN 0 ELSE closes[i].left - 1,
                          wait |-> 2]
    IN  SelectSeq([i \in DOMAIN closes |-> Retry(i)], LAMBDA pc : pc.left > 0)

\* The pending Closes a call to retransmit_closes may find exhausted.
SpentCloses(closes, mayExhaust) ==
    IF mayExhaust THEN SUBSET {i \in DOMAIN closes : closes[i].wait = 0}
    ELSE {{}}

=============================================================================
