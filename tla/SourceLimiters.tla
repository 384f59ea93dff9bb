--------------------------- MODULE SourceLimiters ---------------------------
(***************************************************************************)
(* The two limiters that keep a table of SourceBuckets.                    *)
(*                                                                         *)
(* The failure gate (session_manager.rs, FailGate) asks and charges in two *)
(* calls, peek before a packet is decrypted and consume when the AEAD      *)
(* fails, and is swept by the 1 Hz tick.  The handshake rate limiter       *)
(* (handshake_v2.rs, ServerHandshake::rate_ok) prunes, asks and charges in *)
(* one call.  They share no state: a behaviour is one of a single limiter, *)
(* chosen at the start.                                                    *)
(***************************************************************************)
EXTENDS SourceBuckets

CONSTANT PruneAbove   \* rate_ok prunes only larger tables, 32 in the code

VARIABLES
    kind,       \* which limiter this is
    table,      \* buckets and order, or rate_buckets and rate_order
    lastPass,   \* time since last_sweep, or since last_rate_prune
    verdict     \* history: the last source that asked, and the answer

vars == <<kind, table, lastPass, verdict>>

NoVerdict == [source |-> "none", ok |-> FALSE]

TypeOK ==
    /\ kind \in {"FailGate", "RateLimiter"}
    /\ IsTable(table)
    /\ lastPass \in 0 .. Window
    /\ verdict \in [source : Sources, ok : BOOLEAN] \cup {NoVerdict}

Init ==
    /\ kind \in {"FailGate", "RateLimiter"}
    /\ table = EmptyTable
    /\ lastPass = 0
    /\ verdict = NoVerdict

-----------------------------------------------------------------------------
(* The failure gate. *)

Peek(s) ==
    /\ MaxBuckets # 0
    /\ s \in Tracked(table) =>
          IsExpired(table.buckets[s]) \/ table.buckets[s].tokens > 0

\* MUTANT of Consume: a known source evicts another one, too.
ConsumeAlwaysMakesRoom(s) ==
    IF MaxBuckets = 0 THEN table
    ELSE IF s \in Tracked(table) THEN ChargeTracked(MakeRoom(table), s)
    ELSE InsertNew(table, s)

Consume(s) ==
    IF MaxBuckets = 0 THEN table
    ELSE IF s \in Tracked(table) THEN ChargeTracked(table, s)
    ELSE InsertNew(table, s)

\* A packet of a live session that does not decrypt.
FailedPacket(s) ==
    /\ kind = "FailGate"
    /\ verdict' = [source |-> s, ok |-> Peek(s)]
    /\ table' = IF Peek(s) THEN Consume(s) ELSE table
    /\ UNCHANGED <<kind, lastPass>>

\* From the 1 Hz tick; at most one pass per window.
Sweep ==
    /\ kind = "FailGate"
    /\ Tracked(table) # {}
    /\ lastPass >= Window
    /\ lastPass' = 0
    /\ table' = DropExpired(table)
    /\ UNCHANGED <<kind, verdict>>

-----------------------------------------------------------------------------
(* The rate limiter. *)

\* The window has elapsed since the last pass, or less than a nanosecond has:
\* within one clock unit the second condition may hold or not.
MayPrune(t) ==
    IF Cardinality(Tracked(t)) <= PruneAbove THEN {FALSE}
    ELSE IF lastPass >= Window THEN {TRUE}
    ELSE IF lastPass = 0 THEN BOOLEAN
    ELSE {FALSE}

\* A tracked source with an empty, open bucket is refused and not charged.
RateOk(t, s) ==
    s \in Tracked(t) => IsExpired(t.buckets[s]) \/ t.buckets[s].tokens > 0

RateCall(s) ==
    /\ kind = "RateLimiter"
    /\ \E prune \in MayPrune(table) :
          LET t == IF prune THEN DropExpired(table) ELSE table
          IN  /\ lastPass' = IF prune THEN 0 ELSE lastPass
              /\ verdict' = [source |-> s, ok |-> RateOk(t, s)]
              /\ table' = IF s \notin Tracked(t) THEN InsertNew(t, s)
                          ELSE IF RateOk(t, s) THEN ChargeTracked(t, s)
                          ELSE t
    /\ UNCHANGED kind

-----------------------------------------------------------------------------

TimePasses ==
    /\ table' = AgeTable(table)
    /\ lastPass' = Older(lastPass)
    /\ UNCHANGED <<kind, verdict>>

Next ==
    \/ \E s \in Sources : FailedPacket(s)
    \/ Sweep
    \/ \E s \in Sources : RateCall(s)
    \/ TimePasses

Spec == Init /\ [][Next]_vars

-----------------------------------------------------------------------------

(***************************************************************************)
(* The table's cap holds and the queue holds exactly the keys of the map,  *)
(* each once (the invariant both `order' and `rate_order' document),       *)
(* through charges, evictions, sweeps and prunes: otherwise an eviction    *)
(* would free nothing and the table would outgrow its cap.                 *)
(***************************************************************************)
TableInLockstep ==
    InLockstep(table) /\ Cardinality(Tracked(table)) <= MaxBuckets

(***************************************************************************)
(* Both limiters answer as one budget per source would: a source is        *)
(* refused exactly when it has spent its burst in the current window, a    *)
(* sweep changes no answer ("the prune is a memory cleanup, not a          *)
(* correctness requirement"), a charge touches no other source, and a      *)
(* budget is given back early only by eviction, when a new source arrives  *)
(* at the cap (FailGate's peek, consume and sweep; rate_ok).               *)
(***************************************************************************)
Budget == INSTANCE SourceBudget
    WITH known <- Tracked(table),
         spent <- [s \in Sources |-> SpentOf(table, s)],
         age <- [s \in Sources |-> AgeOf(table, s)]

ImplementsBudget == Budget!Spec

=============================================================================
