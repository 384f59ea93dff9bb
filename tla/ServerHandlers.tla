--------------------------- MODULE ServerHandlers ---------------------------
(***************************************************************************)
(* The handlers of ServerSessionManager                                    *)
(* (pq-tunnel-core/src/session_manager.rs), as functions of the manager's  *)
(* state.  A manager is the table of established sessions, pending_closed  *)
(* (the Closed events queued for the next tick) and pending_closes.        *)
(*                                                                         *)
(* A session is abstracted to the time since it last received an authentic *)
(* packet (last_activity) and since it was established; a packet to what   *)
(* the session makes of it.  The failure gate in front of decrypt is the   *)
(* module SourceLimiters: here any packet may be lost to it.               *)
(***************************************************************************)
EXTENDS CloseRetry, FiniteSets, SequencesExt

CONSTANTS
    Sids,          \* session identifiers
    MaxSessions,   \* max_sessions
    IdleTimeout,   \* idle_timeout, in ticks
    LifetimeCap,   \* lifetime_cap, 0 for None
    MayExhaust     \* whether a long-lived session may run out of nonces

ASSUME ServerAssumption ==
    /\ MaxSessions \in Nat \ {0} /\ IdleTimeout \in Nat \ {0}
    /\ LifetimeCap \in Nat /\ MayExhaust \in BOOLEAN

Older(age, limit) == IF age < limit THEN age + 1 ELSE age

\* established_at is compared with the cap only; one tick is kept apart from
\* none, so that a fresh session cannot have used up its counter.
MaxLife == IF LifetimeCap = 0 THEN 1 ELSE LifetimeCap

Entries == [idle : 0 .. IdleTimeout, life : 0 .. MaxLife]

Live(mgr) == DOMAIN mgr.sessions

\* The Closed events of sid that wait for the next tick.
QueuedFor(mgr, sid) == Cardinality({i \in DOMAIN mgr.queued : mgr.queued[i] = sid})

NewManager ==
    [sessions |-> [sid \in {} |-> 0], queued |-> <<>>, closes |-> <<>>]

IsManager(mgr) ==
    /\ Live(mgr) \subseteq Sids /\ mgr.sessions \in [Live(mgr) -> Entries]
    /\ Cardinality(Live(mgr)) <= MaxSessions
    /\ mgr.queued \in Seq(Sids) /\ mgr.closes \in Seq(PendingCloses)

Without(mgr, gone) ==
    [mgr EXCEPT !.sessions = [sid \in Live(mgr) \ gone |-> mgr.sessions[sid]]]

\* The sessions min_by_key(last_activity) may return.
LeastActive(mgr) ==
    {sid \in Live(mgr) :
        \A other \in Live(mgr) :
            mgr.sessions[other].idle <= mgr.sessions[sid].idle}

Insert(mgr, sid) ==
    [mgr EXCEPT !.sessions = [x \in Live(mgr) \union {sid} |->
        IF x = sid THEN [idle |-> 0, life |-> 0] ELSE mgr.sessions[x]]]

\* MUTANT of OnHandshakeComplete: the bound is tested after the insertion.
OnHandshakeCompleteLate(mgr, sid) ==
    IF sid \in Live(mgr) THEN {mgr}
    ELSE IF Cardinality(Live(mgr)) <= MaxSessions THEN {Insert(mgr, sid)}
    ELSE {Insert([Without(mgr, {stale}) EXCEPT !.queued = Append(@, stale)],
                 sid) : stale \in LeastActive(mgr)}

\* MUTANT of OnHandshakeComplete: the evicted session's Closed is not queued.
OnHandshakeCompleteSilently(mgr, sid) ==
    IF sid \in Live(mgr) THEN {mgr}
    ELSE IF Cardinality(Live(mgr)) < MaxSessions THEN {Insert(mgr, sid)}
    ELSE {Insert(Without(mgr, {stale}), sid) : stale \in LeastActive(mgr)}

\* on_handshake_complete: a live sid is kept; at capacity the least recently
\* active session goes, and its Closed waits for the next tick.
OnHandshakeComplete(mgr, sid) ==
    IF sid \in Live(mgr) THEN {mgr}
    ELSE IF Cardinality(Live(mgr)) < MaxSessions THEN {Insert(mgr, sid)}
    ELSE {Insert([Without(mgr, {stale}) EXCEPT !.queued = Append(@, stale)],
                 sid) : stale \in LeastActive(mgr)}

\* MUTANT of Heard: last_activity is left alone.
HeardUnnoticed(mgr, sid) == mgr

\* on_data_packet, when decrypt succeeds.
Heard(mgr, sid) == [mgr EXCEPT !.sessions[sid].idle = 0]

\* MUTANT of Sent: outbound traffic refreshes last_activity.
SentRefreshes(mgr, sid) == [mgr EXCEPT !.sessions[sid].idle = 0]

\* send_encrypted and cover_packet, when encrypt succeeds: nothing moves.
Sent(mgr, sid) == mgr

\* The sessions whose send counter may turn out to be exhausted.
MayBeExhausted(mgr) ==
    IF MayExhaust THEN {sid \in Live(mgr) : mgr.sessions[sid].life > 0} ELSE {}

\* What tick evicts.
IsExpired(entry) ==
    \/ entry.idle >= IdleTimeout
    \/ LifetimeCap # 0 /\ entry.life >= LifetimeCap

Evicted(mgr) == {sid \in Live(mgr) : IsExpired(mgr.sessions[sid])}

\* tick: begin_close for every evicted session that can still encrypt (mute
\* are the ones that cannot), pending_closed drained, Closes retransmitted.
TickManager(mgr, mute, spent) ==
    LET begun == [i \in 1 .. Cardinality(Evicted(mgr) \ mute) |-> NewClose]
    IN  [Without(mgr, Evicted(mgr)) EXCEPT
            !.queued = <<>>,
            !.closes = RetransmitCloses(@ \o begun, spent)]

AgeManager(mgr) ==
    [mgr EXCEPT
        !.sessions = [sid \in DOMAIN @ |->
                        [idle |-> Older(@[sid].idle, IdleTimeout),
                         life |-> Older(@[sid].life, MaxLife)]],
        !.closes = AgeCloses(@)]

=============================================================================
