--------------------------- MODULE ClientHandlers ---------------------------
(***************************************************************************)
(* The handlers of ClientSessionManager                                    *)
(* (pq-tunnel-core/src/session_manager.rs), as functions of the manager's  *)
(* state: what each call leaves behind and which event it reports.  The    *)
(* drivers that call them are modelled by the modules that extend this one.*)
(*                                                                         *)
(* Time is kept as ages, in driver ticks.  The send counter is abstracted  *)
(* to whether encrypt finds it exhausted, and a queued payload to its age. *)
(* The peer address and the pacing of slots within a tick are left out.    *)
(***************************************************************************)
EXTENDS CloseRetry, SequencesExt

CONSTANTS
    Sids,             \* session identifiers random_sid may draw
    HistoryCap,       \* SID_HISTORY_CAP
    RetiredCap,       \* RETIRED_SID_CAP
    M1MaxAttempts, M3MaxAttempts,
    HandshakeTimeout, \* handshake_timeout, in ticks
    ConfirmTimeout,   \* confirm_timeout
    LifetimeCap,      \* lifetime_cap, 0 for None
    ProbeInterval,    \* liveness_probe_interval
    LivenessRounds,   \* liveness_rounds
    QueueCap,         \* OUTBOUND_QUEUE_CAP
    QueueTtl,         \* OUTBOUND_QUEUE_TTL
    MayExhaust,       \* whether a long-lived session may run out of nonces
    MaxFaults         \* bound: begin_handshake calls that fail (CSPRNG)

ASSUME ClientAssumption ==
    /\ HistoryCap \in 1 .. Cardinality(Sids) - 1 /\ RetiredCap \in Nat \ {0}
    /\ LivenessRounds \in Nat \ {0} /\ ProbeInterval \in Nat \ {0}
    /\ ConfirmTimeout \in Nat \ {0} /\ HandshakeTimeout \in Nat \ {0}
    /\ LifetimeCap \in Nat /\ QueueCap \in Nat /\ QueueTtl \in Nat \ {0}
    /\ MaxFaults \in Nat /\ MayExhaust \in BOOLEAN

NoMachine == [phase |-> "None"]

NoSession == [state |-> "None"]

Machines ==
    {NoMachine} \union
    [phase : {"AwaitM2", "M3Sent"}, sid : Sids,
     attempts : 0 .. M1MaxAttempts + M3MaxAttempts, age : 0 .. HandshakeTimeout]

\* Ages stop counting at the last value a comparison can tell apart.
MaxAge == IF LifetimeCap > ConfirmTimeout THEN LifetimeCap ELSE ConfirmTimeout

Sessions ==
    {NoSession} \union
    [state : {"Established", "Rekey"}, sid : Sids, ready : BOOLEAN,
     age : 0 .. MaxAge, m3Attempts : 0 .. M3MaxAttempts,
     m3Exhausted : BOOLEAN, probeIn : 0 .. ProbeInterval,
     rounds : 0 .. LivenessRounds]

Older(age, limit) == IF age < limit THEN age + 1 ELSE age

HasSession(mgr) == mgr.session # NoSession

IsReady(mgr) == HasSession(mgr) /\ mgr.session.ready

Unconfirmed(mgr) == HasSession(mgr) /\ ~mgr.session.ready

-----------------------------------------------------------------------------
(* The manager's handlers, as functions of the manager's state.            *)

\* MUTANT of Remember: the trim of the history is missing.
RememberForEver(history, sid, cap) == Append(history, sid)

\* Append to a bounded history, forgetting the oldest entries.
Remember(history, sid, cap) ==
    LET longer == Append(history, sid)
    IN  IF Len(longer) > cap THEN Tail(longer) ELSE longer

RetireSid(retired, sid) ==
    IF Contains(retired, sid) THEN retired
    ELSE Remember(retired, sid, RetiredCap)

NewManager ==
    [hs |-> NoMachine, session |-> NoSession, used |-> <<>>, retired |-> <<>>,
     queue |-> <<>>, rearm |-> FALSE, closes |-> <<>>, faults |-> 0]

\* The states begin_handshake may leave.  It refuses while a machine or a
\* session exists; a CSPRNG fault leaves at most a drawn sid in the history.
BeginHandshake(mgr) ==
    IF mgr.hs # NoMachine \/ HasSession(mgr) THEN {mgr}
    ELSE {[mgr EXCEPT !.hs = [phase |-> "AwaitM2", sid |-> sid,
                              attempts |-> 0, age |-> 0],
                      !.used = Remember(mgr.used, sid, HistoryCap),
                      !.rearm = FALSE] : sid \in Sids \ ToSet(mgr.used)}
         \union
         {[mgr EXCEPT !.used = history, !.faults = @ + 1] :
              history \in IF mgr.faults = MaxFaults THEN {} ELSE
                  {mgr.used} \union {Remember(mgr.used, sid, HistoryCap) :
                                        sid \in Sids \ ToSet(mgr.used)}}

\* The session on_m3_sent creates: unconfirmed, its first periodic probe due
\* one interval from now.
NewSession(sid) ==
    [state |-> "Established", sid |-> sid, ready |-> FALSE, age |-> 0,
     m3Attempts |-> 0, m3Exhausted |-> FALSE, probeIn |-> ProbeInterval,
     rounds |-> 0]

\* MUTANT of OnM3Sent: the retired-sid check is missing.
OnM3SentForgetsRetired(mgr) ==
    [mgr EXCEPT !.session = NewSession(mgr.hs.sid), !.hs = NoMachine]

\* MUTANT of OnM3Sent: the machine is kept beside the session.
OnM3SentKeepsMachine(mgr) ==
    IF Contains(mgr.retired, mgr.hs.sid) THEN mgr
    ELSE [mgr EXCEPT !.session = NewSession(mgr.hs.sid),
                     !.hs.phase = "M3Sent", !.hs.attempts = 0]

\* on_m3_sent: the machine has verified the M2.  A retired sid is refused and
\* the machine stays, in its M3Sent state.
OnM3Sent(mgr) ==
    IF HasSession(mgr) THEN [mgr EXCEPT !.hs = NoMachine, !.rearm = TRUE]
    ELSE IF Contains(mgr.retired, mgr.hs.sid)
    THEN [mgr EXCEPT !.hs.phase = "M3Sent", !.hs.attempts = 0]
    ELSE [mgr EXCEPT !.session = NewSession(mgr.hs.sid), !.hs = NoMachine]

\* teardown; sealed says whether an encrypted Close was produced, in which
\* case its retransmissions are scheduled.
Teardown(mgr, sealed) ==
    [mgr EXCEPT !.session = NoSession,
                !.rearm = TRUE,
                !.retired = RetireSid(@, mgr.session.sid),
                !.closes = IF sealed THEN Append(@, NewClose) ELSE @]

\* The outcomes of WireSession::encrypt.  The counter cannot be exhausted on
\* a session that was only just created.
EncryptOutcomes(mgr) ==
    IF mgr.session.state # "Established" THEN {"WrongState"}
    ELSE {"Ok"} \union
         (IF MayExhaust /\ mgr.session.ready THEN {"RekeyRequired"} ELSE {})

\* send_encrypted, given what encrypt answered: an exhausted
\* session is torn down (its Close cannot be sealed), any other error is
\* returned to the caller.
SendEncrypted(mgr, outcome) ==
    CASE outcome = "Ok"            -> [mgr |-> mgr, event |-> "Sent"]
      [] outcome = "RekeyRequired" -> [mgr |-> Teardown(mgr, FALSE),
                                       event |-> "Closed"]
      [] outcome = "WrongState"    -> [mgr |-> mgr, event |-> "Error"]

\* cover_packet treats encrypt's answers alike.
CoverPacket(mgr, outcome) == SendEncrypted(mgr, outcome)

\* build_probe: an encrypt error is dropped, but the session has moved.
BuildProbe(mgr, outcome) ==
    IF outcome = "RekeyRequired"
    THEN [mgr EXCEPT !.session.state = "Rekey"] ELSE mgr

\* MUTANT of OnPayload: only the first packet resets the round counter.
OnPayloadKeepsRounds(mgr) == [mgr EXCEPT !.session.ready = TRUE]

\* on_data_packet on a packet of the session that decrypts.
OnPayload(mgr) == [mgr EXCEPT !.session.ready = TRUE, !.session.rounds = 0]

IsFresh(age) == age < QueueTtl

\* expire_queued
Expired(queue) == Len(SelectSeq(queue, LAMBDA age : ~IsFresh(age)))

\* MUTANT of TakeProbe: the round is not counted.
TakeProbeNeverCounts(mgr, outcome) ==
    [mgr |-> [mgr EXCEPT !.session.probeIn = ProbeInterval], event |-> "Sent"]

\* take_probe: the deadline moves first; only a probe that could be built on a
\* confirmed session counts as a round.
TakeProbe(mgr, outcome) ==
    LET moved == [mgr EXCEPT !.session.probeIn = ProbeInterval]
    IN  IF outcome # "Ok"
        THEN [mgr |-> BuildProbe(moved, outcome), event |-> "None"]
        ELSE [mgr |-> IF mgr.session.ready
                      THEN [moved EXCEPT !.session.rounds =
                                Older(@, LivenessRounds)]
                      ELSE moved,
              event |-> "Sent"]

\* take_slot: the oldest queued payload that has not expired, else a due
\* probe.  The payloads that did expire leave the queue here.  A queued
\* payload that meets a session fault is lost with only a log line.
TakeSlot(mgr, outcome) ==
    LET fresh == SelectSeq(mgr.queue, IsFresh)
        kept  == [mgr EXCEPT !.queue = fresh]
        sent  == SendEncrypted([mgr EXCEPT !.queue = Tail(fresh)], outcome)
    IN  IF fresh # <<>>
        THEN [sent EXCEPT !.event = IF @ = "Error" THEN "Lost" ELSE @]
        ELSE IF mgr.session.probeIn = 0 THEN TakeProbe(kept, outcome)
        ELSE [mgr |-> kept, event |-> "None"]

\* MUTANT of SessionIsOver: spending the M3 budget stands in for the deadline.
SessionIsOverWithoutDeadline(s) ==
    \/ LifetimeCap # 0 /\ s.age >= LifetimeCap
    \/ s.ready /\ s.rounds >= LivenessRounds

\* The three session deadlines of tick, in its order: the lifetime cap, the
\* confirmation deadline, the liveness decision.  The first that holds tears
\* the session down, so the others then see none.
SessionIsOver(s) ==
    \/ LifetimeCap # 0 /\ s.age >= LifetimeCap
    \/ ~s.ready /\ s.age >= ConfirmTimeout
    \/ s.ready /\ s.rounds >= LivenessRounds

\* tick, and whether it reports a Closed.
TickManager(mgr, outcome, spent) ==
    LET hsOver  == mgr.hs # NoMachine /\ mgr.hs.age >= HandshakeTimeout
        sOver   == HasSession(mgr) /\ SessionIsOver(mgr.session)
        noHs    == IF hsOver THEN [mgr EXCEPT !.hs = NoMachine, !.rearm = TRUE]
                   ELSE mgr
        closed  == IF sOver THEN Teardown(noHs, outcome = "Ok") ELSE noHs
    IN  [mgr |-> [closed EXCEPT !.queue = SelectSeq(@, IsFresh),
                                !.closes = RetransmitCloses(@, spent)],
         closed |-> hsOver \/ sOver]

\* MUTANT of NeedsRearm: the request is forgotten.
NeverNeedsRearm(mgr) == FALSE

\* needs_rearm
NeedsRearm(mgr) == mgr.rearm /\ mgr.hs = NoMachine /\ ~HasSession(mgr)

=============================================================================
