---------------------------- MODULE ClientManager ----------------------------
(***************************************************************************)
(* run_client_manager (pq-tunnel-core/src/session_manager.rs): one tunnel  *)
(* that handshakes, confirms, probes, closes and re-establishes itself for *)
(* ever, against a server and a network that may do anything.              *)
(*                                                                         *)
(* Each select! arm of the driver is one action: the manager's handler and *)
(* then everything the driver does with the event it returns, up to and    *)
(* including the readiness check at the top of the next iteration.  The    *)
(* clock advances by one unit per driver tick.                             *)
(***************************************************************************)
EXTENDS ClientHandlers

CONSTANT CoverPolicies   \* the values of CoverPolicy::is_enabled to consider

ASSUME CoverAssumption == CoverPolicies \subseteq BOOLEAN

VARIABLES
    m,        \* the manager
    d,        \* the driver's locals: which of its timers are armed
    ticked,   \* the ticker has fired in this clock unit
    silence,  \* history: ticks since a packet of the session decrypted
    hosted,   \* history: sids a session was ever created under
    untold    \* history: payloads dropped and not yet reported to the app

vars == <<m, d, ticked, silence, hosted, untold>>

MaxSilence == (LivenessRounds - 1) * ProbeInterval

-----------------------------------------------------------------------------
(* The driver.  A timer is armed or inert; an armed timer may fire whenever *)
(* it has something to do.                                                 *)

\* client_retransmit_timer and client_slot_timer
RetransmitTimer(mgr) ==
    mgr.hs # NoMachine \/ (Unconfirmed(mgr) /\ ~mgr.session.m3Exhausted)

\* next_slot_delay: a session always has its next probe scheduled.
HasSlot(mgr) == HasSession(mgr)

SlotTimer(mgr, coverOwnsSlot) == ~coverOwnsSlot /\ HasSlot(mgr)

\* MUTANT of LoopTop: the slot arm goes inert even when cover is disabled.
LoopTopSilencesSlot(mgr, drv) ==
    IF IsReady(mgr) /\ ~drv.wasReady
    THEN [drv EXCEPT !.wasReady = TRUE, !.coverOn = drv.cover,
                     !.slotOn = FALSE]
    ELSE drv

\* The readiness check that starts every iteration.
LoopTop(mgr, drv) ==
    IF IsReady(mgr) /\ ~drv.wasReady
    THEN [drv EXCEPT !.wasReady = TRUE, !.coverOn = drv.cover,
                     !.slotOn = SlotTimer(mgr, drv.cover)]
    ELSE drv

\* MUTANT of AfterClosed: the readiness edge is not re-armed.
AfterClosedKeepsReady(mgr, drv) ==
    [drv EXCEPT !.coverOn = FALSE, !.slotOn = FALSE,
                !.retransmitOn = RetransmitTimer(mgr)]

\* MUTANT of AfterClosed: the retransmit timer is left as it was.
AfterClosedForgetsTimer(mgr, drv) ==
    [drv EXCEPT !.wasReady = FALSE, !.coverOn = FALSE, !.slotOn = FALSE]

\* What every arm does with a Closed event, once the manager has re-armed.
AfterClosed(mgr, drv) ==
    [drv EXCEPT !.wasReady = FALSE, !.coverOn = FALSE, !.slotOn = FALSE,
                !.retransmitOn = RetransmitTimer(mgr)]

\* The manager becomes after, having reported Closed or not, and the driver
\* re-arms it if it did.
Continue(after, closed, drv) ==
    \E mgr \in IF closed THEN BeginHandshake(after) ELSE {after} :
        /\ m' = mgr
        /\ d' = LoopTop(mgr, IF closed THEN AfterClosed(mgr, drv) ELSE drv)

\* An error propagated with ? or returned: run_client_manager ends.
DriverFails ==
    /\ d' = [d EXCEPT !.running = FALSE]
    /\ UNCHANGED <<m, ticked, silence, hosted, untold>>

Init ==
    /\ m \in {mgr \in BeginHandshake(NewManager) : mgr.hs # NoMachine}
    /\ \E cover \in CoverPolicies :
        d = [cover |-> cover, wasReady |-> FALSE, coverOn |-> FALSE,
             slotOn |-> FALSE, retransmitOn |-> TRUE, running |-> TRUE]
    /\ ticked = TRUE
    /\ silence = 0
    /\ hosted = {}
    /\ untold = 0

TimePasses ==
    /\ d.running /\ ticked
    /\ ticked' = FALSE
    /\ m' = [m EXCEPT
          !.hs = IF @ = NoMachine THEN @
                 ELSE [@ EXCEPT !.age = Older(@, HandshakeTimeout)],
          !.session = IF @ = NoSession THEN @
                      ELSE [@ EXCEPT !.age = Older(@, MaxAge),
                                     !.probeIn = Sooner(@)],
          !.queue = [i \in DOMAIN @ |-> Older(@[i], QueueTtl)],
          !.closes = AgeCloses(@)]
    /\ silence' = Older(silence, MaxSilence)
    /\ UNCHANGED <<d, hosted, untold>>

\* recv: the last fragment of a genuine M2 arrives.
RecvM2 ==
    /\ d.running /\ m.hs # NoMachine /\ m.hs.phase = "AwaitM2"
    /\ LET mgr == OnM3Sent(m)
       IN  /\ m' = mgr
           /\ d' = [d EXCEPT
                 !.retransmitOn = IF Unconfirmed(mgr) THEN RetransmitTimer(mgr)
                                  ELSE @,
                 !.slotOn = SlotTimer(mgr, d.coverOn)]
           /\ hosted' = IF HasSession(mgr) THEN hosted \union {mgr.session.sid}
                        ELSE hosted
    /\ silence' = 0
    /\ UNCHANGED <<ticked, untold>>

\* recv: a packet of the session arrives, whatever it is, and the session is
\* no longer Established.
RecvAfterRekey ==
    /\ d.running /\ HasSession(m) /\ m.session.state # "Established"
    /\ DriverFails

\* recv: a data, cover or control packet of the session that decrypts.
RecvPayload ==
    /\ d.running /\ HasSession(m) /\ m.session.state = "Established"
    /\ LET mgr == OnPayload(m)
       IN  Continue(mgr, FALSE, [d EXCEPT !.slotOn = SlotTimer(mgr, d.coverOn)])
    /\ silence' = 0
    /\ UNCHANGED <<ticked, hosted, untold>>

\* recv: the peer's Close, or a packet numbered at the counter limit (for
\* which no Close can be sealed in reply).
RecvClose ==
    /\ d.running /\ HasSession(m) /\ m.session.state = "Established"
    /\ Continue(Teardown(m, FALSE), TRUE, d)
    /\ UNCHANGED <<ticked, silence, hosted, untold>>

\* app_rx: a payload to send.  Without a session it is queued, or dropped and
\* reported when the queue is full.
AppQueues ==
    /\ d.running /\ ~HasSession(m)
    /\ IF Len(m.queue) >= QueueCap
       THEN untold' = 0 /\ UNCHANGED <<m, d>>
       ELSE /\ m' = [m EXCEPT !.queue = Append(@, 0)]
            /\ d' = [d EXCEPT !.slotOn = SlotTimer(m', d.coverOn)]
            /\ UNCHANGED untold
    /\ UNCHANGED <<ticked, silence, hosted>>

AppSends ==
    /\ d.running /\ HasSession(m)
    /\ \E outcome \in EncryptOutcomes(m) :
        LET sent == SendEncrypted(m, outcome)
        IN  IF sent.event = "Error" THEN DriverFails
            ELSE /\ Continue(sent.mgr, sent.event = "Closed", d)
                 /\ UNCHANGED <<ticked, silence, hosted, untold>>

\* on_timer while the machine runs.
RetransmitMachine ==
    /\ d.running /\ d.retransmitOn /\ m.hs # NoMachine
    /\ LET budget == IF m.hs.phase = "AwaitM2" THEN M1MaxAttempts
                     ELSE M3MaxAttempts
       IN  IF m.hs.attempts >= budget
           THEN Continue([m EXCEPT !.hs = NoMachine, !.rearm = TRUE], TRUE, d)
           ELSE Continue([m EXCEPT !.hs.attempts = @ + 1], FALSE, d)
    /\ UNCHANGED <<ticked, silence, hosted, untold>>

\* on_timer otherwise: the M3 again, with a probe, while the session is
\* unconfirmed and the budget lasts; then the timer goes inert.
RetransmitM3 ==
    /\ d.running /\ d.retransmitOn /\ m.hs = NoMachine
    /\ \E mgr \in
          IF ~Unconfirmed(m) \/ m.session.m3Exhausted THEN {m}
          ELSE IF m.session.m3Attempts >= M3MaxAttempts
          THEN {[m EXCEPT !.session.m3Exhausted = TRUE]}
          ELSE {BuildProbe([m EXCEPT !.session.m3Attempts = @ + 1], outcome) :
                    outcome \in EncryptOutcomes(m)} :
        Continue(mgr, FALSE, [d EXCEPT !.retransmitOn = RetransmitTimer(mgr)])
    /\ UNCHANGED <<ticked, silence, hosted, untold>>

\* ticker: tick, its events, and the needs_rearm backstop.
Tick ==
    /\ d.running /\ ~ticked
    /\ ticked' = TRUE
    /\ \E outcome \in IF HasSession(m) THEN EncryptOutcomes(m) ELSE {"Ok"} :
       \E spent \in SpentCloses(m.closes, MayExhaust) :
        LET t == TickManager(m, outcome, spent)
        IN  \E first \in IF t.closed THEN BeginHandshake(t.mgr) ELSE {t.mgr} :
            \E mgr \in IF NeedsRearm(first) THEN BeginHandshake(first)
                       ELSE {first} :
                /\ m' = mgr
                /\ d' = IF t.closed THEN AfterClosed(mgr, d)
                        ELSE IF NeedsRearm(first)
                        THEN [d EXCEPT !.retransmitOn = RetransmitTimer(mgr)]
                        ELSE d
    /\ untold' = IF Expired(m.queue) > 0 THEN 0 ELSE untold
    /\ UNCHANGED <<silence, hosted>>

\* Payloads that take_slot finds expired are counted but not reported.
ForgetsExpired ==
    untold' = IF untold + Expired(m.queue) > QueueCap THEN QueueCap
              ELSE untold + Expired(m.queue)

\* slot_arm, which owns the session slot while cover does not run.
SlotFires ==
    /\ d.running /\ d.slotOn /\ HasSession(m)
    /\ m.queue # <<>> \/ m.session.probeIn = 0
    /\ \E outcome \in EncryptOutcomes(m) :
        LET slot == TakeSlot(m, outcome)
        IN  Continue(slot.mgr, slot.event = "Closed",
                     [d EXCEPT !.slotOn = SlotTimer(slot.mgr, d.coverOn)])
    /\ ForgetsExpired
    /\ UNCHANGED <<ticked, silence, hosted>>

\* cover_arm: the session slot, or a cover packet when the slot is empty.
CoverFires ==
    /\ d.running /\ d.coverOn /\ HasSession(m)
    /\ \E outcome \in EncryptOutcomes(m) :
        LET slot == TakeSlot(m, outcome)
        IN  \E after \in EncryptOutcomes(slot.mgr) :
            LET sent == IF slot.event = "None" THEN CoverPacket(slot.mgr, after)
                        ELSE slot
            IN  IF sent.event = "Error" THEN DriverFails
                ELSE /\ Continue(sent.mgr, sent.event = "Closed", d)
                     /\ ForgetsExpired
                     /\ UNCHANGED <<ticked, silence, hosted>>

Next ==
    \/ TimePasses
    \/ RecvM2 \/ RecvPayload \/ RecvClose \/ RecvAfterRekey
    \/ AppQueues \/ AppSends
    \/ RetransmitMachine \/ RetransmitM3
    \/ Tick \/ SlotFires \/ CoverFires

\* Time passes, and a select! arm whose timer has expired is eventually polled.
\* Nothing is assumed of the peer, of the network or of the application.
Fairness ==
    /\ WF_vars(TimePasses) /\ WF_vars(Tick)
    /\ WF_vars(RetransmitMachine) /\ WF_vars(RetransmitM3)
    /\ WF_vars(SlotFires) /\ WF_vars(CoverFires)

Spec == Init /\ [][Next]_vars

FairSpec == Spec /\ Fairness

-----------------------------------------------------------------------------

\* Every field stays in its type: the sid histories, the outbound queue and
\* the retransmission budgets never exceed the caps the code names.
TypeOK ==
    /\ m.hs \in Machines /\ m.session \in Sessions
    /\ m.used \in Seq(Sids) /\ Len(m.used) <= HistoryCap
    /\ m.retired \in Seq(Sids) /\ Len(m.retired) <= RetiredCap
    /\ m.queue \in Seq(0 .. QueueTtl) /\ Len(m.queue) <= QueueCap
    /\ m.closes \in Seq(PendingCloses)
    /\ m.rearm \in BOOLEAN /\ m.faults \in 0 .. MaxFaults
    /\ d \in [cover : CoverPolicies, wasReady : BOOLEAN, coverOn : BOOLEAN,
              slotOn : BOOLEAN, retransmitOn : BOOLEAN, running : BOOLEAN]
    /\ ticked \in BOOLEAN /\ silence \in 0 .. MaxSilence
    /\ hosted \subseteq Sids /\ untold \in 0 .. QueueCap

\* The manager holds the handshake machine or a session, never both, so
\* begin_handshake is never refused after a teardown.
OneLiveObject == m.hs = NoMachine \/ ~HasSession(m)

\* Whenever something is left to retransmit (the M1, or the M3 of an
\* unconfirmed session), the driver's pinned retransmit timer is armed: no
\* path through an arm leaves it inert.
RetransmitIsArmed == d.running /\ RetransmitTimer(m) => d.retransmitOn

\* While a session exists exactly one of the slot arm and the cover arm owns
\* the session slot: were neither to, probes and queued payloads would stop;
\* were both to, a probe would add to the cover grid.
SlotHasOneOwner == d.running /\ HasSession(m) => (d.slotOn <=> ~d.coverOn)

\* The driver's was_ready, and with it the cover schedule, never outlives the
\* confirmed session it was set for: cover would run, and the next Ready would
\* never be reported.
ReadyIsCurrent == d.running => (d.wasReady <=> IsReady(m))

\* liveness_rounds unanswered rounds mean at least liveness_rounds - 1 whole
\* probe intervals of silence: any packet that decrypts starts the count anew.
RoundsMeasureSilence ==
    IsReady(m) /\ m.session.rounds > 0 =>
        silence >= (m.session.rounds - 1) * ProbeInterval

\* A session is never created under a sid that already carried one (B12).
NeverRehosted ==
    [][m'.session # NoSession /\ m.session = NoSession
         => m'.session.sid \notin hosted]_vars

\* The tunnel re-establishes itself: whenever the manager holds neither a
\* machine nor a session, it starts a handshake again, whatever failed.
Reestablishes == m.hs = NoMachine /\ ~HasSession(m) ~> m.hs # NoMachine

\* An unconfirmed session is confirmed or given up.
ConfirmationIsDecided == Unconfirmed(m) ~> ~Unconfirmed(m)

\* A peer that has fallen silent is heard again or its session is closed.
SilenceIsNoticed == IsReady(m) /\ silence > 0 ~> silence = 0 \/ ~IsReady(m)

\* As app_outbound and the driver's comments have it: the application is told
\* of every payload the queue drops, at the latest by the next tick.
DropsAreReported == ticked => untold = 0

\* As D31's transition table has it: an exhausted nonce counter closes the
\* session and the client re-establishes; it never ends the driver.
ExhaustionIsSurvived == d.running

=============================================================================
