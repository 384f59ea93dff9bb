---------------------------- MODULE ServerManager ----------------------------
(***************************************************************************)
(* run_server_manager (pq-tunnel-core/src/session_manager.rs): the driver  *)
(* that feeds ServerSessionManager and tells the application, over one     *)
(* channel, which sessions are established and which are closed.  Clients  *)
(* come and go as they like, and a sid may be established again while the  *)
(* Closed of its evicted session still waits for the tick.                 *)
(***************************************************************************)
EXTENDS ServerHandlers

CONSTANTS
    CoverPolicies,   \* the values of CoverPolicy::is_enabled to consider
    MaxQueued        \* bound: Closed events queued between two ticks

ASSUME CoverAssumption == CoverPolicies \subseteq BOOLEAN /\ MaxQueued \in Nat

VARIABLES
    mgr,      \* the manager
    cover,    \* the cover policy, and whether the schedule is running
    app,      \* app[sid]: Established minus Closed sent to the application
    ticked,   \* the ticker has fired in this clock unit
    unheard   \* history: ticks since each session last received a packet

vars == <<mgr, cover, app, ticked, unheard>>

Init ==
    /\ mgr = NewManager
    /\ \E enabled \in CoverPolicies : cover = [enabled |-> enabled, on |-> FALSE]
    /\ app = [sid \in Sids |-> 0]
    /\ ticked = TRUE
    /\ unheard = [sid \in Sids |-> 0]

TimePasses ==
    /\ ticked
    /\ ticked' = FALSE
    /\ mgr' = AgeManager(mgr)
    /\ unheard' = [sid \in Sids |-> IF sid \in Live(mgr)
                                    THEN Older(unheard[sid], IdleTimeout) ELSE 0]
    /\ UNCHANGED <<cover, app>>

\* The channel after one Closed for each of the sids gone.
ClosedSent(gone) == [sid \in Sids |-> app[sid] - (IF sid \in gone THEN 1 ELSE 0)]

\* recv: the M3 of a handshake verifies.
HandshakeCompletes(sid) ==
    /\ Len(mgr.queued) < MaxQueued
    /\ mgr' \in OnHandshakeComplete(mgr, sid)
    /\ IF sid \in Live(mgr) THEN UNCHANGED <<cover, app, unheard>>
       ELSE /\ cover' = [cover EXCEPT !.on = cover.enabled]
            /\ app' = [app EXCEPT ![sid] = @ + 1]
            /\ unheard' = [unheard EXCEPT ![sid] = 0]
    /\ UNCHANGED ticked

\* recv: a packet of a session decrypts.  A probe is answered, and the answer
\* may find the counter exhausted.
RecvPacket(sid) ==
    /\ sid \in Live(mgr)
    /\ mgr' = Heard(mgr, sid)
    /\ unheard' = [unheard EXCEPT ![sid] = 0]
    /\ UNCHANGED <<cover, app, ticked>>

\* The session goes and its Closed is sent at once: the peer's Close, a packet
\* at the counter limit, or an answer or payload that finds it exhausted.
Dropped(sid) ==
    /\ mgr' = Without(mgr, {sid})
    /\ app' = ClosedSent({sid})
    /\ UNCHANGED <<cover, ticked, unheard>>

RecvClose(sid) == sid \in Live(mgr) /\ Dropped(sid)

\* app_rx: a payload for a session; NoSession is ignored.
AppSends(sid) ==
    \/ /\ sid \in Live(mgr)
       /\ mgr' = Sent(mgr, sid)
       /\ UNCHANGED <<cover, app, ticked, unheard>>
    \/ sid \in MayBeExhausted(mgr) /\ Dropped(sid)

\* MUTANT of Tick: the queued Closed events are drained but not sent on.
TickReportsEvictedOnly ==
    /\ ~ticked
    /\ ticked' = TRUE
    /\ mgr' = TickManager(mgr, {}, {})
    /\ app' = ClosedSent(Evicted(mgr))
    /\ UNCHANGED <<cover, unheard>>

\* ticker
Tick ==
    /\ ~ticked
    /\ ticked' = TRUE
    /\ \E mute \in SUBSET (Evicted(mgr) \intersect MayBeExhausted(mgr)) :
       \E spent \in SpentCloses(mgr.closes, MayExhaust) :
          mgr' = TickManager(mgr, mute, spent)
    /\ app' = [sid \in Sids |-> ClosedSent(Evicted(mgr))[sid] - QueuedFor(mgr, sid)]
    /\ UNCHANGED <<cover, unheard>>

\* MUTANT of CoverFires: the schedule stops as soon as any session is gone.
CoverFiresStopsEarly ==
    /\ cover.on
    /\ \E gone \in SUBSET MayBeExhausted(mgr) :
        /\ mgr' = Without(mgr, gone)
        /\ app' = ClosedSent(gone)
        /\ cover' = [cover EXCEPT !.on = gone = {}]
    /\ UNCHANGED <<ticked, unheard>>

\* cover_arm: cover_packet_all, then the schedule stops if nobody is left.
CoverFires ==
    /\ cover.on
    /\ \E gone \in SUBSET MayBeExhausted(mgr) :
        /\ mgr' = Without(mgr, gone)
        /\ app' = ClosedSent(gone)
        /\ cover' = [cover EXCEPT !.on = Live(mgr) \ gone # {}]
    /\ UNCHANGED <<ticked, unheard>>

Next ==
    \/ TimePasses \/ Tick \/ CoverFires
    \/ \E sid \in Sids : \/ HandshakeCompletes(sid) \/ RecvPacket(sid)
                         \/ RecvClose(sid) \/ AppSends(sid)

\* Time passes and the ticker is polled.
Fairness == WF_vars(TimePasses) /\ WF_vars(Tick)

Spec == Init /\ [][Next]_vars

FairSpec == Spec /\ Fairness

-----------------------------------------------------------------------------

\* Every field stays in its type, and there are never more than max_sessions
\* sessions.
TypeOK ==
    /\ IsManager(mgr)
    /\ cover \in [enabled : CoverPolicies, on : BOOLEAN]
    /\ app \in [Sids -> 0 .. MaxQueued + 1] /\ ticked \in BOOLEAN
    /\ unheard \in [Sids -> 0 .. IdleTimeout]

\* Every session the application heard of is closed to it exactly once: the
\* Established events it has got without a Closed are the live session of that
\* sid and the Closed events that wait for the next tick.  No session vanishes
\* in silence and none is closed twice, whichever way it goes, and also when its
\* sid is established again before the tick.
AppKnowsSessions ==
    \A sid \in Sids :
        app[sid] = QueuedFor(mgr, sid) + (IF sid \in Live(mgr) THEN 1 ELSE 0)

\* Once the ticker has fired no session is left that has received nothing for
\* idle_timeout: the server's own cover and replies do not keep it (B4).
IdleIsReaped == ticked => \A sid \in Live(mgr) : unheard[sid] < IdleTimeout

\* A tick never evicts a session heard from within idle_timeout before the
\* session's lifetime is over.
OnlyIdleIsEvicted ==
    [][ticked' /\ ~ticked =>
         \A sid \in Live(mgr) \ Live(mgr') :
            \/ unheard[sid] >= IdleTimeout
            \/ LifetimeCap # 0 /\ mgr.sessions[sid].life >= LifetimeCap]_vars

\* While any session is established and cover is enabled, the cover schedule
\* runs.
CoverRuns == cover.enabled /\ Live(mgr) # {} => cover.on

\* The application holds an Established of sid whose session is gone.
OwedClosed(sid) == app[sid] > (IF sid \in Live(mgr) THEN 1 ELSE 0)

\* The application is eventually told of every session that is gone, even if the
\* same sid keeps being established again.
ClosedIsReported == \A sid \in Sids : OwedClosed(sid) ~> ~OwedClosed(sid)

=============================================================================
