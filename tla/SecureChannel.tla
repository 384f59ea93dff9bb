---------------------------- MODULE SecureChannel ----------------------------
(***************************************************************************)
(* The steady-state data path between the two ends of one session:         *)
(* CipherSession (pq-tunnel-core/src/envelope.rs) inside WireSession       *)
(* (wire_session.rs) with the lifecycle of state.rs, over a network that   *)
(* loses, duplicates, reorders and corrupts packets.                       *)
(*                                                                         *)
(* A packet is [dir, counter, id]: the direction whose key sealed it, its  *)
(* packet_nonce, and the ghost number of the message inside.  Packets stay *)
(* in `wire' for ever, so each can be delivered any number of times, late, *)
(* or never.                                                               *)
(***************************************************************************)
EXTENDS ReplayBitmap

CONSTANTS
    MaxPacketNonce,   \* MAX_PACKET_NONCE of codec.rs
    Client, Server    \* the two values of Role

ASSUME NonceAssumption ==
    MaxPacketNonce \in Nat /\ MaxPacketNonce <= MaxCounter

ASSUME RoleAssumption == Client # Server

Roles == {Client, Server}

Peer(r) == IF r = Client THEN Server ELSE Client

ProtocolStates == {"Initial", "Handshake", "Established", "Rekey", "Closed"}

CanTransitionTo(from, to) ==
    <<from, to>> \in
        {<<"Initial", "Handshake">>,
         <<"Handshake", "Established">>, <<"Handshake", "Closed">>,
         <<"Established", "Rekey">>, <<"Established", "Closed">>,
         <<"Rekey", "Established">>, <<"Rekey", "Closed">>}

\* MUTANT of Exhausted: the limit is off by one.
ExhaustedLate(counter) == counter > MaxPacketNonce

\* codec::is_counter_exhausted.
Exhausted(counter) == counter >= MaxPacketNonce

-----------------------------------------------------------------------------

VARIABLES
    session,    \* session[r] = [state, send_counter, replay]
    wire,       \* every packet ever sealed
    sealed,     \* history: sealed[r] counts the packets r has sealed
    delivered   \* history: delivered[r][n] counts hand-overs of message n to r

vars == <<session, wire, sealed, delivered>>

Messages == 0 .. MaxPacketNonce

Packets == [dir : Roles, counter : Counters, id : Messages]

Sessions == [state : ProtocolStates, send_counter : Counters,
             replay : WindowStates]

TypeOK ==
    /\ session \in [Roles -> Sessions]
    /\ wire \subseteq Packets
    /\ sealed \in [Roles -> Messages]
    /\ delivered \in [Roles -> [Messages -> Nat]]

NewSession(state) ==
    [state |-> state, send_counter |-> 0, replay |-> NewWindow]

\* WireSession::new starts in Initial, WireSession::established in Established.
Init ==
    /\ \E state \in {"Initial", "Established"} :
          session = [r \in Roles |-> NewSession(state)]
    /\ wire = {}
    /\ sealed = [r \in Roles |-> 0]
    /\ delivered = [r \in Roles |-> [n \in Messages |-> 0]]

-----------------------------------------------------------------------------
(* Lifecycle.  A refused transition returns an error and changes nothing. *)

MoveTo(r, state) ==
    /\ session' = [session EXCEPT ![r].state = state]
    /\ UNCHANGED <<wire, sealed, delivered>>

BeginHandshake(r) ==
    /\ CanTransitionTo(session[r].state, "Handshake")
    /\ MoveTo(r, "Handshake")

\* MUTANT of CompleteHandshake: allowed from Closed as well.
CompleteHandshakeFromClosed(r) == MoveTo(r, "Established")

\* transition() accepts Established from Handshake and from Rekey.
CompleteHandshake(r) ==
    /\ CanTransitionTo(session[r].state, "Established")
    /\ MoveTo(r, "Established")

\* close() does not consult the transition table.
Close(r) == MoveTo(r, "Closed")

-----------------------------------------------------------------------------
(* Data path: only in Established. *)

\* MUTANT of Seal: the counter does not advance.
SealWithoutAdvance(r) ==
    /\ wire' = wire \cup {[dir |-> r, counter |-> session[r].send_counter,
                           id |-> sealed[r]]}
    /\ sealed' = [sealed EXCEPT ![r] = @ + 1]
    /\ UNCHANGED session

\* The packet takes the current counter, and the counter advances.
Seal(r) ==
    /\ wire' = wire \cup {[dir |-> r, counter |-> session[r].send_counter,
                           id |-> sealed[r]]}
    /\ sealed' = [sealed EXCEPT ![r] = @ + 1]
    /\ session' = [session EXCEPT ![r].send_counter = @ + 1]

\* MUTANT of Encrypt: the limit is not tested.
EncryptWithoutLimit(r) ==
    /\ session[r].state = "Established"
    /\ Seal(r)
    /\ UNCHANGED delivered

Encrypt(r) ==
    /\ session[r].state = "Established"
    /\ ~Exhausted(session[r].send_counter)
    /\ Seal(r)
    /\ UNCHANGED delivered

\* NonceExhausted on the send side: the session moves to Rekey and stays there.
EncryptExhausted(r) ==
    /\ session[r].state = "Established"
    /\ Exhausted(session[r].send_counter)
    /\ MoveTo(r, "Rekey")

\* What happened to a copy of a packet on its way: nothing, a changed version
\* byte, or any other change.
Damages == {"None", "Version", "Bytes"}

\* MUTANT of DecryptOutcome: the replay window is not asked.
DecryptOutcomeWithoutReplay(r, p, damage) ==
    IF session[r].state # "Established" THEN "WrongState"
    ELSE IF damage = "Version" THEN "Rejected"
    ELSE IF damage = "Bytes" \/ p.dir # Peer(r) THEN "DecryptionFailed"
    ELSE IF Exhausted(p.counter) THEN "RekeyRequired"
    ELSE "Ok"

\* The checks of decrypt in the order the code makes them.  A header that was
\* changed, or a packet sealed under the other direction's key, fails the AEAD.
\* The last three checks, on the length, the framing and the direction of the
\* plaintext, come after the window has taken the counter; they hold of whatever
\* encrypt sealed under the peer's key, and nothing else passes the AEAD.
DecryptOutcome(r, p, damage) ==
    IF session[r].state # "Established" THEN "WrongState"
    ELSE IF damage = "Version" THEN "Rejected"
    ELSE IF damage = "Bytes" \/ p.dir # Peer(r) THEN "DecryptionFailed"
    ELSE IF Exhausted(p.counter) THEN "RekeyRequired"
    ELSE IF ~Accepts(session[r].replay, p.counter) THEN "Rejected"
    ELSE "Ok"

Decrypt(r, p, damage) ==
    LET outcome == DecryptOutcome(r, p, damage)
    IN  /\ session' =
              IF outcome = "Ok"
              THEN [session EXCEPT ![r].replay = AfterAccept(@, p.counter)]
              ELSE IF outcome = "RekeyRequired"
                   THEN [session EXCEPT ![r].state = "Rekey"]
                   ELSE session
        /\ delivered' = IF outcome = "Ok"
                        THEN [delivered EXCEPT ![r][p.id] = @ + 1]
                        ELSE delivered
        /\ UNCHANGED <<wire, sealed>>

Next ==
    \E r \in Roles :
        \/ BeginHandshake(r)
        \/ CompleteHandshake(r)
        \/ Close(r)
        \/ Encrypt(r)
        \/ EncryptExhausted(r)
        \/ \E p \in wire, damage \in Damages : Decrypt(r, p, damage)

Spec == Init /\ [][Next]_vars

-----------------------------------------------------------------------------

(***************************************************************************)
(* No two packets of one direction are sealed under the same counter, so   *)
(* the AEAD nonce built from it never repeats (encrypt: "the counter is    *)
(* never reused for a direction"), not even across the move to Rekey and   *)
(* back to Established.                                                    *)
(***************************************************************************)
NonceNeverReused ==
    \A p, q \in wire : p.dir = q.dir /\ p.counter = q.counter => p = q

(***************************************************************************)
(* decrypt relies on this: "the sender never emits a packet at or above    *)
(* this counter", so an authentic packet never triggers the receive-side   *)
(* exhaustion.                                                             *)
(***************************************************************************)
SenderStopsBelowLimit ==
    \A p \in wire, r \in Roles, damage \in Damages :
        DecryptOutcome(r, p, damage) # "RekeyRequired"

(***************************************************************************)
(* Reordering is tolerated: an intact packet of the peer that was not      *)
(* delivered and is at most WINDOW_BITS behind the newest delivered one    *)
(* would be delivered by decrypt, whatever arrived before it.              *)
(***************************************************************************)
LatePacketsAccepted ==
    \A r \in Roles : \A p \in wire :
        /\ session[r].state = "Established"
        /\ p.dir = Peer(r)
        /\ delivered[r][p.id] = 0
        /\ \A q \in wire : q.dir = Peer(r) /\ delivered[r][q.id] > 0
                              => q.counter - p.counter <= WindowBits
        => DecryptOutcome(r, p, "None") = "Ok"

(***************************************************************************)
(* A closed session takes no further part (state.rs: "a closed session     *)
(* MUST NOT accept further protected communication"): it never leaves      *)
(* Closed, seals nothing and is handed nothing.                            *)
(***************************************************************************)
ClosedIsFinal ==
    [][\A r \in Roles : session[r].state = "Closed" =>
            /\ session'[r].state = "Closed"
            /\ sealed'[r] = sealed[r]
            /\ delivered'[r] = delivered[r]]_vars

(***************************************************************************)
(* The data path implements an at-most-once channel: whatever the network  *)
(* repeats, reorders or damages, decrypt hands over only messages that the *)
(* peer sealed, each at most once.                                         *)
(***************************************************************************)
Channel == INSTANCE AtMostOnceChannel WITH sent <- sealed

ImplementsAtMostOnce == Channel!Spec

=============================================================================
