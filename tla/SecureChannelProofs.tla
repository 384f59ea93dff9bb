------------------------- MODULE SecureChannelProofs -------------------------
(***************************************************************************)
(* Proofs about the data path, for every window width and nonce limit.     *)
(*                                                                         *)
(* Neither uniqueness of nonces nor at-most-once delivery is inductive.    *)
(* IInv adds what ties the pieces together: the send counter is the number *)
(* of packets sealed, each packet carries the message of its own counter,  *)
(* and each replay window is exact for the messages handed over.           *)
(***************************************************************************)
EXTENDS SecureChannel, ReplayBitmapProofs

HandedOver(r) == {n \in Messages : delivered[r][n] > 0}

SealInv ==
    /\ \A r \in Roles : session[r].send_counter = sealed[r]
    /\ \A p \in wire : p.id = p.counter /\ p.counter < sealed[p.dir]

DeliveryInv ==
    \A r \in Roles :
        /\ Exact(session[r].replay, HandedOver(r))
        /\ \A n \in Messages :
              /\ delivered[r][n] \in {0, 1}
              /\ delivered[r][n] > 0 => n < sealed[Peer(r)]

IInv == TypeOK /\ SealInv /\ DeliveryInv

\* Each role has one peer.
LEMMA PeerRole == \A r \in Roles : Peer(r) \in Roles /\ Peer(r) # r
BY RoleAssumption DEF Roles, Peer

\* Message numbers are counters.
LEMMA MessagesAreCounters == Messages \subseteq Counters /\ Messages \subseteq Nat
BY NonceAssumption, CounterAssumption DEF Messages, Counters

\* Fresh sessions over an empty network satisfy the invariant.
LEMMA InitIInv == Init => IInv
<1> SUFFICES ASSUME Init PROVE IInv
    OBVIOUS
<1>1. PICK state \in {"Initial", "Established"} :
         session = [r \in Roles |-> NewSession(state)]
    BY DEF Init
<1>2. NewSession(state) \in Sessions
    BY MessagesAreCounters, NonceAssumption
    DEF NewSession, Sessions, ProtocolStates, NewWindow, WindowStates, Messages
<1>3. 0 \in Messages
    BY NonceAssumption DEF Messages
<1>4. TypeOK
    BY <1>1, <1>2, <1>3 DEF Init, TypeOK
<1>5. SealInv
    BY <1>1 DEF Init, SealInv, NewSession
<1>6. DeliveryInv
    BY <1>1 DEF Init, DeliveryInv, HandedOver, NewSession, NewWindow, Exact
<1> QED
    BY <1>4, <1>5, <1>6 DEF IInv

\* A change of lifecycle state touches nothing the invariant relates.
LEMMA MoveToIInv ==
    ASSUME IInv, NEW r \in Roles, NEW state \in ProtocolStates,
           MoveTo(r, state)
    PROVE  IInv'
<1>1. session' \in [Roles -> Sessions]
    BY DEF IInv, TypeOK, MoveTo, Sessions
<1>2. \A q \in Roles : /\ session'[q].send_counter = session[q].send_counter
                       /\ session'[q].replay = session[q].replay
    BY DEF IInv, TypeOK, MoveTo, Sessions
<1>3. UNCHANGED <<wire, sealed, delivered>>
    BY DEF MoveTo
<1>4. TypeOK'
    BY <1>1, <1>3 DEF IInv, TypeOK
<1>5. SealInv'
    BY <1>2, <1>3 DEF IInv, SealInv
<1>6. DeliveryInv'
    BY <1>2, <1>3 DEF IInv, DeliveryInv, HandedOver, Exact
<1> QED
    BY <1>4, <1>5, <1>6 DEF IInv

\* Sealing one packet uses a counter below the limit once.
LEMMA EncryptIInv ==
    ASSUME IInv, NEW r \in Roles, Encrypt(r)
    PROVE  IInv'
<1> DEFINE p == [dir |-> r, counter |-> session[r].send_counter,
                 id |-> sealed[r]]
<1>0. sealed[r] \in Nat /\ sealed[r] < MaxPacketNonce
      /\ session[r].send_counter = sealed[r]
    BY NonceAssumption
    DEF IInv, TypeOK, SealInv, Encrypt, Exhausted, Messages
<1>1. /\ wire' = wire \cup {p}
      /\ sealed' = [sealed EXCEPT ![r] = @ + 1]
      /\ session' = [session EXCEPT ![r].send_counter = @ + 1]
      /\ delivered' = delivered
    BY DEF Encrypt, Seal
<1>2. sealed[r] \in Messages /\ sealed[r] + 1 \in Messages
    BY <1>0, NonceAssumption DEF Messages
<1>3. p \in Packets
    BY <1>0, <1>2, MessagesAreCounters DEF Packets
<1>4. session' \in [Roles -> Sessions]
    BY <1>0, <1>1, <1>2, MessagesAreCounters DEF IInv, TypeOK, Sessions
<1>5. TypeOK'
    BY <1>1, <1>2, <1>3, <1>4 DEF IInv, TypeOK
<1>6. \A q \in Roles : session'[q].send_counter = sealed'[q]
    BY <1>0, <1>1 DEF IInv, TypeOK, SealInv, Sessions
<1>7. \A q \in Roles : sealed[q] <= sealed'[q] /\ sealed[q] \in Nat /\ sealed'[q] \in Nat
    BY <1>0, <1>1, MessagesAreCounters DEF IInv, TypeOK
<1>8. ASSUME NEW q \in wire'
      PROVE  q.id = q.counter /\ q.counter < sealed'[q.dir]
    <2>1. CASE q = p
        BY <2>1, <1>0, <1>1 DEF IInv, TypeOK
    <2>2. CASE q \in wire
        <3>1. q.dir \in Roles /\ q.counter \in Nat /\ q.id = q.counter
              /\ q.counter < sealed[q.dir]
            BY <2>2, CounterAssumption
            DEF IInv, TypeOK, SealInv, Packets, Counters
        <3> QED
            BY <3>1, <1>7
    <2> QED
        BY <1>1, <2>1, <2>2
<1>9. SealInv'
    BY <1>6, <1>8 DEF SealInv
<1>10. \A q \in Roles : session'[q].replay = session[q].replay
    BY <1>1 DEF IInv, TypeOK, Sessions
<1>11. ASSUME NEW q \in Roles
       PROVE  /\ Exact(session'[q].replay, HandedOver(q)')
              /\ \A n \in Messages :
                    /\ delivered'[q][n] \in {0, 1}
                    /\ delivered'[q][n] > 0 => n < sealed'[Peer(q)]
    <2>1. HandedOver(q)' = HandedOver(q)
        BY <1>1 DEF HandedOver
    <2>2. Exact(session'[q].replay, HandedOver(q)')
        BY <1>10, <2>1 DEF IInv, DeliveryInv
    <2>3. \A n \in Messages : /\ delivered[q][n] \in {0, 1}
                              /\ delivered[q][n] > 0 => n < sealed[Peer(q)]
        BY DEF IInv, DeliveryInv
    <2> QED
        BY <1>1, <1>7, <2>2, <2>3, PeerRole, MessagesAreCounters
<1>12. DeliveryInv'
    BY <1>11 DEF DeliveryInv, Exact
<1> QED
    BY <1>5, <1>9, <1>12 DEF IInv

\* A packet that decrypt hands over came from the peer and is new.
LEMMA OkMeansNew ==
    ASSUME IInv, NEW r \in Roles, NEW p \in wire, NEW damage \in Damages,
           DecryptOutcome(r, p, damage) = "Ok"
    PROVE  /\ p.dir = Peer(r)
           /\ p.id = p.counter /\ p.id \in Messages
           /\ p.id < sealed[Peer(r)]
           /\ Accepts(session[r].replay, p.counter)
           /\ delivered[r][p.id] = 0
<1>1. p.dir = Peer(r) /\ Accepts(session[r].replay, p.counter)
    BY DEF DecryptOutcome
<1>2. p.id = p.counter /\ p.id \in Messages /\ p.id < sealed[Peer(r)]
    BY <1>1 DEF IInv, TypeOK, SealInv, Packets
<1>3. /\ session[r].replay \in WindowStates
      /\ HandedOver(r) \in SUBSET Counters
      /\ Exact(session[r].replay, HandedOver(r))
    BY MessagesAreCounters
    DEF IInv, TypeOK, Sessions, DeliveryInv, HandedOver
<1>4. p.counter \notin HandedOver(r)
    <2>1. p.counter \in Counters
        BY <1>2, MessagesAreCounters
    <2> HIDE DEF HandedOver
    <2> DEFINE w == session[r].replay
    <2>2. w \in WindowStates /\ Exact(w, HandedOver(r)) /\ Accepts(w, p.counter)
        BY <1>1, <1>3
    <2> HIDE DEF w
    <2> QED
        BY <1>3, <2>1, <2>2, ExactAccepts
<1>5. delivered[r][p.id] \in {0, 1}
    BY <1>2 DEF IInv, DeliveryInv
<1> QED
    BY <1>1, <1>2, <1>4, <1>5 DEF HandedOver

\* Handing over a new packet keeps the replay window exact.
LEMMA DecryptOkIInv ==
    ASSUME IInv, NEW r \in Roles, NEW p \in wire, NEW damage \in Damages,
           Decrypt(r, p, damage), DecryptOutcome(r, p, damage) = "Ok"
    PROVE  IInv'
<1>1. /\ session' = [session EXCEPT ![r].replay = AfterAccept(@, p.counter)]
      /\ delivered' = [delivered EXCEPT ![r][p.id] = @ + 1]
      /\ wire' = wire /\ sealed' = sealed
    BY DEF Decrypt
<1>2. /\ p.id = p.counter /\ p.id \in Messages /\ p.id < sealed[Peer(r)]
      /\ Accepts(session[r].replay, p.counter) /\ delivered[r][p.id] = 0
    BY OkMeansNew
<1>3. session[r].replay \in WindowStates /\ p.counter \in Counters
    BY <1>2, MessagesAreCounters DEF IInv, TypeOK, Sessions
<1>4. AfterAccept(session[r].replay, p.counter) \in WindowStates
    BY <1>3, AfterAcceptType
<1>5. session' \in [Roles -> Sessions]
    BY <1>1, <1>4 DEF IInv, TypeOK, Sessions
<1>6. delivered' \in [Roles -> [Messages -> Nat]]
    BY <1>1, <1>2 DEF IInv, TypeOK
<1>7. TypeOK'
    BY <1>1, <1>5, <1>6 DEF IInv, TypeOK
<1>8. \A q \in Roles : session'[q].send_counter = session[q].send_counter
    BY <1>1 DEF IInv, TypeOK, Sessions
<1>9. SealInv'
    BY <1>1, <1>8 DEF IInv, SealInv
<1>10. ASSUME NEW q \in Roles
       PROVE  /\ Exact(session'[q].replay, HandedOver(q)')
              /\ \A n \in Messages :
                    /\ delivered'[q][n] \in {0, 1}
                    /\ delivered'[q][n] > 0 => n < sealed'[Peer(q)]
    <2>0. /\ Exact(session[q].replay, HandedOver(q))
          /\ \A n \in Messages :
                /\ delivered[q][n] \in {0, 1}
                /\ delivered[q][n] > 0 => n < sealed[Peer(q)]
        BY DEF IInv, DeliveryInv
    <2>1. CASE q # r
        <3>1. session'[q] = session[q] /\ delivered'[q] = delivered[q]
            BY <1>1, <2>1 DEF IInv, TypeOK
        <3> QED
            BY <1>1, <2>0, <3>1 DEF HandedOver
    <2>2. CASE q = r
        <3>1. /\ session'[r].replay = AfterAccept(session[r].replay, p.counter)
              /\ delivered'[r] = [delivered[r] EXCEPT ![p.id] = 1]
            BY <1>1, <1>2 DEF IInv, TypeOK, Sessions
        <3>2. HandedOver(r)' = HandedOver(r) \cup {p.counter}
            BY <1>2, <3>1 DEF IInv, TypeOK, HandedOver
        <3>3. HandedOver(r) \in SUBSET Counters
            BY MessagesAreCounters DEF HandedOver
        <3>5. Exact(session[r].replay, HandedOver(r))
            BY <2>0, <2>2
        <3>6. Exact(AfterAccept(session[r].replay, p.counter),
                    HandedOver(r) \cup {p.counter})
            BY <1>2, <1>3, <3>3, <3>5, AcceptKeepsExact
        <3>7. Exact(session'[r].replay, HandedOver(r)')
            BY <3>1, <3>2, <3>6
        <3>4. \A n \in Messages :
                /\ delivered'[r][n] \in {0, 1}
                /\ delivered'[r][n] > 0 => n < sealed'[Peer(r)]
            BY <1>1, <1>2, <2>0, <2>2, <3>1 DEF IInv, TypeOK
        <3> QED
            BY <2>2, <3>7, <3>4
    <2> QED
        BY <2>1, <2>2
<1>11. DeliveryInv'
    BY <1>10 DEF DeliveryInv, Exact
<1> QED
    BY <1>7, <1>9, <1>11 DEF IInv

\* The receive-side exhaustion never fires: sealed counters are below the limit.
LEMMA NoReceiveExhaustion == IInv => SenderStopsBelowLimit
<1> SUFFICES ASSUME IInv, NEW p \in wire, NEW r \in Roles, NEW damage \in Damages
             PROVE  DecryptOutcome(r, p, damage) # "RekeyRequired"
    BY DEF SenderStopsBelowLimit
<1>1. p.dir \in Roles /\ p.counter \in Nat /\ p.counter < sealed[p.dir]
    BY CounterAssumption DEF IInv, TypeOK, SealInv, Packets, Counters
<1>2. sealed[p.dir] \in Nat /\ sealed[p.dir] <= MaxPacketNonce
    BY <1>1, NonceAssumption DEF IInv, TypeOK, Messages
<1>3. ~Exhausted(p.counter)
    BY <1>1, <1>2, NonceAssumption DEF Exhausted
<1> QED
    BY <1>3 DEF DecryptOutcome

LEMMA NextIInv == IInv /\ [Next]_vars => IInv'
<1> SUFFICES ASSUME IInv, [Next]_vars PROVE IInv'
    OBVIOUS
<1>1. ASSUME NEW r \in Roles, NEW state \in ProtocolStates, MoveTo(r, state)
      PROVE  IInv'
    BY <1>1, MoveToIInv
<1>2. ASSUME NEW r \in Roles, BeginHandshake(r) PROVE IInv'
    BY <1>1, <1>2 DEF BeginHandshake, ProtocolStates
<1>3. ASSUME NEW r \in Roles, CompleteHandshake(r) PROVE IInv'
    BY <1>1, <1>3 DEF CompleteHandshake, ProtocolStates
<1>4. ASSUME NEW r \in Roles, Close(r) PROVE IInv'
    BY <1>1, <1>4 DEF Close, ProtocolStates
<1>5. ASSUME NEW r \in Roles, Encrypt(r) PROVE IInv'
    BY <1>5, EncryptIInv
<1>6. ASSUME NEW r \in Roles, EncryptExhausted(r) PROVE IInv'
    BY <1>1, <1>6 DEF EncryptExhausted, ProtocolStates
<1>7. ASSUME NEW r \in Roles, NEW p \in wire, NEW damage \in Damages,
             Decrypt(r, p, damage)
      PROVE  IInv'
    <2>1. CASE DecryptOutcome(r, p, damage) = "Ok"
        BY <1>7, <2>1, DecryptOkIInv
    <2>2. CASE DecryptOutcome(r, p, damage) # "Ok"
        <3>1. DecryptOutcome(r, p, damage) # "RekeyRequired"
            BY NoReceiveExhaustion DEF SenderStopsBelowLimit
        <3>2. UNCHANGED vars
            BY <1>7, <2>2, <3>1 DEF Decrypt, vars
        <3> QED
            BY <3>2 DEF vars, IInv, TypeOK, SealInv, DeliveryInv,
                        HandedOver, Exact
    <2> QED
        BY <2>1, <2>2
<1>8. CASE UNCHANGED vars
    BY <1>8 DEF vars, IInv, TypeOK, SealInv, DeliveryInv, HandedOver, Exact
<1> QED
    BY <1>2, <1>3, <1>4, <1>5, <1>6, <1>7, <1>8 DEF Next

(***************************************************************************)
(* Every session keeps its type, its counters stay within the nonce limit  *)
(* and no counter of a direction ever seals two packets (encrypt of        *)
(* envelope.rs), for every nonce limit.                                    *)
(***************************************************************************)
THEOREM NonceSafety == Spec => [](TypeOK /\ NonceNeverReused)
<1>1. IInv => TypeOK /\ NonceNeverReused
    <2> SUFFICES ASSUME IInv,
                        NEW p \in wire, NEW q \in wire,
                        p.dir = q.dir, p.counter = q.counter
                 PROVE  p = q
        BY DEF IInv, NonceNeverReused
    <2>1. p \in Packets /\ q \in Packets
        BY DEF IInv, TypeOK
    <2>2. p.id = q.id
        BY DEF IInv, SealInv
    <2> QED
        BY <2>1, <2>2 DEF Packets
<1> QED
    BY <1>1, InitIInv, NextIInv, PTL DEF Spec

(***************************************************************************)
(* The receive-side exhaustion branch of decrypt is never taken on a       *)
(* packet of the peer: no packet is sealed at or above the limit.          *)
(***************************************************************************)
THEOREM SenderStops == Spec => []SenderStopsBelowLimit
BY InitIInv, NextIInv, NoReceiveExhaustion, PTL DEF Spec

\* The peer the channel specification chooses is the other role.
LEMMA ChannelPeer == \A r \in Roles : Channel!Peer(r) = Peer(r)
<1> SUFFICES ASSUME NEW r \in Roles PROVE Channel!Peer(r) = Peer(r)
    OBVIOUS
<1>1. \E other \in Roles : other # r
    BY PeerRole
<1>2. Channel!Peer(r) \in Roles /\ Channel!Peer(r) # r
    BY <1>1 DEF Channel!Peer
<1> QED
    BY <1>2 DEF Roles, Peer

(***************************************************************************)
(* The data path implements the at-most-once channel: decrypt hands over   *)
(* only what the peer sealed, and each message once, whatever the network  *)
(* loses, repeats, reorders or damages.                                    *)
(***************************************************************************)
THEOREM ChannelRefinement == Spec => ImplementsAtMostOnce
<1>1. Init => Channel!Init
    BY DEF Init, Channel!Init
<1>2. IInv /\ [Next]_vars => [Channel!Next]_(Channel!vars)
    <2> SUFFICES ASSUME IInv, [Next]_vars
                 PROVE  [Channel!Next]_(Channel!vars)
        OBVIOUS
    <2>1. ASSUME NEW r \in Roles, Encrypt(r) PROVE Channel!Next
        BY <2>1 DEF Encrypt, Seal, Channel!Next, Channel!Send
    <2>2. ASSUME NEW r \in Roles, NEW p \in wire, NEW damage \in Damages,
                 Decrypt(r, p, damage), DecryptOutcome(r, p, damage) = "Ok"
          PROVE  Channel!Next
        <3>1. /\ p.id \in Messages /\ p.id < sealed[Channel!Peer(r)]
              /\ delivered[r][p.id] = 0
            BY <2>2, OkMeansNew, ChannelPeer
        <3>2. /\ delivered' = [delivered EXCEPT ![r][p.id] = 1]
              /\ sealed' = sealed
            BY <2>2, <3>1 DEF Decrypt, IInv, TypeOK
        <3>3. Channel!Deliver(r, p.id)
            BY <3>1, <3>2 DEF Channel!Deliver
        <3> QED
            BY <3>1, <3>3 DEF Channel!Next
    <2>3. ASSUME NEW r \in Roles, NEW p \in wire, NEW damage \in Damages,
                 Decrypt(r, p, damage), DecryptOutcome(r, p, damage) # "Ok"
          PROVE  UNCHANGED Channel!vars
        BY <2>3 DEF Decrypt, Channel!vars
    <2>4. ASSUME NEW r \in Roles,
                 BeginHandshake(r) \/ CompleteHandshake(r) \/ Close(r)
                    \/ EncryptExhausted(r)
          PROVE  UNCHANGED Channel!vars
        BY <2>4 DEF BeginHandshake, CompleteHandshake, Close,
                    EncryptExhausted, MoveTo, Channel!vars
    <2>5. CASE UNCHANGED vars
        BY <2>5 DEF vars, Channel!vars
    <2> QED
        BY <2>1, <2>2, <2>3, <2>4, <2>5 DEF Next
<1> QED
    BY <1>1, <1>2, InitIInv, NextIInv, PTL
    DEF Spec, ImplementsAtMostOnce, Channel!Spec

=============================================================================
