------------------------------ MODULE Handshake ------------------------------
(***************************************************************************)
(* The three-message handshake of pq-tunnel-core/src/handshake_v2.rs: any  *)
(* number of ClientHandshake machines against one ServerHandshake, over a  *)
(* network that loses, duplicates, reorders and damages datagrams and may  *)
(* change a client's source address.                                       *)
(*                                                                         *)
(* A message is named by what its signature or MAC binds.  M1 is the run   *)
(* [client, sid]; M2 is [m1, n], n telling apart the replies to one M1; M3 *)
(* is named by the M2 it answers, and so is the master secret derived from *)
(* the three.  Every fragment of a message ever sent stays deliverable.    *)
(***************************************************************************)
EXTENDS Integers, FiniteSets

CONSTANTS
    Clients,          \* client identities
    Sids,             \* session identifiers
    Sources,          \* socket addresses a client may send from
    M1Frags, M2Frags, \* M1_FRAG_COUNT, M2_FRAG_COUNT
    MaxPending,       \* max_pending
    PendingTtl,       \* pending_ttl, in clock units
    Burst, Window,    \* rate_limit_burst, rate_limit_window
    M1MaxAttempts, M3MaxAttempts,
    Rosters,          \* the rosters the operator may install
    MaxHellos         \* bound: M2 messages the server ever creates

ASSUME HandshakeAssumption ==
    /\ M1Frags \in Nat \ {0, 1} /\ M2Frags \in Nat \ {0}
    /\ PendingTtl \in Nat \ {0} /\ Window \in Nat \ {0}
    /\ Burst \in Nat /\ MaxPending \in Nat
    /\ \A roster \in Rosters : roster \subseteq Clients /\ roster # {}

M1s == [client : Clients, sid : Sids]

M2s == [m1 : M1s, n : 1 .. MaxHellos]

\* An M3 is named by the M2 it answers: its MAC covers the whole exchange.
M3s == M2s

\* Fragments 0 .. count - 1; a slot of an assembler holds the message its
\* fragment came from, Damaged, or nothing.
Indices(count) == 0 .. (count - 1)

Empty == [m |-> "empty"]

Damaged == [m |-> "damaged"]

NewAssembler(count) == [i \in Indices(count) |-> Empty]

Received(asm) == {i \in DOMAIN asm : asm[i] # Empty}

IsComplete(asm) == Received(asm) = DOMAIN asm

\* add_fragment: "Ignored" if the slot is taken (so always, once complete).
AddFragment(asm, i, content) ==
    IF asm[i] # Empty THEN asm ELSE [asm EXCEPT ![i] = content]

AllFrom(asm, message) == \A i \in DOMAIN asm : asm[i] = message

-----------------------------------------------------------------------------

VARIABLES
    client,     \* client[c]: the machine c runs now
    used,       \* used[c]: sids c has drawn
    pending,    \* the server's pending table: a partial map from sids
    rate,       \* rate[s]: what source s has left in its window
    roster,
    m1s, m2s, m3s,  \* messages sent so far
    completed,  \* history: outcomes of the server, with the roster then in force
    work        \* history: work[s]: entries allocated, M2s sent again and
                \* messages verified for s since its bucket last refilled

vars == <<client, used, pending, rate, roster, m1s, m2s, m3s, completed, work>>

clientVars == <<client, used, m1s, m3s>>
serverVars == <<pending, rate, m2s, completed, work>>

NoClient == [phase |-> "Idle"]

AwaitM2(m1) == [phase |-> "AwaitM2", m1 |-> m1, attempts |-> 0,
                asm |-> NewAssembler(M2Frags)]

M3Sent(m2) == [phase |-> "M3Sent", m1 |-> m2.m1, m2 |-> m2, attempts |-> 0]

Init ==
    /\ client = [c \in Clients |-> NoClient]
    /\ used = [c \in Clients |-> {}]
    /\ pending = <<>>
    /\ rate = [s \in Sources |-> [tokens |-> Burst, age |-> Window]]
    /\ roster \in Rosters
    /\ m1s = {} /\ m2s = {} /\ m3s = {}
    /\ completed = {}
    /\ work = [s \in Sources |-> 0]

-----------------------------------------------------------------------------
(* The client machine. *)

\* ClientHandshake::new with a sid not drawn before, and the first M1.
Start(c, sid) ==
    /\ client[c].phase \in {"Idle", "M3Sent"}
    /\ sid \notin used[c]
    /\ client' = [client EXCEPT ![c] = AwaitM2([client |-> c, sid |-> sid])]
    /\ used' = [used EXCEPT ![c] = @ \cup {sid}]
    /\ m1s' = m1s \cup {[client |-> c, sid |-> sid]}
    /\ UNCHANGED <<m3s, roster, serverVars>>

\* MUTANT of AfterBadM2: the assembler is not reset.
AfterBadM2KeepsAssembler(c, asm) == [client[c] EXCEPT !.asm = asm]

\* A complete M2 that does not verify is dropped and the assembler reset.
AfterBadM2(c, asm) == [client[c] EXCEPT !.asm = NewAssembler(M2Frags)]

\* One M2 fragment; the signature covers M1 and M2, so all fragments must come
\* from one reply to this run's own M1.  The `?` of on_complete_m2 are not
\* alternatives: verify, decapsulate and encapsulate of pq-crypto always return
\* Ok, and HKDF expands to 32 bytes without fail.
ClientGetsM2(c, m2, i, damaged) ==
    LET asm == AddFragment(client[c].asm, i, IF damaged THEN Damaged ELSE m2)
    IN  /\ client[c].phase = "AwaitM2"
        /\ m2.m1.sid = client[c].m1.sid
        /\ client[c].asm[i] = Empty
        /\ IF ~IsComplete(asm)
           THEN client' = [client EXCEPT ![c].asm = asm] /\ UNCHANGED m3s
           ELSE IF \E reply \in m2s : reply.m1 = client[c].m1 /\ AllFrom(asm, reply)
           THEN /\ client' = [client EXCEPT ![c] = M3Sent(asm[0])]
                /\ m3s' = m3s \cup {asm[0]}
           ELSE client' = [client EXCEPT ![c] = AfterBadM2(c, asm)] /\ UNCHANGED m3s
        /\ UNCHANGED <<used, m1s, roster, serverVars>>

\* on_timer: a byte-identical retransmission, or Timeout once the budget is spent.
ClientTimer(c) ==
    /\ client[c].phase \in {"AwaitM2", "M3Sent"}
    /\ LET max == IF client[c].phase = "AwaitM2" THEN M1MaxAttempts
                                                 ELSE M3MaxAttempts
       IN  client' = IF client[c].attempts >= max
                     THEN [client EXCEPT ![c] = NoClient]
                     ELSE [client EXCEPT ![c].attempts = @ + 1]
    /\ UNCHANGED <<used, m1s, m3s, roster, serverVars>>

-----------------------------------------------------------------------------
(* The server machine. *)

EvictExpired ==
    LET live == {sid \in DOMAIN pending : pending[sid].age < PendingTtl}
    IN  [sid \in live |-> pending[sid]]

Without(p, sid) == [q \in DOMAIN p \ {sid} |-> p[q]]

With(p, sid, entry) ==
    [q \in DOMAIN p \cup {sid} |-> IF q = sid THEN entry ELSE p[q]]

\* rate_ok on a table that never fills (SourceLimiters models the table itself).
Refilled(s) == rate[s].age >= Window

RateOk(s) == Burst > 0 /\ (Refilled(s) \/ rate[s].tokens > 0)

Charged(s) ==
    [rate EXCEPT ![s] = IF Refilled(s) THEN [tokens |-> Burst - 1, age |-> 0]
                        ELSE IF @.tokens > 0 THEN [@ EXCEPT !.tokens = @ - 1]
                        ELSE @]

\* What the history of work becomes when this step does `amount` of it for s;
\* a bucket that refilled in this step (its age fell) starts a new count.
Works(s, amount) ==
    work' = [work EXCEPT ![s] = (IF rate'[s].age < rate[s].age THEN 0 ELSE @)
                                + amount]

\* rate_ok is called and nothing is done for s.
ChargedOnly(s) == rate' = Charged(s) /\ Works(s, 0)

Uncharged == UNCHANGED <<rate, work>>

\* History: from's datagram has moved the entry.
MovedBy(entry, from) == [entry EXCEPT !.by = @ \cup {from}]

\* complete_m1: verify and KEM work; the M2 reply if the roster holds the
\* signer, else no trace.
CompleteM1(live, sid, asm, from) ==
    /\ Works(from, 1)
    /\ IF \E m1 \in m1s : m1.sid = sid /\ m1.client \in roster /\ AllFrom(asm, m1)
       THEN LET m2 == [m1 |-> asm[0], n |-> Cardinality(m2s) + 1]
            IN  /\ Cardinality(m2s) < MaxHellos
                /\ m2s' = m2s \cup {m2}
                /\ pending' = With(live, sid, [state |-> "AwaitM3", age |-> 0,
                                               source |-> live[sid].source,
                                               by |-> live[sid].by \cup {from},
                                               m2 |-> m2])
       ELSE pending' = Without(live, sid) /\ UNCHANGED m2s

\* MUTANT of FeedM1: complete_m1 runs without asking rate_ok.
FeedM1WithoutGate(live, sid, i, content, from) ==
    LET entry == MovedBy(live[sid], from)
        asm == AddFragment(entry.asm, i, content)
    IN  /\ UNCHANGED rate
        /\ IF asm = entry.asm
           THEN pending' = live /\ UNCHANGED <<work, m2s>>
           ELSE IF ~IsComplete(asm)
           THEN /\ pending' = With(live, sid, [entry EXCEPT !.asm = asm, !.age = 0])
                /\ UNCHANGED <<work, m2s>>
           ELSE CompleteM1(live, sid, asm, from)

\* A fragment for an entry that is still being assembled.
FeedM1(live, sid, i, content, from) ==
    LET entry == MovedBy(live[sid], from)
        asm == AddFragment(entry.asm, i, content)
    IN  IF asm = entry.asm
        THEN pending' = live /\ Uncharged /\ UNCHANGED m2s
        ELSE IF ~IsComplete(asm)
        THEN /\ pending' = With(live, sid, [entry EXCEPT !.asm = asm, !.age = 0])
             /\ Uncharged /\ UNCHANGED m2s
        ELSE IF RateOk(from)
        THEN rate' = Charged(from) /\ CompleteM1(live, sid, asm, from)
        ELSE /\ ChargedOnly(from)
             /\ pending' = With(live, sid, [entry EXCEPT !.asm = asm])
             /\ UNCHANGED m2s

\* MUTANT of RepeatM2: the exchange is run again.
RepeatM2Restarts(live, sid, i, from) ==
    /\ rate' = Charged(from)
    /\ CompleteM1(live, sid, [j \in Indices(M1Frags) |-> live[sid].m2.m1], from)

\* A duplicate M1 while M3 is awaited: fragment 0 has the cached M2 sent again.
RepeatM2(live, sid, i, from) ==
    /\ IF i # 0
       THEN pending' = live /\ Uncharged
       ELSE IF RateOk(from)
       THEN /\ rate' = Charged(from)
            /\ Works(from, 1)
            /\ pending' = With(live, sid, [MovedBy(live[sid], from) EXCEPT !.age = 0])
       ELSE pending' = live /\ ChargedOnly(from)
    /\ UNCHANGED m2s

\* MUTANT of HasRoom: one entry too many.
HasRoomOffByOne(live) == Cardinality(DOMAIN live) <= MaxPending

HasRoom(live) == Cardinality(DOMAIN live) < MaxPending

\* Fragment 0 of a new sid opens an entry, budget and table permitting.
OpenEntry(live, sid, i, content, from) ==
    /\ IF i # 0
       THEN pending' = live /\ Uncharged
       ELSE IF RateOk(from) /\ HasRoom(live)
       THEN /\ rate' = Charged(from)
            /\ Works(from, 1)
            /\ pending' =
                  With(live, sid,
                       [state |-> "AwaitM1", source |-> from, by |-> {from}, age |-> 0,
                        asm |-> [NewAssembler(M1Frags) EXCEPT ![0] = content]])
       ELSE pending' = live /\ ChargedOnly(from)
    /\ UNCHANGED m2s

ServerGetsM1(m1, i, damaged, from) ==
    LET live == EvictExpired
        sid == m1.sid
        content == IF damaged THEN Damaged ELSE m1
    IN  /\ IF sid \notin DOMAIN live
           THEN OpenEntry(live, sid, i, content, from)
           ELSE IF live[sid].source # from
           THEN pending' = live /\ Uncharged /\ UNCHANGED m2s
           ELSE IF live[sid].state = "AwaitM1"
           THEN FeedM1(live, sid, i, content, from)
           ELSE RepeatM2(live, sid, i, from)
        /\ UNCHANGED <<completed, roster, clientVars>>

\* MUTANT of Completes: the roster is not asked again.
CompletesWithoutRoster(entry) == TRUE

\* The last check before a session exists: is the client still on the roster?
Completes(entry) == entry.m2.m1.client \in roster

\* MUTANT of AwaitsM3: any source may answer.
AwaitsM3FromAnyone(live, sid, from) ==
    sid \in DOMAIN live /\ live[sid].state = "AwaitM3"

\* source_ok and state_ok of on_m3_fragment.
AwaitsM3(live, sid, from) ==
    /\ sid \in DOMAIN live
    /\ live[sid].source = from
    /\ live[sid].state = "AwaitM3"

\* MUTANT of FinishedEntry: the entry survives its completion.
FinishedEntryKept(live, sid) == live

FinishedEntry(live, sid) == Without(live, sid)

\* on_m3_fragment.  The MAC verifies exactly for the M3 that answers this M2.
ServerGetsM3(m3, damaged, from) ==
    LET live == EvictExpired
        sid == m3.m1.sid
    IN  /\ IF ~AwaitsM3(live, sid, from)
           THEN pending' = live /\ Uncharged /\ UNCHANGED completed
           ELSE IF ~RateOk(from)
           THEN pending' = live /\ ChargedOnly(from) /\ UNCHANGED completed
           ELSE /\ rate' = Charged(from)
                /\ Works(from, 1)
                /\ IF ~damaged /\ live[sid].m2 = m3
                   THEN /\ pending' = FinishedEntry(live, sid)
                        /\ completed' =
                              IF Completes(live[sid])
                              THEN completed \cup
                                     {[master |-> m3, roster |-> roster,
                                       source |-> live[sid].source,
                                       by |-> live[sid].by \cup {from},
                                       nth |-> Cardinality(completed)]}
                              ELSE completed
                   ELSE pending' = live /\ UNCHANGED completed
        /\ UNCHANGED <<m2s, roster, clientVars>>

SetRoster(new) ==
    /\ roster' = new
    /\ UNCHANGED <<clientVars, serverVars>>

-----------------------------------------------------------------------------

Older(age, limit) == IF age < limit THEN age + 1 ELSE limit

TimePasses ==
    /\ pending' = [sid \in DOMAIN pending |->
                      [pending[sid] EXCEPT !.age = Older(@, PendingTtl)]]
    /\ rate' = [s \in Sources |-> [rate[s] EXCEPT !.age = Older(@, Window)]]
    /\ UNCHANGED <<clientVars, m2s, roster, completed, work>>

Next ==
    \/ \E c \in Clients :
          \/ \E sid \in Sids : Start(c, sid)
          \/ \E m2 \in m2s, i \in Indices(M2Frags), damaged \in BOOLEAN :
                ClientGetsM2(c, m2, i, damaged)
          \/ ClientTimer(c)
    \/ \E from \in Sources, damaged \in BOOLEAN :
          \/ \E m1 \in m1s, i \in Indices(M1Frags) :
                ServerGetsM1(m1, i, damaged, from)
          \/ \E m3 \in m3s : ServerGetsM3(m3, damaged, from)
    \/ \E new \in Rosters : SetRoster(new)
    \/ TimePasses

Spec == Init /\ [][Next]_vars

-----------------------------------------------------------------------------

M1Assemblers == [Indices(M1Frags) -> m1s \cup {Empty, Damaged}]

M2Assemblers == [Indices(M2Frags) -> m2s \cup {Empty, Damaged}]

PendingEntries ==
    [state : {"AwaitM1"}, source : Sources, by : SUBSET Sources,
     age : 0 .. PendingTtl, asm : M1Assemblers]
    \cup [state : {"AwaitM3"}, source : Sources, by : SUBSET Sources,
          age : 0 .. PendingTtl, m2 : m2s]

ClientMachines ==
    {NoClient}
    \cup [phase : {"AwaitM2"}, m1 : m1s, attempts : 0 .. M1MaxAttempts,
          asm : M2Assemblers]
    \cup [phase : {"M3Sent"}, m1 : m1s, m2 : m2s, attempts : 0 .. M3MaxAttempts]

TypeOK ==
    /\ client \in [Clients -> ClientMachines]
    /\ used \in [Clients -> SUBSET Sids]
    /\ DOMAIN pending \subseteq Sids
    /\ Cardinality(DOMAIN pending) <= MaxPending
    /\ \A sid \in DOMAIN pending : pending[sid] \in PendingEntries
    /\ rate \in [Sources -> [tokens : 0 .. Burst, age : 0 .. Window]]
    /\ roster \in Rosters
    /\ m1s \subseteq M1s /\ m2s \subseteq M2s /\ m3s \subseteq m2s \cap M3s

(***************************************************************************)
(* The server completes an exchange at most once: a repeated, delayed or   *)
(* reordered M3, even one that arrives after its entry expired and the     *)
(* same M1 opened a new one, never yields a second session with the same   *)
(* master secret, which would reuse every nonce of the first.              *)
(***************************************************************************)
CompletedOnce ==
    \A a, b \in completed : a.master = b.master => a = b

(***************************************************************************)
(* A roster swap between M1 and M3 never mints a session: whoever the      *)
(* server completes with is on the roster in force at that moment, not     *)
(* only on the one complete_m1 saw (the re-check of on_m3_fragment).       *)
(***************************************************************************)
CompletedOnRoster ==
    \A outcome \in completed : outcome.master.m1.client \in outcome.roster

(***************************************************************************)
(* Whatever the server does for a source is paid for: since its bucket     *)
(* last refilled, the entries allocated, M2s sent again and messages       *)
(* verified for it are no more than the tokens gone from the bucket, for   *)
(* every mixture of new, duplicate, refused and damaged M1 and M3          *)
(* fragments ("expensive work is per-source budgeted like every other      *)
(* allocation").                                                           *)
(***************************************************************************)
WorkIsBudgeted == \A s \in Sources : work[s] + rate[s].tokens <= Burst

(***************************************************************************)
(* A client that waits for M2 can still take one: a complete M2 that did   *)
(* not verify, for instance one mixed from two replies, leaves an empty    *)
(* assembler (reset_m2_assembler), since a full one ignores everything.    *)
(***************************************************************************)
ClientNeverStuck ==
    \A c \in Clients : client[c].phase = "AwaitM2" => ~IsComplete(client[c].asm)

(***************************************************************************)
(* Only the address that opened an exchange moves it, from fragment 0 to   *)
(* the completion: a client with a colliding sid, or the same client from  *)
(* a new address, adds no fragment, refreshes no deadline and completes    *)
(* nothing (the source checks of on_m1_fragment and on_m3_fragment).       *)
(***************************************************************************)
OpenExchangeKeepsItsSource ==
    /\ \A sid \in DOMAIN pending : pending[sid].by = {pending[sid].source}
    /\ \A outcome \in completed : outcome.by = {outcome.source}

(***************************************************************************)
(* The server's answer stands: until it expires or completes, an exchange  *)
(* that awaits M3 keeps the M2 it sent, so a repeated M1 is answered with  *)
(* the same bytes and an M3 already under way still verifies.              *)
(***************************************************************************)
AnswerIsKept ==
    [][\A sid \in DOMAIN pending \cap DOMAIN pending' :
          pending[sid].age < PendingTtl /\ pending[sid].state = "AwaitM3" =>
              /\ pending'[sid].state = "AwaitM3"
              /\ pending'[sid].m2 = pending[sid].m2]_vars

(***************************************************************************)
(* handle_datagram of ServerHandshake says that any peer-input failure is  *)
(* a silent drop "with no state mutation": a completing fragment refused   *)
(* by rate_ok leaves no complete assembler behind, which would ignore      *)
(* every retransmission of M1 until pending_ttl.                           *)
(***************************************************************************)
ServerNeverStuck ==
    \A sid \in DOMAIN pending :
        pending[sid].state = "AwaitM1" => ~IsComplete(pending[sid].asm)

=============================================================================
