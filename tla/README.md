# A TLA+ model of pq-tunnel

pq-tunnel is a point-to-multipoint UDP tunnel.  A client and a server run a
three-message handshake, derive the keys of a session, and exchange fixed-size
encrypted packets until the session is closed and the client starts over.  This
directory models the protocol core (`src/pq-tunnel-core`): TLA+ modules
translated from the source, TLC configurations, and TLAPS proofs.

## The parts of the system and how they interact

| Part | Source | Modules |
|---|---|---|
| Replay window | `replay.rs` | ReplayBitmap, ReplayWindow, ReplayWords; abstract: ReplayFilter |
| Session: state machine, send counter, encrypt and decrypt | `state.rs`, `nonce.rs`, `codec.rs`, `envelope.rs`, `wire_session.rs` | SecureChannel; abstract: AtMostOnceChannel |
| Failed-decrypt gate | `session_manager.rs` (FailGate) | SourceBuckets, SourceLimiters; abstract: SourceBudget |
| Handshake rate limiter | `handshake_v2.rs` (rate_ok) | SourceBuckets, SourceLimiters; abstract: SourceBudget |
| Handshake machines, fragment assemblers, roster | `handshake_v2.rs` | Handshake |
| Client manager and driver | `session_manager.rs` | CloseRetry, ClientHandlers, ClientManager |
| Server manager and driver | `session_manager.rs` | CloseRetry, ServerHandlers, ServerManager |
| Cover scheduler | `scheduler.rs` | on/off only, inside the two drivers |
| TUN data plane | `dataplane.rs` | Reassembler |
| TUN drivers | `pq-tunnel-bin/src/tun/` | the data arms, in Reassembler; the rest planned |
| Forwarding backend, client relay, programs | `forward.rs`, `relay.rs`, `lib.rs`, `v2_*.rs` | planned |
| Identity files, key generation, OS networking, UDP | `identity.rs`, `keygen.rs`, `os_net.rs`, `udp.rs` | not modelled |
| Cryptographic primitives | `pq-crypto` | not modelled: abstracted to what they bind |
| SOCKS proxy | `pq-proxy` | not modelled: parked, used by nothing |

Each endpoint is one task.  It runs a *driver* (`run_client_manager`,
`run_server_manager`): a `select!` over the socket, the application's channel,
a one-second ticker and a few pinned timers.  Each arm calls one handler of the
*manager* and acts on the event it returns.  The manager holds the handshake
machine and the sessions.  A session is a cipher state with a send counter and
a replay window.  All concurrency is therefore between endpoints, the network,
the application and the clock; inside an endpoint one arm runs to its end.

## How the modules correspond to the code

**Replay window.**  `ReplayBitmap` holds the pure operators: a window is the
highest accepted counter and the set of bit indices that are set.
`ReplayWindow` is the state machine of `accept` and `clear`.  `ReplayWords`
models `shift_right`, `set_bit` and `get_bit` on an array of words, with the
loops in their order, and is shown to implement `ReplayWindow`.  `ReplayFilter`
is what the window promises: it remembers every accepted counter and refuses
repeats and counters older than the window.

**Session.**  `SecureChannel` runs two sessions, one per role, over a network
that keeps every packet ever sent.  `Encrypt`, `EncryptExhausted` and `Decrypt`
are the methods of `WireSession` with those of `CipherSession` inside;
`DecryptOutcome` makes the checks in the order the code makes them.  A packet
is its direction, its counter and the number of its payload.
`AtMostOnceChannel` is the promise: every payload is delivered at most once.

**Budgets.**  `SourceBuckets` has the table both limiters use (a map and a queue
of its keys in insertion order); `SourceLimiters` has the calls of both, each
behaviour being that of one limiter.  `SourceBudget` is the promise: one budget
per source and window.

**TUN data plane.**  `Reassembler` has the sender's `fragment_ip_packet` and the
receiver's `feed`, `expire` and `clear`, joined by records that arrive once, in
any order, or never (what the session below guarantees).  An inner packet is its
length and two bits per fragment; the checksum is a CRC of one bit.  As with
CRC-32 on fragments of 1225 bytes, it is shorter than one fragment: different
packets share it, and so may a mixture of their fragments.  `OnlyCollisionsSplice`
therefore says exactly what the checks of `feed` buy, that fragments of two
packets are delivered together only when the headers and the checksum of the
mixture collide.  `ReuseIds` and the malformed slots stand for the faulty sender
these checks are written against: the drivers' own counter only grows within a
session.  `Closed` has two outcomes because the TUN client clears the table on a
Closed that `handle_datagram` or `tick` returns and ignores one that
`tun_outbound` or `cover_packet` returns.

**Handshake.**  Any number of client machines against one server machine.  A
message is named by what its signature or MAC covers, so "verifies" is "all
fragments come from this message".  Fragments are delivered one at a time, any
number of times, possibly damaged and from any source address.  M3 is a single
fragment, as in the code.  Two histories serve the properties: `work` counts
what the server does for a source where it does it, apart from `rate`, which is
what `rate_ok` charges; `by` collects the sources whose datagrams moved an
exchange.  The `?` in `on_complete_m2` after the version and sid checks are not
modelled as outcomes: `verify`, `decapsulate` and `encapsulate` of `pq-crypto`
have no path that returns an error, and HKDF-SHA256 does not fail for 32 bytes.

**Client.**  `ClientHandlers` gives each method of `ClientSessionManager` as a
function of the manager's state; `ClientManager` has one action per `select!`
arm and outcome.  The action covers the handler, everything the driver does
with its event (re-arming included), and the readiness check that starts the
next iteration.  Driver locals are the record `d`.  `DriverFails` is an error
that leaves `run_client_manager`.

**Server.**  `ServerHandlers` and `ServerManager`, built in the same way.  The
variable `app` counts, for each sid, the Established notifications the
application has been sent less the Closed ones.  A client may complete a
handshake under a sid whose Closed still waits for the tick.  The application
then gets the new Established before the old Closed; `AppKnowsSessions` says that
the accounts still balance, one Closed for each Established.

**Time** is kept as ages in driver ticks; an age stops at the largest value a
comparison can tell apart.  `TimePasses` and `Tick` alternate in the managers.
**The send counter** is modelled exactly in `SecureChannel`.  In the managers it
is the answer of `encrypt`: Ok, RekeyRequired or WrongState, with RekeyRequired
possible only on a session that is not new.

## The runs

Runs that pass:

| Run | Question and bounds |
|---|---|
| replay_words | Every arrival order of 10 counters through a window of three words of two bits: shifts cross, skip and clear words, and jumps fall below, at and above the window. |
| secure_channel | Both endpoints from their first packet to the counter limit. |
| source_limiters | More sources than buckets, bursts and windows of two units: eviction, expiry and refill interleave, in both limiters. |
| reassembler | Three packets for two entries and fewer bytes than they need, identifiers that start again once, one malformed slot (`MaxFaults`), a deadline of one unit. |
| handshake_reconnect | One client that retries and reconnects under a small budget. |
| handshake_collision | Two clients with one sid on two addresses, and roster swaps between M1 and M3: who completes, who may move an open exchange, and that its M2 stands. |
| client_manager | The whole client driver, with and without cover, nonce exhaustion, and one failed re-arm. The driver may stop on an error, so deadlock is not checked. |
| client_manager_live | Liveness of the client under the fairness below. |
| server_manager | Three clients, room for two, every way a session can end, at most two Closed events queued between ticks (`MaxQueued`, so one sid can be queued and live at once): every session is closed to the application once, and eventually. |

The configuration files state the exact values.  They are the smallest for
which each counter reaches, and where the code allows it passes, the limit it
is compared with; each property is broken by a one-line change of the
definition it is about (the operators marked as mutants beside it), so each
interesting case does occur within the bounds.  Symmetry is used in safety runs
only, over sids that the specifications compare only for equality.

Runs in which the code disagrees with its own documentation:

| Run | Disagreement |
|---|---|
| handshake_refused | A completing M1 fragment refused by the rate limit is already stored; retries of that sid are ignored until the entry expires. The documentation promises no state change. |
| client_manager_drops | Payloads that expire between two ticks and are found by the session slot are dropped without a notification. |
| client_manager_exhausted | A liveness probe that finds the counter exhausted leaves the session in Rekey; the next operation on it ends the driver instead of re-establishing. |

Three smaller disagreements, seen while modelling and not run: `WireSession::close`
sets Closed without consulting `can_transition_to`, so Initial to Closed
happens, which the table refuses; and `on_m3_sent` keeps the handshake machine
in M3Sent when it refuses a retired sid, a state a comment in `on_timer` calls
impossible (it takes a 64-bit sid drawn twice); and `feed` drops a slot with an
invalid overlay header without poisoning its entry, which D33 4.4 asks for.

`NeverRehosted` is checked with as many remembered sids as there are sids: the
code remembers the last 1024 retired sids and promises nothing beyond them.

## Fairness

`TimePasses` and `Tick` are weakly fair: the clock advances and the ticker is
an arm of a `select!` that polls its arms in random order.  The client's
retransmit, slot and cover timers are weakly fair for the same reason.  Nothing
is assumed of the peer, the network or the application.

## What is proved

The theorems hold for every window size, counter range and counter limit that
meets the ASSUMEs of `ReplayBitmap` and `SecureChannel`.

* `ReplayBitmapProofs`: what `accept` does to a window.  The key lemma is
  `AcceptKeepsExact`: if the bitmap records exactly the accepted counters of the
  window, it still does after any call.  The step at the boundary, where the
  jump equals the window size, is a case of `AdvanceKeepsExact`.
* `ReplayWindowProofs`: `WindowCorrect`, `ReplaySafety` and the refinement
  `ImplementsFilter`.  The inductive invariant is type correctness with
  `WindowIsExact`; the safety property follows from it, but is not inductive
  alone, since it does not say what the bits below the highest counter mean.
* `SecureChannelProofs`: `NonceSafety`, `SenderStops` and the refinement
  `ChannelRefinement`.  The inductive invariant has two parts beside the types.
  `SealInv` ties the send counter to the number of payloads sealed and to the
  packets on the wire, which makes counters unique.  `DeliveryInv` ties the
  replay window of a receiver to the payloads it has handed over; from it a
  packet that passes the window has not been delivered.

Only model-checked: the word-level shift (its loops are folds over data), the
limiters, the data plane, the handshake, the managers, and all liveness, which
is out of the prover's reach.

## Not modelled, and why

Byte layouts, AEAD, KEM and signatures (abstracted to what they bind); the peer
address and its roaming; the pacing of slots within one tick; `close` and
`close_session`, which nothing but tests calls; an `idle_timeout`,
`handshake_timeout` or `confirm_timeout` of None; errors of the socket, which
end the driver.  The checks of `decrypt` on the plaintext (length, framing,
direction), which come after the replay window has taken the counter: a packet
that passes the AEAD was sealed by the peer's `encrypt`, for which they hold.

## Plan

1. TunServer and TunClient as drivers over ServerHandlers and ClientHandlers,
   with the sid the TUN server keeps and its reassembly tables.
2. Tunnel: client and server managers composed over a lossy network, with
   liveness (a confirmed session on both sides) and the peer address.
3. DriverChannels: the bounded channels between driver and application.
4. Forwarder and RelayBindings: the socket pool and the binding table.
5. CoverScheduler: the deadline grid of `on_deadline`.
6. Proofs: `AppKnowsSessions` for ServerManager, `OneLiveObject` and the driver
   invariants of ClientManager, the handshake's `CompletedOnce`, the lockstep of
   the limiter tables.
