---------------------------- MODULE SourceBuckets ----------------------------
(***************************************************************************)
(* The per-source token table that the data-path failure gate              *)
(* (session_manager.rs, FailGate) and the handshake rate limiter           *)
(* (handshake_v2.rs, ServerHandshake) both keep: a map from a source to    *)
(* its bucket, and a queue of the map's keys in insertion order.           *)
(*                                                                         *)
(* A bucket holds its age, the time since last_refill.  Every comparison   *)
(* of the code is with one window, so ages stop at Window.                 *)
(***************************************************************************)
EXTENDS Integers, FiniteSets, SequencesExt

CONSTANTS
    Sources,      \* socket addresses
    Burst,        \* fail_burst / rate_limit_burst
    Window,       \* fail_window / rate_limit_window, in clock units
    MaxBuckets    \* max_fail_buckets / MAX_RATE_BUCKETS

ASSUME BucketAssumption ==
    /\ IsFiniteSet(Sources)
    /\ Burst \in Nat \ {0}
    /\ Window \in Nat \ {0}
    /\ MaxBuckets \in Nat

Buckets == [tokens : 0 .. Burst, age : 0 .. Window]

Tracked(t) == DOMAIN t.buckets

\* A table: a partial map of buckets and the queue of its keys.
IsTable(t) ==
    /\ Tracked(t) \subseteq Sources
    /\ t.buckets \in [Tracked(t) -> Buckets]
    /\ t.order \in Seq(Sources)

EmptyTable == [buckets |-> <<>>, order |-> <<>>]

IsExpired(bucket) == bucket.age >= Window

Older(age) == IF age < Window THEN age + 1 ELSE Window

AgeTable(t) ==
    [t EXCEPT !.buckets = [s \in Tracked(t) |-> [@[s] EXCEPT !.age = Older(@)]]]

\* saturating_sub(1)
Spend(tokens) == IF tokens > 0 THEN tokens - 1 ELSE 0

\* MUTANT of ChargedBucket: a refill adds to what was left.
ChargedBucketCarriesOver(bucket) ==
    IF IsExpired(bucket)
    THEN [tokens |-> bucket.tokens + Burst - 1, age |-> 0]
    ELSE [bucket EXCEPT !.tokens = Spend(@)]

\* The bucket of a tracked source, refilled first when its window has elapsed.
ChargedBucket(bucket) ==
    IF IsExpired(bucket)
    THEN [tokens |-> Spend(Burst), age |-> 0]
    ELSE [bucket EXCEPT !.tokens = Spend(@)]

ChargeTracked(t, s) == [t EXCEPT !.buckets[s] = ChargedBucket(@)]

\* The table once the k oldest-inserted sources are popped.
Popped(t, k) ==
    [buckets |-> Restrict(t.buckets, Tracked(t) \ ToSet(SubSeq(t.order, 1, k))),
     order |-> SubSeq(t.order, k + 1, Len(t.order))]

\* while len >= MaxBuckets, pop: as few pops as make room, or all there are.
MakeRoom(t) ==
    LET enough == {k \in 0 .. Len(t.order) :
                      \/ Cardinality(Tracked(Popped(t, k))) < MaxBuckets
                      \/ k = Len(t.order)}
    IN  Popped(t, Min(enough))

InsertNew(t, s) ==
    LET room == MakeRoom(t)
    IN  [buckets |-> [q \in Tracked(room) \cup {s} |->
                         IF q = s THEN [tokens |-> Spend(Burst), age |-> 0]
                         ELSE room.buckets[q]],
         order |-> Append(room.order, s)]

\* MUTANT of DropExpired: the queue is not filtered.
DropExpiredFromMapOnly(t) ==
    [t EXCEPT !.buckets =
        Restrict(@, {s \in Tracked(t) : ~IsExpired(t.buckets[s])})]

\* retain() on the map, then on the queue.
DropExpired(t) ==
    LET kept == {s \in Tracked(t) : ~IsExpired(t.buckets[s])}
    IN  [buckets |-> Restrict(t.buckets, kept),
         order |-> SelectSeq(t.order, LAMBDA s : s \in kept)]

\* `order' holds exactly the keys of the map, each once.
InLockstep(t) ==
    /\ ToSet(t.order) = Tracked(t)
    /\ Len(t.order) = Cardinality(Tracked(t))

\* Views of a source's budget, the same for an absent and an expired bucket.
SpentOf(t, s) ==
    IF s \in Tracked(t) /\ ~IsExpired(t.buckets[s])
    THEN Burst - t.buckets[s].tokens
    ELSE 0

AgeOf(t, s) == IF s \in Tracked(t) THEN t.buckets[s].age ELSE Window

=============================================================================
