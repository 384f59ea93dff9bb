----------------------------- MODULE Reassembler -----------------------------
(***************************************************************************)
(* The TUN data plane (dataplane.rs): an inner IP packet is cut into       *)
(* overlay fragments, one per record, and put together again by a          *)
(* Reassembler, as the TUN drivers use them (tun/client.rs, tun/server.rs).*)
(*                                                                         *)
(* Records reach the Reassembler through the replay window, so each        *)
(* arrives at most once, in any order, or never.  Two things go wrong on   *)
(* the sender's side, those the overlay's checks are written for: its      *)
(* identifiers repeat (ReuseIds), and a slot is malformed.                 *)
(*                                                                         *)
(* A packet is its length and the contents of its fragments, each content  *)
(* two bits.  The checksum is a CRC of one bit.  Like CRC-32 on fragments  *)
(* of 1225 bytes it is shorter than a fragment: different packets, changes *)
(* of a single fragment and mixtures of two packets may all share it, and  *)
(* no property below depends on which of them do.                          *)
(* Time since an entry was opened is its age, which stops at Deadline.     *)
(***************************************************************************)
EXTENDS Integers, FiniteSets, SequencesExt

CONSTANTS
    Packets,      \* inner IP packets, [len, blocks]
    FragCap,      \* FRAG_CAP: bytes of inner IP per record
    MaxEntries,   \* MAX_ENTRIES_PER_SESSION
    MaxBytes,     \* MAX_BYTES_PER_SESSION
    Deadline,     \* REASSEMBLY_DEADLINE, in clock units
    MaxSent,      \* bound: packets sent
    MaxInFlight,  \* bound: records in flight
    MaxFaults     \* bound: malformed slots

ASSUME ReassemblerAssumption ==
    /\ \A c \in {FragCap, MaxEntries, MaxBytes, Deadline} : c \in Nat \ {0}
    /\ \A c \in {MaxSent, MaxInFlight, MaxFaults} : c \in Nat
    /\ \A p \in Packets : /\ p.blocks \in Seq(0 .. 3)
                          /\ (Len(p.blocks) - 1) * FragCap < p.len
                          /\ p.len <= Len(p.blocks) * FragCap

VARIABLES
    nextId,      \* the sender's datagram counter
    count,       \* packets sent
    faults,      \* malformed slots received
    net,         \* fragments sent and not yet received
    reasm,       \* the Reassembler: its entries and its byte count
    written,     \* history: the packet this step wrote to the TUN device, its
                 \* identifier, and the packets its fragments came from
    fed          \* history: per entry, what was fed to it since it was opened,
                 \* up to the slot that poisoned it: the packets and indices of
                 \* its fragments, and the faults seen

vars == <<nextId, count, faults, net, reasm, written, fed>>

\* The remainder of all the bits by x + 1: their parity.
Crc(blocks) == SumFunction([i \in DOMAIN blocks |-> blocks[i] + blocks[i] \div 2]) % 2

\* What is wrong with a slot: nothing, a field of the overlay header, a byte
\* of the padding, or the IP header that fragment 0 carries.
Faults == {"none", "header", "padding", "ip"}

Fragments ==
    {f \in [id : 1 .. MaxSent, packet : Packets,
            index : 0 .. Max({Len(p.blocks) : p \in Packets}) - 1] :
        f.index < Len(f.packet.blocks)}

Contents == [bits : 0 .. 3, ipValid : BOOLEAN]

\* The slot a fragment arrives in.
Slot(f, fault) ==
    [id |-> f.id, index |-> f.index, count |-> Len(f.packet.blocks),
     len |-> f.packet.len, crc |-> Crc(f.packet.blocks), fault |-> fault,
     content |-> [bits |-> f.packet.blocks[f.index + 1],
                  ipValid |-> ~(fault = "ip" /\ f.index = 0)]]

NewReassembler == [entries |-> <<>>, bytes |-> 0]

Tracked(r) == DOMAIN r.entries

Received(e) == DOMAIN e.parts

TypeOK ==
    /\ nextId \in 1 .. count + 1
    /\ count \in 0 .. MaxSent
    /\ faults \in 0 .. MaxFaults
    /\ net \subseteq Fragments
    /\ Tracked(reasm) \subseteq 1 .. count
    /\ \A id \in Tracked(reasm) :
          LET e == reasm.entries[id]
          IN  /\ e.len \in {p.len : p \in Packets}
              /\ e.count \in {Len(p.blocks) : p \in Packets}
              /\ e.crc \in {0, 1}
              /\ Received(e) \subseteq 0 .. e.count - 1
              /\ e.parts \in [Received(e) -> Contents]
              /\ e.poisoned \in BOOLEAN
              /\ e.age \in 0 .. Deadline
    /\ reasm.bytes \in 0 .. MaxBytes
    /\ fed \in [Tracked(reasm) -> [packets : SUBSET Packets, indices : SUBSET Nat,
                                    faults : SUBSET Faults]]

Init ==
    /\ nextId = 1
    /\ count = 0
    /\ faults = 0
    /\ net = {}
    /\ reasm = NewReassembler
    /\ written = {}
    /\ fed = <<>>

-----------------------------------------------------------------------------
(* The sender. *)

FragmentIpPacket(p, id) ==
    {[id |-> id, packet |-> p, index |-> i - 1] : i \in DOMAIN p.blocks}

\* A packet read from the TUN device takes an identifier and is sent at once;
\* the network loses some of its records.
SendPacket(p) ==
    /\ count < MaxSent
    /\ count' = count + 1
    /\ nextId' = nextId + 1
    /\ \E arriving \in SUBSET FragmentIpPacket(p, nextId) :
          net' = net \cup arriving
    /\ Cardinality(net') <= MaxInFlight
    /\ written' = {}
    /\ UNCHANGED <<faults, reasm, fed>>

\* The sender's counter starts again within a session; bound: once.
ReuseIds ==
    /\ count > 0 /\ nextId = count + 1
    /\ nextId' = 1
    /\ written' = {}
    /\ UNCHANGED <<count, faults, net, reasm, fed>>

-----------------------------------------------------------------------------
(* The Reassembler. *)

LenSum(r, ids) == SumFunctionOnSet([id \in ids |-> r.entries[id].len], ids)

\* Remove entries and give their bytes back (saturating_sub).
Drop(r, ids) ==
    [entries |-> Restrict(r.entries, Tracked(r) \ ids),
     bytes |-> Max({0, r.bytes - LenSum(r, ids)})]

\* MUTANT of Expire: the bytes are not given back.
ExpireKeepsBytes(r) ==
    [r EXCEPT !.entries =
        Restrict(@, {id \in Tracked(r) : r.entries[id].age < Deadline})]

Expire(r) == Drop(r, {id \in Tracked(r) : r.entries[id].age >= Deadline})

\* MUTANT of Open: a full table makes room.
OpenEvicts(r, s) ==
    LET room == IF Cardinality(Tracked(r)) < MaxEntries THEN r
                ELSE Drop(r, {Min(Tracked(r))})
        e == [count |-> s.count, len |-> s.len, crc |-> s.crc,
              parts |-> <<>>, poisoned |-> FALSE, age |-> 0]
    IN  IF s.id \in Tracked(r) THEN {r}
        ELSE IF s.fault = "padding" \/ room.bytes + s.len > MaxBytes THEN {}
        ELSE {[entries |-> (s.id :> e) @@ room.entries, bytes |-> room.bytes + s.len]}

\* MUTANT of Open: the bytes are compared before the packet's are added.
OpenIgnoresLength(r, s) ==
    LET e == [count |-> s.count, len |-> s.len, crc |-> s.crc,
              parts |-> <<>>, poisoned |-> FALSE, age |-> 0]
    IN  IF s.id \in Tracked(r) THEN {r}
        ELSE IF \/ s.fault = "padding"
                \/ Cardinality(Tracked(r)) >= MaxEntries
                \/ r.bytes > MaxBytes
        THEN {}
        ELSE {[entries |-> (s.id :> e) @@ r.entries, bytes |-> r.bytes + s.len]}

\* The table with an entry for the slot, if it has or may be given one.
Open(r, s) ==
    LET e == [count |-> s.count, len |-> s.len, crc |-> s.crc,
              parts |-> <<>>, poisoned |-> FALSE, age |-> 0]
    IN  IF s.id \in Tracked(r) THEN {r}
        ELSE IF \/ s.fault = "padding"
                \/ Cardinality(Tracked(r)) >= MaxEntries
                \/ r.bytes + s.len > MaxBytes
        THEN {}
        ELSE {[entries |-> (s.id :> e) @@ r.entries, bytes |-> r.bytes + s.len]}

IsDuplicate(e, s) == s.index \in Received(e)


\* The slot cannot belong to the packet the entry collects.
Conflicts(e, s) ==
    \/ <<e.count, e.len, e.crc>> # <<s.count, s.len, s.crc>>
    \/ s.fault = "padding"
    \/ IsDuplicate(e, s) /\ e.parts[s.index] # s.content

Stored(e, s) ==
    [e EXCEPT !.parts = (s.index :> s.content) @@ @]

Buffer(e) == [i \in 1 .. e.count |-> e.parts[i - 1].bits]

IsComplete(e) == Received(e) = 0 .. e.count - 1

\* MUTANT of Intact: a complete buffer is not checked.
IntactWithoutCrc(e) == 0 \in Received(e) => e.parts[0].ipValid

\* Fragment 0 holds a valid IP header, and a complete buffer its checksum.
Intact(e) ==
    /\ 0 \in Received(e) => e.parts[0].ipValid
    /\ IsComplete(e) => Crc(Buffer(e)) = e.crc

\* The entry after the slot; a duplicate changes nothing.
FedEntry(e, s) ==
    IF e.poisoned \/ (IsDuplicate(e, s) /\ ~Conflicts(e, s)) THEN e
    ELSE IF Conflicts(e, s) THEN [e EXCEPT !.poisoned = TRUE]
    ELSE [Stored(e, s) EXCEPT !.poisoned = ~Intact(Stored(e, s))]

Completes(e) == ~e.poisoned /\ IsComplete(e)

NothingFed == [packets |-> {}, indices |-> {}, faults |-> {}]

\* What the history says once the slot is fed: expire left r, o holds the slot's
\* entry.
FedWith(r, o, f, fault) ==
    [id \in Tracked(o) |->
        LET h == IF id \in Tracked(r) THEN fed[id] ELSE NothingFed
        IN  IF id # f.id \/ o.entries[id].poisoned THEN h
            ELSE [packets |-> h.packets \cup {f.packet},
                  indices |-> h.indices \cup {f.index},
                  faults |-> h.faults \cup ({fault} \ {"none"})]]

\* The slot is dropped: its header is invalid, or it has and gets no entry.
\* An entry its identifier names is left as expire left it.
Drops(r) ==
    /\ reasm' = r
    /\ fed' = Restrict(fed, Tracked(r))
    /\ written' = {}

\* A record arrives and its slot is fed.
Feed(f, fault) ==
    LET s == Slot(f, fault)
        r == Expire(reasm)
        open == IF fault = "header" THEN {} ELSE Open(r, s)
    IN  /\ f \in net
        /\ net' = net \ {f}
        /\ faults' = faults + (IF fault = "none" THEN 0 ELSE 1)
        /\ faults' <= MaxFaults
        /\ UNCHANGED <<nextId, count>>
        /\ IF open = {}
           THEN Drops(r)
           ELSE \E o \in open :
                LET e == FedEntry(o.entries[s.id], s)
                    heard == FedWith(r, o, f, fault)
                IN  IF Completes(e)
                    THEN /\ reasm' = Drop(o, {s.id})
                         /\ fed' = Restrict(heard, Tracked(o) \ {s.id})
                         /\ written' =
                                {[id |-> s.id,
                                  packet |-> [len |-> e.len, blocks |-> Buffer(e)],
                                  from |-> heard[s.id].packets]}
                    ELSE /\ reasm' = [o EXCEPT !.entries[s.id] = e]
                         /\ fed' = heard
                         /\ written' = {}

\* The session closes: what is still in flight no longer decrypts.  A Closed
\* that handle_datagram or tick returns has the table cleared; one that
\* tun_outbound or cover_packet returns is ignored, and the table is kept.
Closed ==
    /\ \/ reasm' = NewReassembler /\ fed' = <<>>
       \/ UNCHANGED <<reasm, fed>>
    /\ net' = {}
    /\ written' = {}
    /\ UNCHANGED <<nextId, count, faults>>

TimePasses ==
    /\ reasm' = [reasm EXCEPT !.entries =
                    [id \in Tracked(reasm) |->
                        [@[id] EXCEPT !.age = Min({@ + 1, Deadline})]]]
    /\ written' = {}
    /\ UNCHANGED <<nextId, count, faults, net, fed>>

Next ==
    \/ \E p \in Packets : SendPacket(p)
    \/ ReuseIds
    \/ \E f \in net, fault \in Faults : Feed(f, fault)
    \/ Closed
    \/ TimePasses

Spec == Init /\ [][Next]_vars

-----------------------------------------------------------------------------

(***************************************************************************)
(* What reaches the TUN device has the length and the checksum of every    *)
(* packet that gave it a fragment, and each of its fragments comes from    *)
(* one of them: a packet alone under its identifier is delivered as it was *)
(* sent, and two packets that share one are mixed only if their headers    *)
(* and the checksum of the very mixture all agree (feed's collision,       *)
(* duplicate and checksum tests together).                                 *)
(***************************************************************************)
OnlyCollisionsSplice ==
    \A w \in written :
        /\ \A p \in w.from : /\ p.len = w.packet.len
                            /\ Len(p.blocks) = Len(w.packet.blocks)
                            /\ Crc(p.blocks) = Crc(w.packet.blocks)
        /\ \A i \in DOMAIN w.packet.blocks :
              \E p \in w.from : p.blocks[i] = w.packet.blocks[i]

(***************************************************************************)
(* current_bytes is what the entries hold, and neither cap is exceeded,    *)
(* through expiry, poisoning, completion and close: bytes that leaked      *)
(* would in the end refuse every new packet.                               *)
(***************************************************************************)
BytesAccounted ==
    /\ reasm.bytes = LenSum(reasm, Tracked(reasm))
    /\ reasm.bytes <= MaxBytes
    /\ Cardinality(Tracked(reasm)) <= MaxEntries


(***************************************************************************)
(* An entry leaves the table only in the step that delivers its packet, or *)
(* when its deadline has passed, or when the session closes; at a cap the  *)
(* new packet is refused.  And a poisoned entry stays poisoned and nothing *)
(* is delivered from it (feed, expire, clear).                             *)
(***************************************************************************)
EntriesAreKept ==
    [][\A id \in Tracked(reasm) :
          LET e == reasm.entries[id]
          IN  \/ e.age >= Deadline
              \/ reasm' = NewReassembler /\ net' = {}
              \/ /\ id \in Tracked(reasm')
                 /\ e.poisoned => reasm'.entries[id].poisoned
              \/ ~e.poisoned /\ \E w \in written' : w.id = id]_vars

=============================================================================
