-------------------------- MODULE AtMostOnceChannel --------------------------
(***************************************************************************)
(* What the data path promises above an unreliable network: each endpoint  *)
(* sends numbered messages, and the other one is handed each of them at    *)
(* most once, in any order, and never a message that was not sent.         *)
(***************************************************************************)
EXTENDS Naturals

CONSTANTS Roles, Messages


VARIABLES
    sent,        \* sent[r]: how many messages r has sent
    delivered    \* delivered[r][n]: how often r was handed message n of its peer

vars == <<sent, delivered>>

Peer(r) == CHOOSE other \in Roles : other # r

Init ==
    /\ sent = [r \in Roles |-> 0]
    /\ delivered = [r \in Roles |-> [n \in Messages |-> 0]]

Send(r) ==
    /\ sent' = [sent EXCEPT ![r] = @ + 1]
    /\ UNCHANGED delivered

Deliver(r, n) ==
    /\ n < sent[Peer(r)]
    /\ delivered[r][n] = 0
    /\ delivered' = [delivered EXCEPT ![r][n] = 1]
    /\ UNCHANGED sent

Next == \E r \in Roles : Send(r) \/ \E n \in Messages : Deliver(r, n)

Spec == Init /\ [][Next]_vars

=============================================================================
