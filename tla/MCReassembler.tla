---------------------------- MODULE MCReassembler ----------------------------
(* Small instance of Reassembler. *)
EXTENDS Reassembler

\* Two packets of three fragments with the same length and checksum, some of
\* whose mixtures have that checksum and some have not, and a packet of one
\* fragment.
MCPackets ==
    {[len |-> 5, blocks |-> <<1, 2, 0>>], [len |-> 5, blocks |-> <<0, 1, 1>>],
     [len |-> 1, blocks |-> <<3>>]}

=============================================================================
