----------------------------- MODULE FlowQueue -----------------------------
(***************************************************************************)
(* What the priority queue promises its users: one FIFO for each class and *)
(* destination.  An item enters at the end of its flow, and some flow's    *)
(* head leaves.  Which flow is next, and who waits for what, is left open. *)
(***************************************************************************)
EXTENDS Sequences

CONSTANTS Classes, Dests, Items, ClassOf, DestOf

VARIABLE flows  \* class -> destination -> items

FInit == flows = [c \in Classes |-> [d \in Dests |-> <<>>]]

Put(it) == flows' = [flows EXCEPT ![ClassOf[it]][DestOf[it]] = Append(@, it)]

Take(c, d) ==
    /\ flows[c][d] # <<>>
    /\ flows' = [flows EXCEPT ![c][d] = Tail(@)]

FNext ==
    \/ \E it \in Items : Put(it)
    \/ \E c \in Classes, d \in Dests : Take(c, d)

FSpec == FInit /\ [][FNext]_flows
=============================================================================
