---------------------------- MODULE BoundedFifo ----------------------------
(***************************************************************************)
(* What a single-producer single-consumer queue promises: items come out   *)
(* once each, in the order they went in, and never more than Bound of them *)
(* are inside.                                                             *)
(***************************************************************************)
EXTENDS Naturals, Sequences

CONSTANTS Items, Bound

VARIABLES q,    \* the items inside, oldest first
          out   \* the item most recently taken out (any value at first)

fifoVars == <<q, out>>

Put(x) == /\ Len(q) < Bound
          /\ q' = Append(q, x)
          /\ UNCHANGED out

Get == /\ q # <<>>
       /\ out' = Head(q)
       /\ q' = Tail(q)

FifoInit == q = <<>>

FifoNext == (\E x \in Items : Put(x)) \/ Get

FifoSpec == FifoInit /\ [][FifoNext]_fifoVars
=============================================================================
