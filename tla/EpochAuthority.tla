--------------------------- MODULE EpochAuthority ---------------------------
(***************************************************************************)
(* What the execution leases promise about fencing epochs, without Redis,  *)
(* MySQL, time or failures.                                                *)
(*                                                                         *)
(* Epochs are the positions of the sequence `issued': epoch e was issued   *)
(* to the holder issued[e], once and for ever.  A caller's token is the    *)
(* epoch of the lease it believes in, 0 for none; it can only be an epoch  *)
(* that was issued to the holder the caller acts for.                      *)
(***************************************************************************)
EXTENDS Naturals, Sequences

CONSTANTS Caller,     \* running worker processes
          Holder,     \* holder ids they present
          HolderOf    \* the id each caller presents

VARIABLES issued,     \* issued[e] is the holder epoch e was allocated to
          token       \* token[c] is the epoch c fences its writes with

avars == <<issued, token>>

AInit == /\ issued = << >>
         /\ token = [c \in Caller |-> 0]

\* A new epoch, greater than every earlier one, goes to one holder.
Issue(h) == /\ issued' = Append(issued, h)
            /\ UNCHANGED token

\* A caller learns an epoch that its holder owns.
Take(c) == /\ \E e \in DOMAIN issued : /\ issued[e] = HolderOf[c]
                                       /\ token' = [token EXCEPT ![c] = e]
           /\ UNCHANGED issued

\* A caller gives its lease up, or dies.
Drop(c) == /\ token' = [token EXCEPT ![c] = 0]
           /\ UNCHANGED issued

ANext == \/ \E h \in Holder : Issue(h)
         \/ \E c \in Caller : Take(c) \/ Drop(c)

ASpec == AInit /\ [][ANext]_avars
=============================================================================
