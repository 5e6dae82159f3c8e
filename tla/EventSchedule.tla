--------------------------- MODULE EventSchedule ---------------------------
(***************************************************************************)
(* What the simulation kernel promises of its events: they are taken in    *)
(* the order of (time, priority, sequence number), each at most once, a    *)
(* cancelled one never, and time does not go back; a checkpoint, which     *)
(* nothing but the next one changes, brings the events and the clock back  *)
(* that it was taken of.                                                   *)
(***************************************************************************)
EXTENDS Integers

VARIABLES live,    \* events that will still be taken
          next,    \* the next sequence number
          now,     \* virtual time
          saved    \* the checkpoint

svars == <<live, next, now, saved>>

NotSaved == [live |-> {}, next |-> 0, now |-> 0, taken |-> FALSE]

Earlier(a, b) ==
  \/ a.time < b.time
  \/ a.time = b.time /\ a.prio < b.prio
  \/ a.time = b.time /\ a.prio = b.prio /\ a.seq < b.seq

SInit ==
  /\ live = {} /\ next = 0 /\ now = 0
  /\ saved = NotSaved

\* Each action says which event it is about.
Add(e) ==
  /\ e.time >= now /\ e.seq = next
  /\ live' = live \cup {e}
  /\ next' = next + 1
  /\ UNCHANGED <<now, saved>>

Drop(e) ==
  /\ e \in live
  /\ live' = live \ {e}
  /\ UNCHANGED <<next, now, saved>>

Take(e) ==
  /\ e \in live
  /\ \A f \in live \ {e} : Earlier(e, f)
  /\ e.time >= now
  /\ live' = live \ {e}
  /\ now' = e.time
  /\ UNCHANGED <<next, saved>>

Save ==
  /\ saved' = [live |-> live, next |-> next, now |-> now, taken |-> TRUE]
  /\ UNCHANGED <<live, next, now>>

\* What a resumption restores when `back' is the part of the events that are
\* brought back.
Resume(back) ==
  /\ saved.taken
  /\ live' = back /\ next' = saved.next /\ now' = saved.now
  /\ UNCHANGED saved

Load == Resume(saved.live)

Clear ==
  /\ live' = {} /\ now' = 0
  /\ UNCHANGED <<next, saved>>

SNext ==
  \/ \E e \in live' \ live : Add(e)
  \/ \E e \in live : Drop(e) \/ Take(e)
  \/ Save \/ Load \/ Clear

SSpec == SInit /\ [][SNext]_svars
=============================================================================
