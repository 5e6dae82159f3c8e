---------------------------- MODULE AtLeastOnce ----------------------------
(***************************************************************************)
(* What a stage of the event pipeline promises: only accepted events are   *)
(* delivered, each accepted event is delivered in the end, and a delivery  *)
(* is not taken back.  Nothing is said of how often or in what order.      *)
(***************************************************************************)
EXTENDS Naturals

CONSTANT Event

VARIABLES accepted, delivered

avars == <<accepted, delivered>>

AInit == accepted = {} /\ delivered = {}

Accept(e) == /\ e \notin accepted
             /\ accepted' = accepted \cup {e}
             /\ UNCHANGED delivered

Deliver(e) == /\ e \in accepted \ delivered
              /\ delivered' = delivered \cup {e}
              /\ UNCHANGED accepted

ANext == \E e \in Event : Accept(e) \/ Deliver(e)

ASafety == AInit /\ [][ANext]_avars

ASpec == ASafety /\ \A e \in Event : WF_avars(Deliver(e))
=============================================================================
