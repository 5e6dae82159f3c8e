---------------------------- MODULE MCMessaging ----------------------------
(***************************************************************************)
(* Instances of what goes over Kafka: the outbox relay, the inbox          *)
(* consumer, and the commands of load runs.  They share nothing: `part',   *)
(* chosen at the start, says which one runs.  Relays are interchangeable,  *)
(* and so are events.                                                      *)
(***************************************************************************)
EXTENDS Outbox, Inbox, LoadRuns, TLC

VARIABLE part

Part == {"outbox", "inbox", "workers", "runs"}

CONSTANTS w1, w2, a, b

Symmetry == Permutations(Event) \cup Permutations(Relay)

\* Two workers for one run, of which one may be left out; or two runs on one
\* worker that stays up.  Results are collected of one run, and the
\* telemetry of one of its workers expires.
SmallLoad ==
  /\ \A r \in Run : commands'[r] # << >> =>
       CASE part = "workers" -> r = a /\ commands'[r][1].workers # {w2}
         [] part = "runs"    -> commands'[r][1].workers \in {{}, {w1}}
  /\ part = "runs" => proc'[w2].at = "new" /\ proc'[w1].at \in {"new", "up"}
  /\ result'.run \in {None, a}
  /\ \A w \in Worker, r \in Run : load'[w][r].gone => w = w1 /\ r = a

MCInit ==
  /\ OInit /\ IInit /\ LInit /\ part \in Part
  /\ part # "inbox" => event = [c \in Call |-> CHOOSE m \in Message : TRUE]

MCNext ==
  /\ UNCHANGED part
  /\ \/ part = "outbox" /\ ONext /\ UNCHANGED <<ivars, lvars>>
     \/ part = "inbox" /\ INext /\ UNCHANGED <<ovars, lvars>>
     \/ part \in {"workers", "runs"} /\ LNext /\ SmallLoad /\ UNCHANGED <<ovars, ivars>>

MCSpec == MCInit /\ [][MCNext]_<<ovars, ivars, lvars, part>>
=============================================================================
