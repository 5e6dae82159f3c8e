------------------------------- MODULE Lease -------------------------------
(***************************************************************************)
(* LeaseManager and EpochFenceGuard of packages/execution-leases, for one  *)
(* resource (every key and row is addressed by resourceId, so resources    *)
(* do not interact).                                                       *)
(*                                                                         *)
(* The shared state is the Redis lock key with its PX expiry, the Redis    *)
(* epoch counter, and the resource's row of MySQL `execution_leases'.      *)
(* Every awaited command is one action: between two commands of a call,    *)
(* other callers, the clock, and the caller's own death may intervene.     *)
(* Redis and MySQL execute one command atomically and keep their data.     *)
(*                                                                         *)
(* A caller is a process that runs one call at a time; several callers may *)
(* present the same holderId.                                              *)
(***************************************************************************)
EXTENDS Naturals, Sequences, FiniteSets

CONSTANTS Caller,       \* processes that use a LeaseManager
          Holder,       \* holderId values
          HolderOf,     \* the holderId each caller presents
          NoHolder,     \* in the place of a holderId where there is none
          Ttl,          \* ttlMs, in clock ticks
          MaxTime,      \* bound: the clock stops here
          MaxCalls,     \* bound: calls made in a behaviour
          MaxFaults,    \* bound: commands that fail and callers that die
          MaxInFlight   \* bound: calls that may overlap; 1 is sequential use

ASSUME LeaseAssumption ==
  /\ HolderOf \in [Caller -> Holder]
  /\ NoHolder \notin Holder
  /\ Ttl \in Nat \ {0}
  /\ MaxTime \in Nat
  /\ MaxCalls \in Nat
  /\ MaxFaults \in Nat
  /\ MaxInFlight \in Nat \ {0}

VARIABLES
  lock,       \* Redis blackbox:lease:<id>; epoch 0 when the key is absent
  epochKey,   \* Redis blackbox:lease_epoch:<id>; 0 when absent
  row,        \* MySQL execution_leases row; epoch 0 when there is none
  pc,         \* where each caller is in its call; "idle" between calls
  mine,       \* the epoch and expiresAt a running acquire or renew computed
  lease,      \* the Lease object a caller last got back; epoch 0 for none
  active,     \* what the caller's last getCurrentEpoch returned
  clock,      \* the time, in ticks
  calls,      \* calls made so far
  faults,     \* failed commands and deaths so far
  issuedTo,   \* history: the holder each epoch was allocated to
  written,    \* history: the greatest epoch a write was made with
  fooled      \* history: the fences that let a write older than that through

redis == <<lock, epochKey>>
store == <<lock, epochKey, row>>
hist  == <<issuedTo, written, fooled>>
world == <<clock, faults>>
vars  == <<lock, epochKey, row, pc, mine, lease, active, clock, calls,
           faults, issuedTo, written, fooled>>

NoLock  == [holder |-> NoHolder, epoch |-> 0, until |-> 0]
NoRow   == [holder |-> NoHolder, epoch |-> 0, status |-> "NONE"]
NoLease == [epoch |-> 0, expiresAt |-> 0]

Steps == {"incr", "set", "select", "update", "insert",
          "renewGet", "renewSet", "renewUpdate", "renewSelect",
          "releaseDel", "releaseUpdate", "epochRedis"}

\* The two fences, and the control states after they passed.
Fence == {"db", "local"}

Control == Steps \cup Fence \cup {"idle"}

LockType  == [holder : Holder \cup {NoHolder}, epoch : Nat, until : Nat]
RowType   == [holder : Holder \cup {NoHolder}, epoch : Nat,
              status : {"NONE", "ACTIVE", "RELEASED"}]
LeaseType == [epoch : Nat, expiresAt : Nat]

TypeOK ==
  /\ lock \in LockType
  /\ epochKey \in Nat
  /\ row \in RowType
  /\ pc \in [Caller -> Control]
  /\ mine \in [Caller -> LeaseType]
  /\ lease \in [Caller -> LeaseType]
  /\ active \in [Caller -> Nat]
  /\ clock \in Nat
  /\ calls \in Nat
  /\ faults \in Nat
  /\ issuedTo \in Seq(Holder)
  /\ written \in Nat
  /\ fooled \subseteq Fence

Init ==
  /\ lock = NoLock
  /\ epochKey = 0
  /\ row = NoRow
  /\ pc = [c \in Caller |-> "idle"]
  /\ mine = [c \in Caller |-> NoLease]
  /\ lease = [c \in Caller |-> NoLease]
  /\ active = [c \in Caller |-> 0]
  /\ clock = 0
  /\ calls = 0
  /\ faults = 0
  /\ issuedTo = << >>
  /\ written = 0
  /\ fooled = {}

-----------------------------------------------------------------------------
(* Calls and their steps.                                                  *)

InFlight == {c \in Caller : pc[c] # "idle"}

\* A caller begins a call.
Begin(c) ==
  /\ pc[c] = "idle"
  /\ calls < MaxCalls
  /\ Cardinality(InFlight) < MaxInFlight
  /\ calls' = calls + 1

Goto(c, step) == pc' = [pc EXCEPT ![c] = step]

\* The call ends, with a result or an exception; its locals are gone.
Done(c) == /\ pc' = [pc EXCEPT ![c] = "idle"]
           /\ mine' = [mine EXCEPT ![c] = NoLease]

LockIsFree     == lock.epoch = 0
LockIsMine(c)  == ~LockIsFree /\ lock.holder = HolderOf[c]
LockOfOther(c) == ~LockIsFree /\ lock.holder # HolderOf[c]

-----------------------------------------------------------------------------
(* acquire(resourceId, holderId, ttlMs)                                    *)

\* GET lockKey: refused, turned into a renewal, or free to take.
AcquireGet(c) ==
  /\ Begin(c)
  /\ \/ /\ LockOfOther(c)                  \* LEASE_HELD_BY_ANOTHER
        /\ UNCHANGED pc
     \/ /\ LockIsMine(c)
        /\ Goto(c, "renewGet")
     \/ /\ LockIsFree
        /\ Goto(c, "incr")
  /\ UNCHANGED <<store, mine, lease, active, world, hist>>

\* INCR epochKey, then the lease's expiresAt from the local clock.
AcquireIncr(c) ==
  /\ pc[c] = "incr"
  /\ epochKey' = epochKey + 1
  /\ issuedTo' = Append(issuedTo, HolderOf[c])
  /\ mine' = [mine EXCEPT ![c] = [epoch |-> epochKey + 1,
                                  expiresAt |-> clock + Ttl]]
  /\ Goto(c, "set")
  /\ UNCHANGED <<lock, row, lease, active, world, calls, written, fooled>>

\* SET lockKey PX ttl without NX: whatever lock is there is replaced.
PutLock(c) ==
  lock' = [holder |-> HolderOf[c], epoch |-> mine[c].epoch,
           until |-> clock + Ttl]

AcquireSet(c) ==
  /\ pc[c] = "set"
  /\ PutLock(c)
  /\ Goto(c, "select")
  /\ UNCHANGED <<epochKey, row, mine, lease, active, world, calls, hist>>

\* SELECT the row, to choose between UPDATE and INSERT.
AcquireSelect(c) ==
  /\ pc[c] = "select"
  /\ Goto(c, IF row = NoRow THEN "insert" ELSE "update")
  /\ UNCHANGED <<store, mine, lease, active, world, calls, hist>>

ActiveRow(c) == [holder |-> HolderOf[c], epoch |-> mine[c].epoch,
                 status |-> "ACTIVE"]

\* Mutant: the lease is returned with the epoch of the row that SELECT found.
AcquireUpdateReturnsOldEpoch(c) ==
  /\ pc[c] = "update"
  /\ row' = ActiveRow(c)
  /\ lease' = [lease EXCEPT ![c] = [mine[c] EXCEPT !.epoch = row.epoch]]
  /\ Done(c)
  /\ UNCHANGED <<redis, active, world, calls, hist>>

\* Mutant: the epoch is left out of the SET clause.
AcquireUpdateKeepsEpoch(c) ==
  /\ pc[c] = "update"
  /\ row' = [row EXCEPT !.holder = HolderOf[c], !.status = "ACTIVE"]
  /\ lease' = [lease EXCEPT ![c] = mine[c]]
  /\ Done(c)
  /\ UNCHANGED <<redis, active, world, calls, hist>>

\* UPDATE ... WHERE resource_id: holder and epoch are overwritten, whatever
\* they are; acquire returns the lease.
AcquireUpdate(c) ==
  /\ pc[c] = "update"
  /\ row' = ActiveRow(c)
  /\ lease' = [lease EXCEPT ![c] = mine[c]]
  /\ Done(c)
  /\ UNCHANGED <<redis, active, world, calls, hist>>

\* INSERT; resource_id is UNIQUE, so a row inserted meanwhile makes it throw
\* ER_DUP_ENTRY, with the Redis lock already set.
AcquireInsert(c) ==
  /\ pc[c] = "insert"
  /\ IF row = NoRow
     THEN /\ row' = ActiveRow(c)
          /\ lease' = [lease EXCEPT ![c] = mine[c]]
     ELSE UNCHANGED <<row, lease>>
  /\ Done(c)
  /\ UNCHANGED <<redis, active, world, calls, hist>>

-----------------------------------------------------------------------------
(* renew(resourceId, holderId, ttlMs), called or reached from acquire      *)

\* Mutant: renew only asks whether there is a lock.
RenewDecideAnyHolder(c) ==
  \/ /\ ~LockIsFree
     /\ mine' = [mine EXCEPT ![c] = [epoch |-> lock.epoch,
                                     expiresAt |-> clock + Ttl]]
     /\ Goto(c, "renewSet")
  \/ /\ LockIsFree
     /\ Done(c)

\* What follows GET lockKey: gone or another's, renew throws.
RenewDecide(c) ==
  \/ /\ LockIsMine(c)
     /\ mine' = [mine EXCEPT ![c] = [epoch |-> lock.epoch,
                                     expiresAt |-> clock + Ttl]]
     /\ Goto(c, "renewSet")
  \/ /\ ~LockIsMine(c)          \* LEASE_EXPIRED_OR_LOST, LEASE_HELD_BY_ANOTHER
     /\ Done(c)

RenewCall(c) ==
  /\ Begin(c)
  /\ RenewDecide(c)
  /\ UNCHANGED <<store, lease, active, world, hist>>

RenewGet(c) ==
  /\ pc[c] = "renewGet"
  /\ RenewDecide(c)
  /\ UNCHANGED <<store, lease, active, world, calls, hist>>

RenewSet(c) ==
  /\ pc[c] = "renewSet"
  /\ PutLock(c)
  /\ Goto(c, "renewUpdate")
  /\ UNCHANGED <<epochKey, row, mine, lease, active, world, calls, hist>>

\* UPDATE ... WHERE resource_id: only the status; no row, no effect.
SetStatus(s) == row' = IF row = NoRow THEN row ELSE [row EXCEPT !.status = s]

RenewUpdate(c) ==
  /\ pc[c] = "renewUpdate"
  /\ SetStatus("ACTIVE")
  /\ Goto(c, "renewSelect")
  /\ UNCHANGED <<redis, mine, lease, active, world, calls, hist>>

\* Mutant: `updated?.id', so that renew returns a lease without a row.
RenewSelectWithoutRow(c) ==
  /\ pc[c] = "renewSelect"
  /\ lease' = [lease EXCEPT ![c] = mine[c]]
  /\ Done(c)
  /\ UNCHANGED <<store, active, world, calls, hist>>

\* Mutant: renew waits for the row to appear.
RenewSelectWaits(c) ==
  /\ pc[c] = "renewSelect"
  /\ row # NoRow
  /\ lease' = [lease EXCEPT ![c] = mine[c]]
  /\ Done(c)
  /\ UNCHANGED <<store, active, world, calls, hist>>

\* SELECT the row back: renew dereferences it, so it throws when there is none.
RenewSelect(c) ==
  /\ pc[c] = "renewSelect"
  /\ lease' = IF row = NoRow THEN lease ELSE [lease EXCEPT ![c] = mine[c]]
  /\ Done(c)
  /\ UNCHANGED <<store, active, world, calls, hist>>

-----------------------------------------------------------------------------
(* release(resourceId, holderId)                                           *)

\* Mutant: release deletes the lock whoever holds it.
ReleaseGetAnyHolder(c) ==
  /\ Begin(c)
  /\ lease' = [lease EXCEPT ![c] = NoLease]
  /\ Goto(c, IF LockIsFree THEN "releaseUpdate" ELSE "releaseDel")
  /\ UNCHANGED <<store, mine, active, world, hist>>

\* The caller gives its lease up and GETs the lock.
ReleaseGet(c) ==
  /\ Begin(c)
  /\ lease' = [lease EXCEPT ![c] = NoLease]
  /\ Goto(c, IF LockIsMine(c) THEN "releaseDel" ELSE "releaseUpdate")
  /\ UNCHANGED <<store, mine, active, world, hist>>

\* DEL lockKey: the key goes, whoever holds it by now.
ReleaseDel(c) ==
  /\ pc[c] = "releaseDel"
  /\ lock' = NoLock
  /\ Goto(c, "releaseUpdate")
  /\ UNCHANGED <<epochKey, row, mine, lease, active, world, calls, hist>>

\* UPDATE status = RELEASED WHERE resource_id, even when the lock was not ours.
ReleaseUpdate(c) ==
  /\ pc[c] = "releaseUpdate"
  /\ SetStatus("RELEASED")
  /\ Done(c)
  /\ UNCHANGED <<redis, lease, active, world, calls, hist>>

-----------------------------------------------------------------------------
(* getCurrentEpoch(resourceId) and the fence                               *)

\* SELECT epoch: the row's, or a second query, to Redis, when there is no row.
CurrentEpochDb(c) ==
  /\ Begin(c)
  /\ IF row = NoRow
     THEN /\ Goto(c, "epochRedis")
          /\ UNCHANGED active
     ELSE /\ active' = [active EXCEPT ![c] = row.epoch]
          /\ UNCHANGED pc
  /\ UNCHANGED <<store, mine, lease, world, hist>>

\* GET epochKey.
CurrentEpochRedis(c) ==
  /\ pc[c] = "epochRedis"
  /\ active' = [active EXCEPT ![c] = epochKey]
  /\ Done(c)
  /\ UNCHANGED <<store, lease, world, calls, hist>>

\* EpochFenceGuard.assertValidEpoch: throws EpochFenceError when FALSE.
ValidEpoch(claimed, current) == claimed >= current

\* A caller checks its lease's epoch, and goes on to its write or gives up.
Check(c, fence, valid) ==
  /\ lease[c].epoch # 0
  /\ Begin(c)
  /\ IF valid THEN Goto(c, fence) ELSE UNCHANGED pc
  /\ UNCHANGED <<store, mine, lease, active, world, hist>>

\* assertValidEpochFromDb(resourceId, claimed): a resource without a row is
\* not fenced.
FenceDb(c) ==
  Check(c, "db", row = NoRow \/ ValidEpoch(lease[c].epoch, row.epoch))

\* assertValidEpoch(resourceId, claimed, active), with the epoch the caller
\* got from getCurrentEpoch, however long ago.
FenceLocal(c) ==
  /\ active[c] # 0
  /\ Check(c, "local", ValidEpoch(lease[c].epoch, active[c]))

\* The write a fence lets through, stamped with the lease's epoch.
FencedWrite(c) ==
  /\ pc[c] \in Fence
  /\ IF lease[c].epoch < written
     THEN /\ fooled' = fooled \cup {pc[c]}
          /\ UNCHANGED written
     ELSE /\ written' = lease[c].epoch
          /\ UNCHANGED fooled
  /\ Done(c)
  /\ UNCHANGED <<store, lease, active, world, calls, issuedTo>>

-----------------------------------------------------------------------------
(* The environment.                                                        *)

\* Mutant: the epoch counter expires together with the lock.
TickDropsEpoch ==
  /\ clock < MaxTime
  /\ clock' = clock + 1
  /\ lock' = IF lock.until <= clock + 1 THEN NoLock ELSE lock
  /\ epochKey' = IF lock.until <= clock + 1 THEN 0 ELSE epochKey
  /\ UNCHANGED <<row, pc, mine, lease, active, calls, faults, hist>>

\* Time passes; Redis drops the lock key when its PX runs out.
Tick ==
  /\ clock < MaxTime
  /\ clock' = clock + 1
  /\ lock' = IF lock.until <= clock + 1 THEN NoLock ELSE lock
  /\ UNCHANGED <<epochKey, row, pc, mine, lease, active, calls, faults, hist>>

\* The awaited command fails (a lost connection, a query error): nothing in
\* LeaseManager catches it, the call throws where it is.
Fail(c) ==
  /\ pc[c] # "idle"
  /\ faults < MaxFaults
  /\ faults' = faults + 1
  /\ Done(c)
  /\ UNCHANGED <<store, lease, active, clock, calls, hist>>

\* The process dies and comes back without its call, its lease or its copies.
Crash(c) ==
  /\ faults < MaxFaults
  /\ faults' = faults + 1
  /\ Done(c)
  /\ lease' = [lease EXCEPT ![c] = NoLease]
  /\ active' = [active EXCEPT ![c] = 0]
  /\ UNCHANGED <<store, clock, calls, hist>>

\* The steps that carry on a call already begun.
Step(c) ==
  \/ AcquireIncr(c) \/ AcquireSet(c) \/ AcquireSelect(c)
  \/ AcquireUpdate(c) \/ AcquireInsert(c)
  \/ RenewGet(c) \/ RenewSet(c) \/ RenewUpdate(c) \/ RenewSelect(c)
  \/ ReleaseDel(c) \/ ReleaseUpdate(c)
  \/ CurrentEpochRedis(c) \/ FencedWrite(c)

Call(c) ==
  \/ AcquireGet(c) \/ RenewCall(c) \/ ReleaseGet(c)
  \/ CurrentEpochDb(c) \/ FenceDb(c) \/ FenceLocal(c)

Next ==
  \/ \E c \in Caller : Call(c) \/ Step(c) \/ Fail(c) \/ Crash(c)
  \/ Tick

\* A started call runs on; nothing obliges anybody to start one.
Fairness == \A c \in Caller : WF_vars(Step(c))

Spec == Init /\ [][Next]_vars /\ Fairness

-----------------------------------------------------------------------------
(* Properties.                                                             *)

\* Epoch e was allocated to holder h.
Owns(h, e) == e \in DOMAIN issuedTo /\ issuedTo[e] = h

\* Every epoch found anywhere (in the lock, the row, a lease in use, a call
\* on its way) was allocated by INCR, and to the holder it is found with:
\* no interleaving of acquire, renew, release and crashes gives one epoch to
\* two holders.
EpochIntegrity ==
  /\ epochKey = Len(issuedTo)
  /\ lock.epoch # 0 => Owns(lock.holder, lock.epoch)
  /\ row.epoch # 0 => Owns(row.holder, row.epoch)
  /\ \A c \in Caller :
       /\ mine[c].epoch # 0 => Owns(HolderOf[c], mine[c].epoch)
       /\ lease[c].epoch # 0 => Owns(HolderOf[c], lease[c].epoch)

\* A lease was only ever returned with the row in place, and rows stay: the
\* "no row, no fence" exit of assertValidEpochFromDb and the Redis fallback of
\* getCurrentEpoch are out of reach of a caller that has a lease.
LeaseHasRow ==
  \A c \in Caller : lease[c].epoch # 0 => row.epoch # 0

\* The caller with the newest epoch passes either fence, whatever row or
\* whatever old answer of getCurrentEpoch it is compared with.
FenceSparesNewest ==
  \A c \in Caller :
    lease[c].epoch = epochKey => /\ lease[c].epoch >= row.epoch
                                 /\ lease[c].epoch >= active[c]

\* Two callers of different holders never both have a lease that has not
\* reached its expiresAt (blackbox-x.md M8, "Distributed Lease Mutual
\* Exclusion").
MutualExclusion ==
  \A c, d \in Caller :
    /\ lease[c].expiresAt > clock
    /\ lease[d].expiresAt > clock
    => HolderOf[c] = HolderOf[d]

\* The epoch persisted in MySQL never goes back (m12-signoff-report.md 3.2,
\* "Monotonic epochs are persisted").
RowEpochNeverGoesBack == [][row'.epoch >= row.epoch]_row

\* Once a write stamped with an epoch is made, the check against MySQL lets no
\* older one through (blackbox-x.md M8, "strictly intercepts and rejects
\* stale/zombie worker writes").
DbFenceBlocksStale == "db" \notin fooled

\* The part of it that holds when calls do not overlap: it takes a failure to
\* let an older epoch through.
FaultlessFence == faults = 0 => DbFenceBlocksStale

HasOwnId(c) == \A d \in Caller \ {c} : HolderOf[d] # HolderOf[c]

\* A caller whose holder id nobody shares and that is given a lease again never
\* gets an older epoch than the one it already has.
LeaseEpochNeverGoesBack ==
  [][\A c \in Caller :
       HasOwnId(c) /\ lease'[c].epoch # 0 => lease'[c].epoch >= lease[c].epoch]_lease

\* Every call ends, with a result, an exception or the caller's death.
CallsEnd == \A c \in Caller : pc[c] # "idle" ~> pc[c] = "idle"

\* The epochs of the lease manager are those of the abstract authority.
Authority == INSTANCE EpochAuthority WITH
  issued <- issuedTo,
  token  <- [c \in Caller |-> lease[c].epoch]

ImplementsAuthority == Authority!ASpec
-----------------------------------------------------------------------------
(* The inductive invariant behind EpochIntegrity, LeaseHasRow and          *)
(* FenceSparesNewest.                                                      *)

\* The steps at which acquire or renew knows its epoch.
EpochKnown == {"set", "select", "update", "insert",
               "renewSet", "renewUpdate", "renewSelect"}

EpochInv ==
  /\ TypeOK
  /\ EpochIntegrity
  /\ LeaseHasRow
  /\ row.epoch = 0 => row = NoRow
  /\ \A c \in Caller : /\ pc[c] \in EpochKnown => mine[c].epoch # 0
                       /\ pc[c] = "update" => row.epoch # 0
                       /\ active[c] <= epochKey

(* The one behind MutualExclusion, when calls do not overlap and no two    *)
(* callers share a holder id: a lease that has not run out has its lock,   *)
(* and nobody is about to touch the lock of another.                       *)

LockSteps == {"incr", "set", "select", "update", "insert",
              "renewGet", "renewSet", "renewUpdate", "renewSelect",
              "releaseDel"}

LeaseBacked(l, c) ==
  l.expiresAt > clock => LockIsMine(c) /\ lock.until >= l.expiresAt

MutexInv ==
  /\ TypeOK
  /\ \A c, d \in Caller : pc[c] # "idle" /\ pc[d] # "idle" => c = d
  /\ \A c \in Caller :
       /\ LeaseBacked(lease[c], c)
       /\ pc[c] \in {"select", "update", "insert", "renewUpdate", "renewSelect"}
            => LeaseBacked(mine[c], c)
       /\ pc[c] \in LockSteps => ~LockOfOther(c)
       /\ mine[c].expiresAt <= clock + Ttl
       /\ lease[c].expiresAt <= clock + Ttl
       /\ pc[c] \in EpochKnown => mine[c].epoch # 0
       /\ pc[c] = "releaseDel" => lease[c] = NoLease

(* The one behind LeaseEpochNeverGoesBack: a caller whose holder id nobody *)
(* shares finds no epoch older than its lease's in its own lock, so neither *)
(* INCR nor a renewal gives it one.                                        *)

OwnEpochs(c) ==
  /\ pc[c] \in EpochKnown => lease[c].epoch <= mine[c].epoch
  /\ LockIsMine(c) =>
       /\ lease[c].epoch <= lock.epoch
       /\ pc[c] \in {"select", "update", "insert", "renewUpdate", "renewSelect"}
            => lock.epoch = mine[c].epoch

AgeInv == EpochInv /\ \A c \in Caller : HasOwnId(c) => OwnEpochs(c)

(* The one behind RowEpochNeverGoesBack and FaultlessFence, when calls do  *)
(* not overlap: while nothing fails, the row has the newest epoch but for  *)
(* the one an acquire is on its way to write.                              *)

RowBehind == {"select", "update", "insert"}

NothingFailed ==
  /\ written <= row.epoch
  /\ "db" \notin fooled
  /\ \/ lock.epoch <= row.epoch
     \/ \E c \in Caller : pc[c] \in RowBehind /\ lock.epoch <= mine[c].epoch
  /\ \A c \in Caller :
       /\ lease[c].epoch <= row.epoch
       /\ pc[c] \in {"renewSet", "renewUpdate", "renewSelect"}
            => mine[c].epoch <= row.epoch
       /\ pc[c] = "db" => row.epoch <= lease[c].epoch

FenceInv ==
  /\ EpochInv
  /\ \A c, d \in Caller : pc[c] # "idle" /\ pc[d] # "idle" => c = d
  /\ \A c \in Caller :
       /\ pc[c] \in RowBehind \cup {"set"} => row.epoch <= mine[c].epoch
       /\ pc[c] = "insert" => row = NoRow
  /\ faults = 0 => NothingFailed
=============================================================================
