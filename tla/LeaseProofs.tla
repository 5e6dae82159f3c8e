---------------------------- MODULE LeaseProofs ----------------------------
(***************************************************************************)
(* Theorems about the lease manager, for every set of callers and holders, *)
(* every ttl and every value of the bounds.                                *)
(***************************************************************************)
EXTENDS Lease, FiniteSetTheorems, TLAPS

-----------------------------------------------------------------------------
(* Type correctness.                                                       *)

\* The null lock, row and lease are of their types.
LEMMA NullTypes ==
  NoLock \in LockType /\ NoRow \in RowType /\ NoLease \in LeaseType
  BY DEF NoLock, NoRow, NoLease, LockType, RowType, LeaseType

\* The control states, listed.
LEMMA ControlSteps ==
  ASSUME NEW s \in Steps \cup Fence \cup {"idle"}
  PROVE  s \in Control
  BY DEF Control

\* The numbers inside the records are natural numbers.
LEMMA FieldTypes ==
  ASSUME TypeOK, NEW c \in Caller
  PROVE  /\ lock.epoch \in Nat /\ lock.until \in Nat
         /\ row.epoch \in Nat
         /\ mine[c].epoch \in Nat /\ mine[c].expiresAt \in Nat
         /\ lease[c].epoch \in Nat /\ lease[c].expiresAt \in Nat
         /\ clock + Ttl \in Nat
         /\ HolderOf[c] \in Holder
  BY LeaseAssumption DEF TypeOK, LockType, RowType, LeaseType

\* A lease put together from two numbers is of its type.
LEMMA LeaseRecord ==
  ASSUME NEW e \in Nat, NEW t \in Nat
  PROVE  [epoch |-> e, expiresAt |-> t] \in LeaseType
  BY DEF LeaseType

\* Moving a caller to a control state keeps pc well typed.
LEMMA GotoType ==
  ASSUME TypeOK, NEW c \in Caller, NEW s \in Control, Goto(c, s)
  PROVE  pc' \in [Caller -> Control]
  BY DEF TypeOK, Goto

\* Ending a call keeps pc and the locals well typed.
LEMMA DoneType ==
  ASSUME TypeOK, NEW c \in Caller, Done(c)
  PROVE  pc' \in [Caller -> Control] /\ mine' \in [Caller -> LeaseType]
  BY NullTypes DEF TypeOK, Done, Control

\* What renew decides keeps pc and the locals well typed.
LEMMA RenewDecideType ==
  ASSUME TypeOK, NEW c \in Caller, RenewDecide(c)
  PROVE  pc' \in [Caller -> Control] /\ mine' \in [Caller -> LeaseType]
<1>1. [epoch |-> lock.epoch, expiresAt |-> clock + Ttl] \in LeaseType
  BY FieldTypes, LeaseRecord
<1>2. "renewSet" \in Control
  BY ControlSteps DEF Steps
<1>3. QED
  BY <1>1, <1>2, DoneType, GotoType DEF RenewDecide, TypeOK

\* SET writes a well-typed lock.
LEMMA PutLockType ==
  ASSUME TypeOK, NEW c \in Caller, PutLock(c)
  PROVE  lock' \in LockType
  BY LeaseAssumption DEF TypeOK, LockType, LeaseType, PutLock

\* What the UPDATEs and the INSERT write is a well-typed row.
LEMMA RowTypes ==
  ASSUME TypeOK, NEW c \in Caller
  PROVE  /\ ActiveRow(c) \in RowType
         /\ \A s \in {"ACTIVE", "RELEASED"} : SetStatus(s) => row' \in RowType
  BY LeaseAssumption DEF TypeOK, RowType, LeaseType, ActiveRow, SetStatus

\* Every first command of a call preserves the types.
LEMMA CallType ==
  ASSUME TypeOK, NEW c \in Caller, Call(c)
  PROVE  TypeOK'
<1> USE DEF TypeOK, Begin, store, hist, world
<1>1. CASE AcquireGet(c)
  BY <1>1, GotoType, ControlSteps DEF AcquireGet, Steps
<1>2. CASE RenewCall(c)
  BY <1>2, RenewDecideType DEF RenewCall
<1>3. CASE ReleaseGet(c)
  BY <1>3, NullTypes, GotoType, ControlSteps DEF ReleaseGet, Steps
<1>4. CASE CurrentEpochDb(c)
  <2>1. row.epoch \in Nat /\ "epochRedis" \in Control
    BY FieldTypes, ControlSteps DEF Steps
  <2>2. pc' \in [Caller -> Control] /\ active' \in [Caller -> Nat]
    BY <1>4, <2>1 DEF CurrentEpochDb, Goto
  <2>3. QED
    BY <1>4, <2>2 DEF CurrentEpochDb
<1>5. ASSUME NEW f \in Fence, NEW ok, Check(c, f, ok) PROVE TypeOK'
  BY <1>5, GotoType, ControlSteps DEF Check
<1>6. CASE FenceDb(c) \/ FenceLocal(c)
  BY <1>5, <1>6 DEF FenceDb, FenceLocal, Fence
<1>7. QED
  BY <1>1, <1>2, <1>3, <1>4, <1>6 DEF Call

\* Every later command of a call preserves the types.
LEMMA StepType ==
  ASSUME TypeOK, NEW c \in Caller, Step(c)
  PROVE  TypeOK'
<1> USE DEF TypeOK, redis, store, hist, world
<1>1. CASE AcquireIncr(c)
  <2>1. [epoch |-> epochKey + 1, expiresAt |-> clock + Ttl] \in LeaseType
    BY FieldTypes, LeaseRecord
  <2>2. Append(issuedTo, HolderOf[c]) \in Seq(Holder)
    BY FieldTypes
  <2>3. QED
    BY <1>1, <2>1, <2>2, GotoType, ControlSteps DEF AcquireIncr, Steps
<1>2. CASE AcquireSet(c) \/ RenewSet(c)
  BY <1>2, PutLockType, GotoType, ControlSteps DEF AcquireSet, RenewSet, Steps
<1>3. CASE AcquireSelect(c)
  BY <1>3, GotoType, ControlSteps DEF AcquireSelect, Steps
<1>4. CASE AcquireUpdate(c) \/ AcquireInsert(c)
  BY <1>4, RowTypes, DoneType DEF AcquireUpdate, AcquireInsert
<1>5. CASE RenewGet(c)
  BY <1>5, RenewDecideType DEF RenewGet
<1>6. CASE RenewUpdate(c)
  BY <1>6, RowTypes, GotoType, ControlSteps DEF RenewUpdate, Steps
<1>7. CASE ReleaseUpdate(c)
  BY <1>7, RowTypes, DoneType DEF ReleaseUpdate
<1>8. CASE RenewSelect(c)
  BY <1>8, DoneType DEF RenewSelect
<1>9. CASE ReleaseDel(c)
  BY <1>9, NullTypes, GotoType, ControlSteps DEF ReleaseDel, Steps
<1>10. CASE CurrentEpochRedis(c)
  BY <1>10, DoneType DEF CurrentEpochRedis
<1>11. CASE FencedWrite(c)
  BY <1>11, DoneType, FieldTypes DEF FencedWrite
<1>12. QED
  BY <1>1, <1>2, <1>3, <1>4, <1>5, <1>6, <1>7, <1>8, <1>9, <1>10, <1>11
     DEF Step

\* A failed command or a death preserves the types.
LEMMA FaultType ==
  ASSUME TypeOK, NEW c \in Caller, Fail(c) \/ Crash(c)
  PROVE  TypeOK'
<1>1. CASE Fail(c)
  BY <1>1, DoneType DEF Fail, TypeOK, store, hist
<1>2. CASE Crash(c)
  BY <1>2, NullTypes, DoneType DEF Crash, TypeOK, store, hist
<1>3. QED
  BY <1>1, <1>2

\* The clock preserves the types.
LEMMA TickType == TypeOK /\ Tick => TypeOK'
  BY NullTypes DEF Tick, TypeOK, hist

\* Every step preserves the types.
LEMMA NextType == TypeOK /\ [Next]_vars => TypeOK'
<1>1. CASE UNCHANGED vars
  BY <1>1 DEF vars, TypeOK
<1>2. QED
  BY <1>1, CallType, StepType, FaultType, TickType DEF Next

(* Every variable keeps to its type along every behaviour: in particular a *)
(* lock, a row and a lease are whole, and a call is at one of its steps.   *)
THEOREM TypeCorrect == Spec => []TypeOK
<1>1. Init => TypeOK
  BY NullTypes, LeaseAssumption DEF Init, TypeOK, Control
<1>2. QED
  BY <1>1, NextType, PTL DEF Spec

-----------------------------------------------------------------------------
(* Epochs.  EpochInv is inductive; the three invariants of the runs are    *)
(* consequences.                                                           *)

\* Ownership of an epoch depends on issuedTo alone.
LEMMA OwnsKept ==
  ASSUME UNCHANGED issuedTo, NEW h, NEW e
  PROVE  Owns(h, e)' <=> Owns(h, e)
  BY DEF Owns

\* INCR allocates a fresh epoch and takes none away.
LEMMA OwnsGrows ==
  ASSUME TypeOK, NEW g \in Holder, issuedTo' = Append(issuedTo, g)
  PROVE  /\ \A h, e : Owns(h, e) => Owns(h, e)'
         /\ \A e : e = Len(issuedTo) + 1 => Owns(g, e)'
         /\ Len(issuedTo') = Len(issuedTo) + 1
<1> DEFINE n == Len(issuedTo)
<1>1. /\ issuedTo \in Seq(Holder) /\ n \in Nat
      /\ DOMAIN issuedTo = 1..n
  BY DEF TypeOK
<1>2. /\ Len(issuedTo') = n + 1
      /\ DOMAIN issuedTo' = 1..(n + 1)
      /\ \A i \in 1..n : issuedTo'[i] = issuedTo[i]
      /\ issuedTo'[n + 1] = g
  BY <1>1
<1>3. ASSUME NEW h, NEW e, Owns(h, e) PROVE Owns(h, e)'
  <2>1. e \in 1..n /\ issuedTo[e] = h
    BY <1>1, <1>3 DEF Owns
  <2>2. QED
    BY <1>1, <1>2, <2>1 DEF Owns
<1>4. ASSUME NEW e, e = n + 1 PROVE Owns(g, e)'
  BY <1>1, <1>2, <1>4 DEF Owns
<1>5. QED
  BY <1>2, <1>3, <1>4

\* No epoch found anywhere is above the Redis counter.
LEMMA EpochAtMost ==
  ASSUME EpochInv
  PROVE  /\ row.epoch <= epochKey
         /\ \A c \in Caller : lease[c].epoch <= epochKey
<1>1. issuedTo \in Seq(Holder) /\ epochKey = Len(issuedTo) /\ epochKey \in Nat
  BY DEF EpochInv, TypeOK, EpochIntegrity
<1>2. \A h, e : Owns(h, e) => e <= epochKey
  BY <1>1 DEF Owns
<1>3. row.epoch = 0 \/ Owns(row.holder, row.epoch)
  BY DEF EpochInv, EpochIntegrity
<1>4. \A c \in Caller : lease[c].epoch = 0 \/ Owns(HolderOf[c], lease[c].epoch)
  BY DEF EpochInv, EpochIntegrity
<1>5. QED
  BY <1>1, <1>2, <1>3, <1>4

\* The calls that are idle after Done know no epoch.
LEMMA DoneShape ==
  ASSUME TypeOK, NEW c \in Caller, Done(c)
  PROVE  /\ mine'[c].epoch = 0
         /\ pc'[c] = "idle"
         /\ \A d \in Caller : d # c => mine'[d] = mine[d] /\ pc'[d] = pc[d]
  BY DEF TypeOK, Done, NoLease

\* RenewDecide leaves with the epoch of a lock that is its own, or not at all.
LEMMA RenewShape ==
  ASSUME TypeOK, NEW c \in Caller, RenewDecide(c)
  PROVE  /\ \/ /\ pc'[c] = "renewSet" /\ LockIsMine(c)
               /\ mine'[c].epoch = lock.epoch /\ lock.epoch # 0
            \/ pc'[c] = "idle" /\ mine'[c].epoch = 0
         /\ \A d \in Caller : d # c => mine'[d] = mine[d] /\ pc'[d] = pc[d]
<1>1. CASE LockIsMine(c)
  BY <1>1 DEF RenewDecide, Goto, TypeOK, LockIsMine, LockIsFree
<1>2. CASE ~LockIsMine(c)
  BY <1>2, DoneShape DEF RenewDecide
<1>3. QED
  BY <1>1, <1>2

\* The first commands of calls preserve the epoch invariant.
LEMMA EpochCall ==
  ASSUME EpochInv, NEW c \in Caller, Call(c)
  PROVE  EpochInv'
<1>1. TypeOK /\ TypeOK'
  BY CallType DEF EpochInv
<1>2. UNCHANGED <<epochKey, row, lock, issuedTo>>
  BY DEF Call, AcquireGet, RenewCall, ReleaseGet, CurrentEpochDb, FenceDb,
         FenceLocal, Check, store, hist
<1>3. \A d \in Caller : lease'[d] = lease[d] \/ lease'[d].epoch = 0
  BY <1>1 DEF Call, AcquireGet, RenewCall, ReleaseGet, CurrentEpochDb, FenceDb,
         FenceLocal, Check, NoLease, TypeOK
<1>4. \A d \in Caller : mine'[d] # mine[d] =>
        \/ mine'[d].epoch = 0
        \/ mine'[d].epoch = lock.epoch /\ LockIsMine(d)
  BY <1>1 DEF Call, AcquireGet, RenewCall, ReleaseGet, CurrentEpochDb, FenceDb,
         FenceLocal, Check, NoLease, TypeOK, RenewDecide, Done
<1>5. \A d \in Caller :
        /\ pc'[d] \in EpochKnown => mine'[d].epoch # 0
        /\ pc'[d] = "update" => row'.epoch # 0
  <2>1. CASE RenewCall(c)
    BY <1>1, <1>2, <2>1, RenewShape DEF RenewCall, EpochInv, EpochKnown
  <2>2. CASE ~RenewCall(c)
    <3>1. /\ \A d \in Caller : d # c => pc'[d] = pc[d]
          /\ pc'[c] \in {"idle", "renewGet", "incr", "releaseDel",
                        "releaseUpdate", "epochRedis", "db", "local"}
          /\ mine' = mine
      BY <1>1, <2>2 DEF Call, AcquireGet, ReleaseGet, CurrentEpochDb,
         FenceDb, FenceLocal, Check, Begin, Goto, TypeOK
    <3>2. QED
      BY <1>2, <3>1 DEF EpochInv, EpochKnown
  <2>3. QED
    BY <2>1, <2>2
<1>6. \A d \in Caller : active'[d] <= epochKey'
  BY <1>1, <1>2, EpochAtMost DEF Call, AcquireGet, RenewCall, ReleaseGet,
     CurrentEpochDb, FenceDb, FenceLocal, Check, EpochInv, TypeOK
<1>7. EpochIntegrity'
  BY <1>2, <1>3, <1>4, OwnsKept DEF EpochInv, EpochIntegrity, LockIsMine,
     LockIsFree
<1>8. LeaseHasRow' /\ (row'.epoch = 0 => row' = NoRow)
  BY <1>2, <1>3 DEF EpochInv, LeaseHasRow
<1>9. QED
  BY <1>1, <1>5, <1>6, <1>7, <1>8 DEF EpochInv

\* INCR preserves the epoch invariant.
LEMMA EpochIncr ==
  ASSUME EpochInv, NEW c \in Caller, AcquireIncr(c)
  PROVE  EpochInv'
<1>1. TypeOK /\ TypeOK'
  BY StepType DEF EpochInv, Step
<1>2. /\ UNCHANGED <<lock, row, lease, active>>
      /\ epochKey' = epochKey + 1
      /\ issuedTo' = Append(issuedTo, HolderOf[c])
      /\ mine'[c].epoch = epochKey + 1 /\ pc'[c] = "set"
      /\ \A d \in Caller : d # c => mine'[d] = mine[d] /\ pc'[d] = pc[d]
  BY <1>1 DEF AcquireIncr, Goto, TypeOK
<1>3. /\ \A h, e : Owns(h, e) => Owns(h, e)'
      /\ \A e : e = Len(issuedTo) + 1 => Owns(HolderOf[c], e)'
      /\ Len(issuedTo') = Len(issuedTo) + 1
  BY <1>1, <1>2, OwnsGrows, FieldTypes
<1>4. epochKey \in Nat /\ \A d \in Caller : active[d] \in Nat
  BY <1>1 DEF TypeOK
<1>5. EpochIntegrity'
  BY <1>2, <1>3, <1>4 DEF EpochInv, EpochIntegrity
<1>6. QED
  BY <1>1, <1>2, <1>4, <1>5 DEF EpochInv, LeaseHasRow, EpochKnown

\* The commands other than INCR preserve the epoch invariant.
LEMMA EpochStep ==
  ASSUME EpochInv, NEW c \in Caller, Step(c)
  PROVE  EpochInv'
<1>1. TypeOK /\ TypeOK'
  BY StepType DEF EpochInv
<1>2. CASE AcquireIncr(c)
  BY <1>2, EpochIncr
<1>3. CASE ~AcquireIncr(c)
  <2>1. UNCHANGED <<epochKey, issuedTo>>
    BY <1>3 DEF Step, AcquireSet, AcquireSelect, AcquireUpdate, AcquireInsert,
       RenewGet, RenewSet, RenewUpdate, RenewSelect, ReleaseDel, ReleaseUpdate,
       CurrentEpochRedis, FencedWrite, redis, store, hist
  <2>2. \/ UNCHANGED lock
        \/ lock'.holder = HolderOf[c] /\ lock'.epoch = mine[c].epoch
        \/ lock'.epoch = 0
    BY <1>3 DEF Step, AcquireSet, AcquireSelect, AcquireUpdate, AcquireInsert,
       RenewGet, RenewSet, RenewUpdate, RenewSelect, ReleaseDel, ReleaseUpdate,
       CurrentEpochRedis, FencedWrite, redis, store, PutLock, NoLock
  <2>3. \/ UNCHANGED row
        \/ /\ row'.holder = row.holder /\ row'.epoch = row.epoch
           /\ row # NoRow
        \/ /\ row'.holder = HolderOf[c] /\ row'.epoch = mine[c].epoch
           /\ pc[c] \in {"update", "insert"}
    BY <1>1, <1>3 DEF Step, AcquireSet, AcquireSelect, AcquireUpdate,
       AcquireInsert, RenewGet, RenewSet, RenewUpdate, RenewSelect, ReleaseDel,
       ReleaseUpdate, CurrentEpochRedis, FencedWrite, store, SetStatus,
       ActiveRow, TypeOK, RowType
  <2>4. row'.epoch = 0 => row' = NoRow /\ row = NoRow
    BY <2>3 DEF EpochInv, EpochKnown
  <2>5. \/ UNCHANGED lease
        \/ /\ lease' = [lease EXCEPT ![c] = mine[c]]
           /\ row'.epoch # 0
    BY <1>1, <1>3, <2>4 DEF Step, AcquireSet, AcquireSelect, AcquireUpdate,
       AcquireInsert, RenewGet, RenewSet, RenewUpdate, RenewSelect, ReleaseDel,
       ReleaseUpdate, CurrentEpochRedis, FencedWrite, EpochInv, EpochKnown,
       ActiveRow, store
  <2>6. \/ UNCHANGED mine /\ \E s \in {"select", "update", "insert",
                                      "renewUpdate", "renewSelect",
                                      "releaseUpdate"} :
             /\ Goto(c, s)
             /\ s \in EpochKnown => pc[c] \in EpochKnown
             /\ s = "update" => row # NoRow /\ UNCHANGED row
        \/ Done(c)
        \/ RenewDecide(c)
    BY <1>3 DEF Step, AcquireSet, AcquireSelect, AcquireUpdate, AcquireInsert,
       RenewGet, RenewSet, RenewUpdate, RenewSelect, ReleaseDel, ReleaseUpdate,
       CurrentEpochRedis, FencedWrite, EpochKnown, store
  <2>7. \A d \in Caller :
          /\ pc'[d] \in EpochKnown => mine'[d].epoch # 0
          /\ pc'[d] = "update" => row'.epoch # 0
    <3>1. row.epoch # 0 => row'.epoch # 0
      BY <2>3, <2>4 DEF EpochInv, EpochKnown
    <3>2. CASE Done(c)
      BY <1>1, <3>1, <3>2, DoneShape DEF EpochInv, EpochKnown
    <3>3. CASE RenewDecide(c)
      BY <1>1, <3>1, <3>3, RenewShape DEF EpochInv, EpochKnown
    <3>4. CASE ~Done(c) /\ ~RenewDecide(c)
      <4>1. PICK s : /\ UNCHANGED mine
                     /\ Goto(c, s)
                     /\ s \in EpochKnown => pc[c] \in EpochKnown
                     /\ s = "update" => row # NoRow /\ UNCHANGED row
        BY <2>6, <3>4
      <4>2. pc'[c] = s /\ \A d \in Caller : d # c => pc'[d] = pc[d]
        BY <1>1, <4>1 DEF Goto, TypeOK
      <4>3. QED
        BY <3>1, <4>1, <4>2 DEF EpochInv
    <3>5. QED
      BY <3>2, <3>3, <3>4
  <2>8. \A d \in Caller : active'[d] = active[d] \/ active'[d] = epochKey
    BY <1>1, <1>3 DEF Step, AcquireSet, AcquireSelect, AcquireUpdate,
       AcquireInsert, RenewGet, RenewSet, RenewUpdate, RenewSelect, ReleaseDel,
       ReleaseUpdate, CurrentEpochRedis, FencedWrite, TypeOK
  <2>9. EpochIntegrity'
    <3>1. \A d \in Caller :
            mine'[d].epoch # 0 => Owns(HolderOf[d], mine'[d].epoch)
      BY <1>1, <2>6, DoneShape, RenewShape
         DEF EpochInv, EpochIntegrity, LockIsMine
    <3>2. \A d \in Caller :
            lease'[d].epoch # 0 => Owns(HolderOf[d], lease'[d].epoch)
      BY <1>1, <2>5 DEF EpochInv, EpochIntegrity, TypeOK
    <3>3. /\ lock'.epoch # 0 => Owns(lock'.holder, lock'.epoch)
          /\ row'.epoch # 0 => Owns(row'.holder, row'.epoch)
      BY <2>2, <2>3 DEF EpochInv, EpochIntegrity
    <3>4. epochKey' = Len(issuedTo')
      BY <2>1 DEF EpochInv, EpochIntegrity
    <3>5. QED
      BY <2>1, <3>1, <3>2, <3>3, <3>4, OwnsKept DEF EpochIntegrity
  <2>10. QED
    <3>1. LeaseHasRow'
      <4>1. CASE UNCHANGED lease
        <5>1. row.epoch # 0 => row'.epoch # 0
          BY <2>4 DEF NoRow
        <5>2. QED
          BY <4>1, <5>1 DEF EpochInv, LeaseHasRow
      <4>2. CASE row'.epoch # 0
        BY <4>2 DEF LeaseHasRow
      <4>3. QED
        BY <2>5, <4>1, <4>2
    <3>2. \A d \in Caller : active'[d] <= epochKey'
      <4>1. epochKey \in Nat /\ \A d \in Caller : active[d] <= epochKey
        BY DEF EpochInv, TypeOK
      <4>2. QED
        BY <2>1, <2>8, <4>1
    <3>3. QED
      BY <1>1, <2>4, <2>7, <2>9, <3>1, <3>2 DEF EpochInv
<1>4. QED
  BY <1>2, <1>3

\* A failed command or a death preserves the epoch invariant.
LEMMA EpochFault ==
  ASSUME EpochInv, NEW c \in Caller, Fail(c) \/ Crash(c)
  PROVE  EpochInv'
<1>1. TypeOK /\ TypeOK'
  BY FaultType DEF EpochInv
<1>2. /\ UNCHANGED <<lock, row, epochKey, issuedTo>>
      /\ \A d \in Caller : lease'[d] = lease[d] \/ lease'[d].epoch = 0
      /\ \A d \in Caller : active'[d] = active[d] \/ active'[d] = 0
  BY <1>1 DEF Fail, Crash, store, hist, TypeOK, NoLease
<1>3. Done(c)
  BY DEF Fail, Crash
<1>4. EpochIntegrity'
  BY <1>1, <1>2, <1>3, DoneShape, OwnsKept DEF EpochInv, EpochIntegrity
<1>5. LeaseHasRow' /\ (row'.epoch = 0 => row' = NoRow)
  BY <1>2 DEF EpochInv, LeaseHasRow
<1>6. \A d \in Caller : /\ pc'[d] \in EpochKnown => mine'[d].epoch # 0
                        /\ pc'[d] = "update" => row'.epoch # 0
  BY <1>1, <1>2, <1>3, DoneShape DEF EpochInv, EpochKnown
<1>7. \A d \in Caller : active'[d] <= epochKey'
  <2>1. epochKey \in Nat /\ \A d \in Caller : active[d] <= epochKey
    BY DEF EpochInv, TypeOK
  <2>2. QED
    BY <1>2, <2>1
<1>8. QED
  BY <1>1, <1>4, <1>5, <1>6, <1>7 DEF EpochInv

\* The clock, and a lock that expires, preserve the epoch invariant.
LEMMA EpochTick == ASSUME EpochInv, Tick PROVE EpochInv'
<1>1. TypeOK'
  BY TickType DEF EpochInv
<1>2. /\ UNCHANGED <<row, epochKey, issuedTo, mine, lease, active, pc>>
      /\ UNCHANGED lock \/ lock'.epoch = 0
  BY DEF Tick, hist, NoLock
<1>3. QED
  BY <1>1, <1>2, OwnsKept DEF EpochInv, EpochIntegrity, LeaseHasRow

\* The epoch invariant is inductive.
LEMMA EpochInductive == EpochInv /\ [Next]_vars => EpochInv'
<1>1. ASSUME EpochInv, UNCHANGED vars PROVE EpochInv'
  BY <1>1, NextType, OwnsKept
     DEF vars, EpochInv, EpochIntegrity, LeaseHasRow
<1>2. QED
  BY <1>1, EpochCall, EpochStep, EpochFault, EpochTick DEF Next

\* It holds before anything happened.
LEMMA InitEpochs == Init => EpochInv
<1> SUFFICES ASSUME Init PROVE EpochInv
  OBVIOUS
<1>1. TypeOK
  BY NullTypes, LeaseAssumption DEF Init, TypeOK, Control
<1>2. QED
  BY <1>1 DEF Init, EpochInv, EpochIntegrity, LeaseHasRow, NoLock, NoRow,
     NoLease, EpochKnown

\* The epoch invariant holds in every reachable state.
THEOREM EpochInvariance == Spec => []EpochInv
  BY InitEpochs, EpochInductive, PTL DEF Spec

(* No epoch is ever found with two holders: whatever the interleaving of   *)
(* acquire, renew, release, expiry and crashes, the lock, the row, every   *)
(* lease and every call on its way carry an epoch INCR gave to their own   *)
(* holder.                                                                 *)
THEOREM EpochsBelongToOneHolder == Spec => []EpochIntegrity
<1>1. EpochInv => EpochIntegrity
  BY DEF EpochInv
<1>2. QED
  BY <1>1, EpochInvariance, PTL

(* A caller that holds a lease is always compared with a row: the fence's  *)
(* exit for resources without one is out of its reach.                     *)
THEOREM LeasesHaveARow == Spec => []LeaseHasRow
<1>1. EpochInv => LeaseHasRow
  BY DEF EpochInv
<1>2. QED
  BY <1>1, EpochInvariance, PTL

(* The fence has no false positives: the holder of the newest epoch passes *)
(* it whenever it asks, against the row or an earlier getCurrentEpoch.     *)
THEOREM NewestIsNeverFenced == Spec => []FenceSparesNewest
<1>1. EpochInv => FenceSparesNewest
  BY EpochAtMost DEF EpochInv, FenceSparesNewest
<1>2. QED
  BY <1>1, EpochInvariance, PTL

-----------------------------------------------------------------------------
(* The lease manager implements EpochAuthority.                            *)

\* Every step of the lease manager is a step of the authority or a stutter.
LEMMA AuthorityStep == EpochInv /\ EpochInv' /\ [Next]_vars
                         => [Authority!ANext]_(Authority!avars)
<1> SUFFICES ASSUME EpochInv, EpochInv', [Next]_vars
             PROVE  [Authority!ANext]_(Authority!avars)
  OBVIOUS
<1> DEFINE tok == [c \in Caller |-> lease[c].epoch]
<1>1. ASSUME NEW c \in Caller, AcquireIncr(c)
      PROVE  Authority!Issue(HolderOf[c])
  BY <1>1 DEF AcquireIncr, Authority!Issue
<1>2. ASSUME NEW c \in Caller, UNCHANGED issuedTo,
             lease' = [lease EXCEPT ![c] = mine[c]], mine[c].epoch # 0
      PROVE  Authority!Take(c)
  <2>1. TypeOK
    BY DEF EpochInv
  <2>2. Owns(HolderOf[c], mine[c].epoch)
    BY <1>2 DEF EpochInv, EpochIntegrity
  <2>3. tok' = [tok EXCEPT ![c] = mine[c].epoch]
    BY <1>2, <2>1 DEF TypeOK
  <2>4. QED
    BY <1>2, <2>2, <2>3 DEF Authority!Take, Owns
<1>3. ASSUME NEW c \in Caller, UNCHANGED issuedTo,
             lease' = [lease EXCEPT ![c] = NoLease]
      PROVE  Authority!Drop(c)
  <2>1. TypeOK
    BY DEF EpochInv
  <2>2. tok' = [tok EXCEPT ![c] = 0]
    BY <1>3, <2>1 DEF TypeOK, NoLease
  <2>3. QED
    BY <1>3, <2>2 DEF Authority!Drop
<1>4. ASSUME UNCHANGED <<issuedTo, lease>>
      PROVE  UNCHANGED Authority!avars
  BY <1>4 DEF Authority!avars
<1>5. ASSUME NEW c \in Caller, Call(c)
      PROVE  \/ UNCHANGED <<issuedTo, lease>>
             \/ UNCHANGED issuedTo /\ lease' = [lease EXCEPT ![c] = NoLease]
  BY <1>5 DEF Call, AcquireGet, RenewCall, ReleaseGet, CurrentEpochDb, FenceDb,
     FenceLocal, Check, hist
<1>6. ASSUME NEW c \in Caller, Step(c)
      PROVE  \/ AcquireIncr(c)
             \/ UNCHANGED <<issuedTo, lease>>
             \/ /\ UNCHANGED issuedTo
                /\ lease' = [lease EXCEPT ![c] = mine[c]]
                /\ mine[c].epoch # 0
  BY <1>6 DEF Step, AcquireSet, AcquireSelect, AcquireUpdate, AcquireInsert,
     RenewGet, RenewSet, RenewUpdate, RenewSelect, ReleaseDel, ReleaseUpdate,
     CurrentEpochRedis, FencedWrite, hist, EpochInv, EpochKnown
<1>7. ASSUME NEW c \in Caller, Fail(c) \/ Crash(c)
      PROVE  \/ UNCHANGED <<issuedTo, lease>>
             \/ UNCHANGED issuedTo /\ lease' = [lease EXCEPT ![c] = NoLease]
  BY <1>7 DEF Fail, Crash, hist
<1>8. Tick \/ UNCHANGED vars => UNCHANGED <<issuedTo, lease>>
  BY DEF Tick, hist, vars
<1>9. \A c \in Caller : HolderOf[c] \in Holder
  BY LeaseAssumption
<1>10. QED
  BY <1>1, <1>2, <1>3, <1>4, <1>5, <1>6, <1>7, <1>8, <1>9
     DEF Next, Authority!ANext

(* The lease manager implements EpochAuthority: epochs are allocated once, *)
(* in order, and the only tokens in use are epochs of their own holder.    *)
THEOREM LeaseImplementsAuthority == Spec => ImplementsAuthority
<1>1. Init => Authority!AInit
  BY DEF Init, NoLease, Authority!AInit
<1>2. QED
  BY <1>1, AuthorityStep, EpochInvariance, PTL
     DEF Spec, ImplementsAuthority, Authority!ASpec

-----------------------------------------------------------------------------
(* Mutual exclusion of calls that do not overlap.                          *)

\* Calls are made one after the other.
OneAtATime == MaxInFlight = 1 /\ IsFiniteSet(Caller)

\* The same, by callers with holder ids of their own.
Sequential ==
  /\ OneAtATime
  /\ \A c, d \in Caller : HolderOf[c] = HolderOf[d] => c = d

\* One at a time, a call begins only when all callers are idle.
LEMMA NobodyInFlight ==
  ASSUME OneAtATime, TypeOK, NEW c \in Caller, Begin(c)
  PROVE  \A d \in Caller : pc[d] = "idle"
<1>1. IsFiniteSet(InFlight)
  BY FS_Subset DEF InFlight, OneAtATime
<1>2. Cardinality(InFlight) \in Nat /\ Cardinality(InFlight) < 1
  BY <1>1, FS_CardinalityType DEF Begin, OneAtATime
<1>3. InFlight = {}
  BY <1>1, <1>2, FS_EmptySet
<1>4. QED
  BY <1>3 DEF InFlight

\* What Goto does to pc, caller by caller.
LEMMA GotoShape ==
  ASSUME TypeOK, NEW c \in Caller, NEW s, Goto(c, s)
  PROVE  pc'[c] = s /\ \A d \in Caller : d # c => pc'[d] = pc[d]
  BY DEF TypeOK, Goto

\* What SET leaves in the lock, field by field.
LEMMA PutLockShape ==
  ASSUME MutexInv, Sequential, NEW c \in Caller, PutLock(c),
         pc[c] \in {"set", "renewSet"}, UNCHANGED <<clock, lease, mine>>
  PROVE  /\ LockIsMine(c)'
         /\ \A d \in Caller : LeaseBacked(lease[d], d)'
         /\ LeaseBacked(mine[c], c)'
<1>1. LockIsMine(c)' /\ lock'.until = clock + Ttl
  BY DEF PutLock, LockIsMine, LockIsFree, MutexInv, EpochKnown
<1>2. LeaseBacked(mine[c], c)'
  BY <1>1 DEF LeaseBacked, MutexInv
<1>3. ASSUME NEW d \in Caller, lease[d].expiresAt > clock
      PROVE  d = c
  BY <1>3 DEF MutexInv, LeaseBacked, LockIsMine, LockOfOther, LockSteps,
     Sequential
<1>4. ASSUME NEW d \in Caller PROVE LeaseBacked(lease[d], d)'
  BY <1>1, <1>3 DEF LeaseBacked, MutexInv
<1>5. QED
  BY <1>1, <1>2, <1>4

\* A lease that is kept or given up stays backed.
LEMMA KeptLeases ==
  ASSUME MutexInv, UNCHANGED <<lock, clock>>,
         NEW d \in Caller, lease'[d] = lease[d] \/ lease'[d] = NoLease
  PROVE  /\ LeaseBacked(lease[d], d)'
         /\ lease'[d].expiresAt <= clock' + Ttl
<1>1. clock \in Nat /\ clock + Ttl \in Nat
  BY FieldTypes DEF MutexInv, TypeOK
<1>2. CASE lease'[d] = lease[d]
  BY <1>2 DEF MutexInv, LeaseBacked, LockIsMine, LockIsFree
<1>3. CASE lease'[d] = NoLease
  BY <1>1, <1>3 DEF NoLease, LeaseBacked
<1>4. QED
  BY <1>2, <1>3

\* The first commands of calls preserve the mutual-exclusion invariant.
LEMMA MutexCall ==
  ASSUME MutexInv, Sequential, NEW c \in Caller, Call(c)
  PROVE  MutexInv'
<1>1. TypeOK /\ TypeOK'
  BY CallType DEF MutexInv
<1>2. \A d \in Caller : pc[d] = "idle"
  BY <1>1, NobodyInFlight DEF Call, AcquireGet, RenewCall, ReleaseGet,
     CurrentEpochDb, FenceDb, FenceLocal, Check, Sequential
<1>3. UNCHANGED <<lock, clock>>
  BY DEF Call, AcquireGet, RenewCall, ReleaseGet, CurrentEpochDb, FenceDb,
     FenceLocal, Check, store, world
<1>4. CASE RenewCall(c)
  <2>1. \/ pc'[c] = "idle" /\ mine'[c] = NoLease
        \/ /\ pc'[c] = "renewSet" /\ LockIsMine(c)
           /\ mine'[c].epoch # 0 /\ mine'[c].expiresAt = clock + Ttl
    BY <1>1, <1>4 DEF RenewCall, RenewDecide, Goto, Done, TypeOK, LockIsMine,
       LockIsFree
  <2>2. /\ \A d \in Caller : d # c => mine'[d] = mine[d] /\ pc'[d] = pc[d]
        /\ lease' = lease
    BY <1>1, <1>4, RenewShape DEF RenewCall
  <2>3. QED
    BY <1>1, <1>2, <1>3, <2>1, <2>2, FieldTypes
       DEF MutexInv, LeaseBacked, LockIsMine, LockOfOther, LockIsFree,
           LockSteps, EpochKnown, NoLease
<1>5. CASE ~RenewCall(c)
  <2>1. /\ \A d \in Caller : d # c => pc'[d] = pc[d]
        /\ \/ pc'[c] \in {"idle", "releaseUpdate", "epochRedis", "db", "local"}
           \/ pc'[c] = "renewGet" /\ LockIsMine(c)
           \/ pc'[c] = "incr" /\ LockIsFree
           \/ pc'[c] = "releaseDel" /\ LockIsMine(c) /\ lease'[c] = NoLease
        /\ mine' = mine
        /\ \A d \in Caller : lease'[d] = lease[d] \/ lease'[d] = NoLease
    BY <1>1, <1>2, <1>5 DEF Call, AcquireGet, ReleaseGet, CurrentEpochDb,
       FenceDb, FenceLocal, Check, Begin, Goto, TypeOK
  <2>2. \A d \in Caller : /\ LeaseBacked(lease[d], d)'
                          /\ lease'[d].expiresAt <= clock' + Ttl
    BY <1>3, <2>1, KeptLeases
  <2>3. \A d \in Caller : pc'[d] \in LockSteps => ~LockOfOther(d)'
    BY <1>2, <1>3, <2>1
       DEF LockIsMine, LockOfOther, LockIsFree, LockSteps
  <2>4. \A d \in Caller :
          /\ pc'[d] \notin {"select", "update", "insert", "renewUpdate",
                            "renewSelect"}
          /\ pc'[d] \notin EpochKnown
          /\ pc'[d] = "releaseDel" => lease'[d] = NoLease
    BY <1>2, <2>1 DEF EpochKnown
  <2>5. \A d \in Caller : mine'[d].expiresAt <= clock' + Ttl
    BY <1>3, <2>1 DEF MutexInv
  <2>6. QED
    BY <1>1, <1>2, <2>1, <2>2, <2>3, <2>4, <2>5 DEF MutexInv
<1>6. QED
  BY <1>4, <1>5

\* A step that touches neither the lock nor a lease.
LEMMA MutexQuietStep ==
  ASSUME MutexInv, NEW c \in Caller, TypeOK',
         UNCHANGED <<lock, lease, mine, clock>>, NEW s, Goto(c, s),
         \/ /\ pc[c] = "select" /\ s \in {"insert", "update"}
         \/ /\ pc[c] = "renewUpdate" /\ s = "renewSelect"
  PROVE  MutexInv'
  BY GotoShape DEF MutexInv, LeaseBacked, LockIsMine, LockOfOther, LockIsFree,
     LockSteps, EpochKnown

\* A step that ends a call and keeps lock and clock.
LEMMA MutexEnd ==
  ASSUME MutexInv, Sequential, NEW c \in Caller, TypeOK', Done(c),
         UNCHANGED <<lock, clock>>,
         \A d \in Caller : \/ lease'[d] = lease[d]
                           \/ lease'[d] = NoLease
                           \/ /\ d = c /\ lease'[d] = mine[d]
                              /\ pc[d] \in {"update", "insert", "renewSelect"}
  PROVE  MutexInv'
<1>1. TypeOK
  BY DEF MutexInv
<1>2. /\ mine'[c] = NoLease /\ pc'[c] = "idle"
      /\ \A d \in Caller : d # c => mine'[d] = mine[d] /\ pc'[d] = pc[d]
  BY <1>1, DoneShape DEF Done, TypeOK
<1>3. \A d \in Caller : /\ LeaseBacked(lease[d], d)'
                        /\ lease'[d].expiresAt <= clock' + Ttl
                        /\ mine'[d].expiresAt <= clock' + Ttl
  <2>1. ASSUME NEW d \in Caller
        PROVE  mine'[d].expiresAt <= clock' + Ttl
    BY <1>1, <1>2, FieldTypes DEF MutexInv, NoLease
  <2>2. ASSUME lease'[c] = mine[c], pc[c] \in {"update", "insert", "renewSelect"}
        PROVE  LeaseBacked(lease[c], c)' /\ lease'[c].expiresAt <= clock' + Ttl
    BY <2>2 DEF MutexInv, LeaseBacked, LockIsMine, LockIsFree
  <2>3. QED
    BY <2>1, <2>2, KeptLeases
<1>4. \A d \in Caller : pc'[d] = "releaseDel" => lease'[d] = NoLease
  BY <1>2 DEF MutexInv
<1>5. \A d \in Caller : pc'[d] \in LockSteps => ~LockOfOther(d)'
  BY <1>2 DEF MutexInv, LockOfOther, LockIsFree, LockSteps
<1>6. \A d \in Caller : pc'[d] \in {"select", "update", "insert",
                                    "renewUpdate", "renewSelect"}
                          => LeaseBacked(mine[d], d)'
  BY <1>2 DEF MutexInv, LeaseBacked, LockIsMine, LockIsFree
<1>7. QED
  BY <1>2, <1>3, <1>4, <1>5, <1>6 DEF MutexInv, EpochKnown

\* The later commands of calls preserve the mutual-exclusion invariant.
LEMMA MutexStep ==
  ASSUME MutexInv, Sequential, NEW c \in Caller, Step(c)
  PROVE  MutexInv'
<1>1. TypeOK /\ TypeOK'
  BY StepType DEF MutexInv
<1>2. \A d \in Caller : d # c => pc[d] = "idle"
  BY DEF MutexInv, Step, AcquireIncr, AcquireSet, AcquireSelect, AcquireUpdate,
     AcquireInsert, RenewGet, RenewSet, RenewUpdate, RenewSelect, ReleaseDel,
     ReleaseUpdate, CurrentEpochRedis, FencedWrite, Fence
<1>3. CASE AcquireIncr(c)
  <2>1. /\ UNCHANGED <<lock, lease, clock>>
        /\ mine'[c].epoch = epochKey + 1 /\ mine'[c].expiresAt = clock + Ttl
        /\ pc[c] = "incr" /\ pc'[c] = "set"
        /\ \A d \in Caller : d # c => mine'[d] = mine[d] /\ pc'[d] = pc[d]
    BY <1>1, <1>3 DEF AcquireIncr, Goto, TypeOK, world
  <2>2. epochKey + 1 # 0 /\ clock + Ttl \in Nat
    BY <1>1, FieldTypes DEF TypeOK
  <2>3. ~LockOfOther(c)
    BY <2>1 DEF MutexInv, LockSteps
  <2>4. QED
    BY <1>1, <1>2, <2>1, <2>2, <2>3 DEF MutexInv, LeaseBacked, LockIsMine,
       LockOfOther, LockIsFree, LockSteps, EpochKnown
<1>4. CASE AcquireSet(c) \/ RenewSet(c)
  <2>1. /\ PutLock(c) /\ UNCHANGED <<lease, mine, clock>>
        /\ pc[c] \in {"set", "renewSet"}
        /\ pc'[c] \in {"select", "renewUpdate"}
        /\ \A d \in Caller : d # c => pc'[d] = pc[d]
    BY <1>1, <1>4 DEF AcquireSet, RenewSet, world, Goto, TypeOK
  <2>2. /\ LockIsMine(c)'
        /\ \A d \in Caller : LeaseBacked(lease[d], d)'
        /\ LeaseBacked(mine[c], c)'
    BY <2>1, PutLockShape
  <2>3. \A d \in Caller : pc'[d] # "idle" => d = c
    BY <1>2, <2>1
  <2>4. mine[c].epoch # 0
    BY <2>1 DEF MutexInv, EpochKnown
  <2>5. \A d \in Caller : /\ mine[d].expiresAt <= clock + Ttl
                          /\ lease[d].expiresAt <= clock + Ttl
    BY DEF MutexInv
  <2>6. QED
    BY <1>1, <2>1, <2>2, <2>3, <2>4, <2>5
       DEF MutexInv, LockIsMine, LockOfOther, LockSteps, EpochKnown
<1>5. CASE AcquireSelect(c) \/ RenewUpdate(c)
  BY <1>1, <1>5, MutexQuietStep
     DEF AcquireSelect, RenewUpdate, redis, store, world
<1>6. CASE RenewGet(c)
  <2>1. CASE ~LockIsMine(c)
    BY <1>1, <1>6, <2>1, MutexEnd DEF RenewGet, RenewDecide, store, world
  <2>2. CASE LockIsMine(c)
    <3>1. /\ UNCHANGED <<lock, lease, clock>>
          /\ mine'[c].epoch = lock.epoch /\ mine'[c].expiresAt = clock + Ttl
          /\ pc'[c] = "renewSet"
          /\ \A d \in Caller : d # c => mine'[d] = mine[d] /\ pc'[d] = pc[d]
      BY <1>1, <1>6, <2>2
         DEF RenewGet, RenewDecide, Goto, TypeOK, store, world
    <3>2. clock + Ttl \in Nat
      BY <1>1, FieldTypes
    <3>3. QED
      BY <1>1, <1>2, <2>2, <3>1, <3>2 DEF MutexInv, LeaseBacked, LockIsMine,
         LockOfOther, LockIsFree, LockSteps, EpochKnown
  <2>3. QED
    BY <2>1, <2>2
<1>7. CASE AcquireUpdate(c) \/ AcquireInsert(c) \/ RenewSelect(c)
  BY <1>1, <1>7, MutexEnd
     DEF AcquireUpdate, AcquireInsert, RenewSelect, redis, store, world, TypeOK
<1>8. CASE ReleaseUpdate(c) \/ CurrentEpochRedis(c) \/ FencedWrite(c)
  BY <1>1, <1>8, MutexEnd
     DEF ReleaseUpdate, CurrentEpochRedis, FencedWrite, redis, store, world
<1>9. CASE ReleaseDel(c)
  <2>1. /\ lock' = NoLock /\ UNCHANGED <<lease, mine, clock>>
        /\ pc[c] = "releaseDel" /\ pc'[c] = "releaseUpdate"
        /\ \A d \in Caller : d # c => pc'[d] = pc[d]
    BY <1>1, <1>9 DEF ReleaseDel, Goto, TypeOK, world
  <2>2. ~LockOfOther(c) /\ lease[c] = NoLease
    BY <2>1 DEF MutexInv, LockSteps
  <2>3. \A d \in Caller : ~(lease[d].expiresAt > clock)
    <3>1. clock \in Nat
      BY <1>1 DEF TypeOK
    <3>2. QED
      BY <2>2, <3>1 DEF MutexInv, LeaseBacked, LockIsMine, LockOfOther,
         NoLease, Sequential
  <2>4. \A d \in Caller : /\ LeaseBacked(lease[d], d)'
                          /\ lease'[d].expiresAt <= clock' + Ttl
                          /\ mine'[d].expiresAt <= clock' + Ttl
    BY <2>1, <2>3 DEF MutexInv, LeaseBacked
  <2>5. \A d \in Caller : pc'[d] # "idle" => d = c
    BY <1>2, <2>1
  <2>6. QED
    BY <1>1, <2>1, <2>4, <2>5 DEF MutexInv, LockSteps, EpochKnown
<1>10. QED
  BY <1>3, <1>4, <1>5, <1>6, <1>7, <1>8, <1>9 DEF Step

\* The clock preserves it: a lock outlives the lease it backs.
LEMMA MutexTick == ASSUME MutexInv, Tick PROVE MutexInv'
<1>1. TypeOK /\ TypeOK'
  BY TickType DEF MutexInv
<1>2. /\ UNCHANGED <<pc, mine, lease>>
      /\ clock' = clock + 1 /\ clock \in Nat /\ Ttl \in Nat
      /\ \/ UNCHANGED lock
         \/ lock' = NoLock /\ lock.until <= clock + 1
  BY <1>1, LeaseAssumption DEF Tick, TypeOK
<1>3. ASSUME NEW l \in LeaseType, NEW c \in Caller, LeaseBacked(l, c)
      PROVE  LeaseBacked(l, c)'
  <2>1. l.expiresAt \in Nat /\ lock.until \in Nat
    BY <1>1 DEF LeaseType, LockType, TypeOK
  <2>2. QED
    BY <1>2, <1>3, <2>1 DEF LeaseBacked, LockIsMine, LockIsFree
<1>4. \A c \in Caller : lease[c] \in LeaseType /\ mine[c] \in LeaseType
  BY <1>1 DEF TypeOK
<1>5. \A c \in Caller : ~LockOfOther(c) => ~LockOfOther(c)'
  BY <1>2 DEF LockOfOther, LockIsFree, NoLock
<1>6. \A c \in Caller : /\ mine[c].expiresAt <= clock' + Ttl
                        /\ lease[c].expiresAt <= clock' + Ttl
  BY <1>1, <1>2, FieldTypes DEF MutexInv
<1>7. QED
  BY <1>1, <1>2, <1>3, <1>4, <1>5, <1>6 DEF MutexInv

\* The mutual-exclusion invariant is inductive in sequential use.
LEMMA MutexInductive ==
  ASSUME Sequential
  PROVE  MutexInv /\ [Next]_vars => MutexInv'
<1> SUFFICES ASSUME MutexInv, [Next]_vars PROVE MutexInv'
  OBVIOUS
<1>1. TypeOK /\ TypeOK'
  BY NextType DEF MutexInv
<1>2. ASSUME NEW c \in Caller, Fail(c) \/ Crash(c) PROVE MutexInv'
  BY <1>1, <1>2, MutexEnd DEF Fail, Crash, store, TypeOK
<1>3. CASE UNCHANGED vars
  BY <1>1, <1>3 DEF vars, MutexInv, LeaseBacked, LockIsMine, LockOfOther,
     LockIsFree
<1>4. QED
  BY <1>2, <1>3, MutexCall, MutexStep, MutexTick DEF Next

(* Used one call at a time by callers with holder ids of their own, the    *)
(* lease manager does exclude: two holders never both have a lease that    *)
(* has not run out, whatever fails and whoever dies in the middle of a     *)
(* call.  Without that premise the run MCLease_no_mutex refutes it.        *)
THEOREM SequentialMutualExclusion ==
  ASSUME Sequential
  PROVE  Spec => []MutualExclusion
<1>1. Init => MutexInv
  <2> SUFFICES ASSUME Init PROVE MutexInv
    OBVIOUS
  <2>1. TypeOK
    BY NullTypes, LeaseAssumption DEF Init, TypeOK, Control
  <2>2. QED
    BY <2>1, LeaseAssumption DEF Init, MutexInv, LeaseBacked, NoLease,
       LockSteps, EpochKnown
<1>2. MutexInv => MutualExclusion
  BY DEF MutexInv, LeaseBacked, LockIsMine, MutualExclusion
<1>3. QED
  BY <1>1, <1>2, MutexInductive, PTL DEF Spec

-----------------------------------------------------------------------------
(* A caller with a holder id of its own never gets an older epoch.         *)

\* What a caller does leaves the call and the lease of another alone.
LEMMA OthersKept ==
  ASSUME TypeOK, NEW d \in Caller, Call(d) \/ Step(d) \/ Fail(d) \/ Crash(d),
         NEW c \in Caller, c # d
  PROVE  pc'[c] = pc[c] /\ mine'[c] = mine[c] /\ lease'[c] = lease[c]
<1>1. CASE Call(d)
  BY <1>1 DEF Call, AcquireGet, RenewCall, RenewDecide, ReleaseGet,
     CurrentEpochDb, FenceDb, FenceLocal, Check, Begin, Goto, Done, TypeOK
<1>2. CASE Step(d)
  <2>1. lease'[c] = lease[c]
    BY <1>2 DEF Step, AcquireIncr, AcquireSet, AcquireSelect, AcquireUpdate,
       AcquireInsert, RenewGet, RenewSet, RenewUpdate, RenewSelect, ReleaseDel,
       ReleaseUpdate, CurrentEpochRedis, FencedWrite, TypeOK
  <2>2. \/ Done(d)
        \/ RenewDecide(d)
        \/ /\ \E s : Goto(d, s)
           /\ \/ UNCHANGED mine
              \/ \E l : mine' = [mine EXCEPT ![d] = l]
    BY <1>2 DEF Step, AcquireIncr, AcquireSet, AcquireSelect, AcquireUpdate,
       AcquireInsert, RenewGet, RenewSet, RenewUpdate, RenewSelect, ReleaseDel,
       ReleaseUpdate, CurrentEpochRedis, FencedWrite
  <2>3. QED
    BY <2>1, <2>2, DoneShape, RenewShape DEF Goto, TypeOK
<1>3. CASE Fail(d) \/ Crash(d)
  BY <1>3 DEF Fail, Crash, Done, TypeOK
<1>4. QED
  BY <1>1, <1>2, <1>3

\* A caller leaves the lock as it is, takes it, or drops it.
LEMMA LockMoves ==
  ASSUME NEW d \in Caller, Call(d) \/ Step(d) \/ Fail(d) \/ Crash(d)
  PROVE  UNCHANGED lock \/ lock' = NoLock \/ lock'.holder = HolderOf[d]
<1>1. CASE Call(d) \/ Fail(d) \/ Crash(d)
  BY <1>1 DEF Call, AcquireGet, RenewCall, ReleaseGet, CurrentEpochDb, FenceDb,
     FenceLocal, Check, Fail, Crash, store
<1>2. CASE Step(d)
  BY <1>2 DEF Step, AcquireIncr, AcquireSet, AcquireSelect, AcquireUpdate,
     AcquireInsert, RenewGet, RenewSet, RenewUpdate, RenewSelect, ReleaseDel,
     ReleaseUpdate, CurrentEpochRedis, FencedWrite, PutLock, redis, store
<1>3. QED
  BY <1>1, <1>2

\* What another caller does cannot make a caller's epochs old.
LEMMA AgeOther ==
  ASSUME TypeOK, NEW d \in Caller, Call(d) \/ Step(d) \/ Fail(d) \/ Crash(d),
         NEW c \in Caller, c # d, HasOwnId(c), OwnEpochs(c)
  PROVE  OwnEpochs(c)'
<1>1. pc'[c] = pc[c] /\ mine'[c] = mine[c] /\ lease'[c] = lease[c]
  BY OthersKept
<1>2. UNCHANGED lock \/ ~LockIsMine(c)'
  BY LockMoves DEF HasOwnId, LockIsMine, LockIsFree, NoLock
<1>3. QED
  BY <1>1, <1>2 DEF OwnEpochs, LockIsMine, LockIsFree

\* A call a caller begins gives it no old epoch.
LEMMA AgeCall ==
  ASSUME TypeOK, NEW c \in Caller, Call(c), OwnEpochs(c)
  PROVE  OwnEpochs(c)'
<1>1. UNCHANGED lock /\ (lease'[c] = lease[c] \/ lease'[c].epoch = 0)
  BY DEF Call, AcquireGet, RenewCall, ReleaseGet, CurrentEpochDb, FenceDb,
     FenceLocal, Check, store, NoLease, TypeOK
<1>2. \/ pc'[c] \notin EpochKnown
      \/ /\ pc'[c] = "renewSet" /\ LockIsMine(c)
         /\ mine'[c].epoch = lock.epoch /\ lease'[c] = lease[c]
  <2>1. CASE RenewCall(c)
    BY <2>1, RenewShape DEF RenewCall, EpochKnown
  <2>2. CASE ~RenewCall(c)
    BY <2>2 DEF Call, AcquireGet, ReleaseGet, CurrentEpochDb, FenceDb,
       FenceLocal, Check, Begin, Goto, TypeOK, EpochKnown
  <2>3. QED
    BY <2>1, <2>2
<1>3. lock.epoch \in Nat /\ lease[c].epoch \in Nat
  BY FieldTypes
<1>4. QED
  BY <1>1, <1>2, <1>3 DEF OwnEpochs, LockIsMine, LockIsFree, EpochKnown

\* A later command of its call gives a caller no old epoch.
LEMMA AgeStep ==
  ASSUME EpochInv, NEW c \in Caller, Step(c), OwnEpochs(c)
  PROVE  OwnEpochs(c)'
<1>1. TypeOK
  BY DEF EpochInv
<1>2. /\ lock.epoch \in Nat /\ lease[c].epoch \in Nat /\ mine[c].epoch \in Nat
      /\ epochKey \in Nat /\ lease[c].epoch <= epochKey
  BY <1>1, FieldTypes, EpochAtMost DEF TypeOK
<1>3. CASE AcquireIncr(c)
  <2>1. /\ UNCHANGED <<lock, lease>>
        /\ mine'[c].epoch = epochKey + 1 /\ pc'[c] = "set"
    BY <1>1, <1>3 DEF AcquireIncr, Goto, TypeOK
  <2>2. QED
    BY <1>2, <2>1 DEF OwnEpochs, LockIsMine, LockIsFree
<1>4. CASE AcquireSet(c) \/ RenewSet(c)
  <2>1. /\ UNCHANGED <<mine, lease>>
        /\ lock'.epoch = mine[c].epoch
        /\ pc[c] \in EpochKnown
    BY <1>4 DEF AcquireSet, RenewSet, PutLock, EpochKnown
  <2>2. QED
    BY <2>1 DEF OwnEpochs
<1>5. CASE AcquireSelect(c) \/ RenewUpdate(c)
  <2>1. /\ UNCHANGED <<lock, mine, lease>>
        /\ pc[c] \in {"select", "renewUpdate"}
    BY <1>5 DEF AcquireSelect, RenewUpdate, redis, store
  <2>2. QED
    BY <2>1 DEF OwnEpochs, LockIsMine, LockIsFree, EpochKnown
<1>6. CASE RenewGet(c)
  <2>1. UNCHANGED <<lock, lease>>
    BY <1>6 DEF RenewGet, store
  <2>2. \/ pc'[c] = "renewSet" /\ LockIsMine(c) /\ mine'[c].epoch = lock.epoch
        \/ pc'[c] = "idle"
    BY <1>1, <1>6, RenewShape DEF RenewGet
  <2>3. QED
    BY <2>1, <2>2 DEF OwnEpochs, LockIsMine, LockIsFree, EpochKnown
<1>7. CASE ReleaseDel(c)
  <2>1. ~LockIsMine(c)' /\ pc'[c] = "releaseUpdate"
    BY <1>1, <1>7 DEF ReleaseDel, NoLock, LockIsMine, LockIsFree, Goto, TypeOK
  <2>2. QED
    BY <2>1 DEF OwnEpochs, EpochKnown
<1>8. CASE /\ Done(c) /\ UNCHANGED lock
           /\ \/ lease'[c] = lease[c]
              \/ /\ lease'[c] = mine[c]
                 /\ pc[c] \in {"update", "insert", "renewSelect"}
  <2>1. pc'[c] = "idle"
    BY <1>1, <1>8, DoneShape
  <2>2. QED
    BY <1>2, <1>8, <2>1 DEF OwnEpochs, LockIsMine, LockIsFree, EpochKnown
<1>9. CASE AcquireUpdate(c) \/ AcquireInsert(c) \/ RenewSelect(c)
  BY <1>1, <1>8, <1>9
     DEF AcquireUpdate, AcquireInsert, RenewSelect, redis, store, TypeOK
<1>10. CASE ReleaseUpdate(c) \/ CurrentEpochRedis(c) \/ FencedWrite(c)
  BY <1>8, <1>10
     DEF ReleaseUpdate, CurrentEpochRedis, FencedWrite, redis, store
<1>11. QED
  BY <1>3, <1>4, <1>5, <1>6, <1>7, <1>9, <1>10 DEF Step

\* A failure, a death and the clock give a caller no old epoch.
LEMMA AgeElse ==
  ASSUME TypeOK, NEW c \in Caller, OwnEpochs(c),
         Fail(c) \/ Crash(c) \/ Tick \/ UNCHANGED vars
  PROVE  OwnEpochs(c)'
<1>1. UNCHANGED lock \/ ~LockIsMine(c)'
  BY DEF Fail, Crash, Tick, vars, store, NoLock, LockIsMine, LockIsFree
<1>2. \/ pc'[c] = "idle" /\ (lease'[c] = lease[c] \/ lease'[c].epoch = 0)
      \/ pc'[c] = pc[c] /\ mine'[c] = mine[c] /\ lease'[c] = lease[c]
  BY DoneShape DEF Fail, Crash, Tick, vars, NoLease, TypeOK
<1>3. lock.epoch \in Nat
  BY FieldTypes
<1>4. QED
  BY <1>1, <1>2, <1>3 DEF OwnEpochs, LockIsMine, LockIsFree, EpochKnown

\* The invariant of the callers with holder ids of their own is inductive.
LEMMA AgeInductive == AgeInv /\ [Next]_vars => AgeInv'
<1> SUFFICES ASSUME AgeInv, [Next]_vars PROVE AgeInv'
  OBVIOUS
<1>1. TypeOK /\ EpochInv /\ EpochInv'
  BY EpochInductive DEF AgeInv, EpochInv
<1>2. ASSUME NEW c \in Caller, HasOwnId(c) PROVE OwnEpochs(c)'
  <2>1. OwnEpochs(c)
    BY <1>2 DEF AgeInv
  <2>2. QED
    BY <1>1, <1>2, <2>1, AgeOther, AgeCall, AgeStep, AgeElse DEF Next
<1>3. QED
  BY <1>1, <1>2 DEF AgeInv, HasOwnId

\* A step that gives a lease to a caller with a holder id of its own gives it
\* no older epoch.
LEMMA LeaseGrows ==
  ASSUME AgeInv, [Next]_vars, NEW c \in Caller, HasOwnId(c),
         lease'[c].epoch # 0
  PROVE  lease'[c].epoch >= lease[c].epoch
<1>1. TypeOK
  BY DEF AgeInv, EpochInv
<1>2. lease[c].epoch \in Nat /\ mine[c].epoch \in Nat
  BY <1>1, FieldTypes
<1>3. ASSUME NEW d \in Caller, Call(d) \/ Fail(d) \/ Crash(d)
      PROVE  lease'[c] = lease[c] \/ lease'[c].epoch = 0
  BY <1>1, <1>3 DEF Call, AcquireGet, RenewCall, ReleaseGet, CurrentEpochDb,
     FenceDb, FenceLocal, Check, Fail, Crash, NoLease, TypeOK
<1>4. ASSUME NEW d \in Caller, Step(d)
      PROVE  \/ lease'[c] = lease[c]
             \/ lease'[c] = mine[c] /\ pc[c] \in EpochKnown
  BY <1>1, <1>4 DEF Step, AcquireIncr, AcquireSet, AcquireSelect,
     AcquireUpdate, AcquireInsert, RenewGet, RenewSet, RenewUpdate,
     RenewSelect, ReleaseDel, ReleaseUpdate, CurrentEpochRedis, FencedWrite,
     EpochKnown, TypeOK
<1>5. Tick \/ UNCHANGED vars => lease' = lease
  BY DEF Tick, vars
<1>6. \/ lease'[c] = lease[c]
      \/ lease'[c] = mine[c] /\ pc[c] \in EpochKnown
  BY <1>3, <1>4, <1>5 DEF Next
<1>7. pc[c] \in EpochKnown => lease[c].epoch <= mine[c].epoch
  BY DEF AgeInv, OwnEpochs
<1>8. QED
  BY <1>2, <1>6, <1>7

(* A caller whose holder id nobody shares, given a lease again, is never   *)
(* given an older epoch than the one it has: not by an acquire that turns  *)
(* into a renewal, not by one that races the expiry of its own lock or     *)
(* another holder's acquire, whatever fails in between.                    *)
THEOREM LeasesOnlyGrowNewer == Spec => LeaseEpochNeverGoesBack
<1>1. Init => AgeInv
  BY InitEpochs DEF Init, AgeInv, OwnEpochs, NoLock, LockIsMine, LockIsFree,
     EpochKnown
<1>2. AgeInv /\ [Next]_vars
        => [\A c \in Caller : HasOwnId(c) /\ lease'[c].epoch # 0
              => lease'[c].epoch >= lease[c].epoch]_lease
  BY LeaseGrows
<1>3. QED
  BY <1>1, <1>2, AgeInductive, PTL DEF Spec, LeaseEpochNeverGoesBack

-----------------------------------------------------------------------------
(* Calls that do not overlap: the row never goes back, and only a failure  *)
(* lets the fence pass an older epoch.                                     *)

\* The numbers the fence compares.
LEMMA FenceTypes ==
  ASSUME EpochInv
  PROVE  /\ row.epoch \in Nat /\ lock.epoch \in Nat /\ written \in Nat
         /\ epochKey \in Nat /\ row.epoch <= epochKey
         /\ faults \in Nat /\ (row = NoRow <=> row.epoch = 0)
         /\ \A c \in Caller : mine[c].epoch \in Nat /\ lease[c].epoch \in Nat
<1>1. TypeOK
  BY DEF EpochInv
<1>2. row = NoRow <=> row.epoch = 0
  BY DEF EpochInv, NoRow
<1>3. /\ row.epoch \in Nat /\ lock.epoch \in Nat
      /\ \A c \in Caller : mine[c].epoch \in Nat /\ lease[c].epoch \in Nat
  BY <1>1 DEF TypeOK, RowType, LockType, LeaseType
<1>4. written \in Nat /\ epochKey \in Nat /\ faults \in Nat
  BY <1>1 DEF TypeOK
<1>5. row.epoch <= epochKey
  BY EpochAtMost
<1>6. QED
  BY <1>2, <1>3, <1>4, <1>5

\* A step that writes neither lock, row nor history, for a caller that does
\* not have an epoch to write afterwards.
LEMMA FenceQuiet ==
  ASSUME FenceInv, EpochInv', NEW c \in Caller,
         UNCHANGED <<row, written, fooled>>, faults' # 0 \/ UNCHANGED faults,
         lock' = NoLock \/ /\ UNCHANGED lock
                           /\ faults' = 0 => lock.epoch <= row.epoch,
         \A d \in Caller : d # c => /\ pc'[d] = "idle" /\ mine'[d] = mine[d]
                                    /\ \/ lease'[d] = lease[d]
                                       \/ lease'[d].epoch = 0,
         pc'[c] \notin EpochKnown
           \/ /\ pc'[c] \in {"renewSet", "renewUpdate", "renewSelect"}
              /\ faults' = 0 => mine'[c].epoch <= row.epoch,
         \/ lease'[c] = lease[c]
         \/ lease'[c].epoch = 0
         \/ faults' = 0 => lease'[c].epoch <= row.epoch,
         pc'[c] = "db" => row.epoch <= lease'[c].epoch
  PROVE  FenceInv'
<1>1. row.epoch \in Nat /\ faults \in Nat
  BY FenceTypes DEF FenceInv
<1>2. ASSUME faults' = 0 PROVE NothingFailed'
  <2>1. faults = 0 /\ NothingFailed
    BY <1>2 DEF FenceInv
  <2>2. lock'.epoch <= row.epoch
    BY <1>1, <1>2 DEF NoLock
  <2>3. \A d \in Caller : lease'[d].epoch <= row.epoch
    BY <1>1, <1>2, <2>1 DEF NothingFailed
  <2>4. QED
    BY <1>2, <2>1, <2>2, <2>3 DEF NothingFailed, EpochKnown
<1>3. QED
  BY <1>2 DEF FenceInv, EpochKnown, RowBehind

\* When nothing failed and nobody writes the row, the lock is not ahead of it.
LEMMA LockNotAhead ==
  ASSUME FenceInv, NEW c \in Caller, pc[c] \notin RowBehind,
         \A d \in Caller : d # c => pc[d] = "idle", faults = 0
  PROVE  lock.epoch <= row.epoch
  BY DEF FenceInv, NothingFailed, RowBehind

\* The first commands of calls preserve the fence invariant.
LEMMA FenceCall ==
  ASSUME OneAtATime, FenceInv, EpochInv', NEW c \in Caller, Call(c)
  PROVE  FenceInv'
<1>1. TypeOK /\ EpochInv
  BY DEF FenceInv, EpochInv
<1>2. \A d \in Caller : pc[d] = "idle"
  BY <1>1, NobodyInFlight DEF Call, AcquireGet, RenewCall, ReleaseGet,
     CurrentEpochDb, FenceDb, FenceLocal, Check
<1>3. /\ UNCHANGED <<lock, row, written, fooled, faults>>
      /\ lease'[c] = lease[c] \/ lease'[c].epoch = 0
      /\ \A d \in Caller : d # c => /\ pc'[d] = "idle" /\ mine'[d] = mine[d]
                                    /\ lease'[d] = lease[d]
  <2>1. /\ UNCHANGED <<lock, row, written, fooled, faults>>
        /\ lease'[c] = lease[c] \/ lease'[c].epoch = 0
    BY <1>1 DEF Call, AcquireGet, RenewCall, ReleaseGet, CurrentEpochDb,
       FenceDb, FenceLocal, Check, store, hist, world, NoLease, TypeOK
  <2>2. QED
    BY <1>1, <1>2, <2>1, OthersKept
<1>4. faults = 0 => lock.epoch <= row.epoch
  BY <1>2, LockNotAhead DEF RowBehind
<1>5. pc'[c] = "db" => row.epoch <= lease'[c].epoch
  <2>1. CASE FenceDb(c)
    <3>1. lease' = lease /\ pc[c] = "idle"
      BY <2>1 DEF FenceDb, Check, Begin
    <3>2. pc'[c] = "db" => row = NoRow \/ lease[c].epoch >= row.epoch
      BY <1>1, <2>1, <3>1 DEF FenceDb, Check, ValidEpoch, Goto, TypeOK
    <3>3. QED
      BY <1>1, <3>1, <3>2, FenceTypes
  <2>2. CASE RenewCall(c)
    BY <1>1, <2>2, RenewShape DEF RenewCall
  <2>3. CASE ~FenceDb(c) /\ ~RenewCall(c)
    BY <1>1, <1>2, <2>3 DEF Call, AcquireGet, ReleaseGet, CurrentEpochDb,
       FenceLocal, Check, Goto, TypeOK
  <2>4. QED
    BY <2>1, <2>2, <2>3
<1>6. \/ pc'[c] \notin EpochKnown
      \/ pc'[c] = "renewSet" /\ mine'[c].epoch = lock.epoch
  <2>1. CASE RenewCall(c)
    BY <1>1, <2>1, RenewShape DEF RenewCall, EpochKnown
  <2>2. CASE ~RenewCall(c)
    BY <1>1, <1>2, <2>2 DEF Call, AcquireGet, ReleaseGet, CurrentEpochDb,
       FenceDb, FenceLocal, Check, Fence, Goto, TypeOK, EpochKnown
  <2>3. QED
    BY <2>1, <2>2
<1>7. QED
  BY <1>3, <1>4, <1>5, <1>6, FenceQuiet

\* The commands that carry an acquire to its row preserve it.
LEMMA FenceAcquire ==
  ASSUME FenceInv, EpochInv', NEW c \in Caller,
         \A d \in Caller : d # c => pc[d] = "idle",
         AcquireIncr(c) \/ AcquireSet(c) \/ AcquireSelect(c)
  PROVE  FenceInv'
<1>1. TypeOK /\ EpochInv
  BY DEF FenceInv, EpochInv
<1>2. /\ UNCHANGED <<row, lease, written, fooled, faults>>
      /\ \A d \in Caller : d # c => pc'[d] = "idle" /\ mine'[d] = mine[d]
      /\ pc[c] \in {"incr", "set", "select"}
  BY <1>1, OthersKept DEF Step, AcquireIncr, AcquireSet, AcquireSelect, world,
     hist, store
<1>3. /\ pc'[c] \in RowBehind \cup {"set"}
      /\ row.epoch <= mine'[c].epoch
      /\ pc'[c] = "insert" => row = NoRow
  <2>1. CASE AcquireIncr(c)
    BY <1>1, <2>1, FenceTypes DEF AcquireIncr, Goto, TypeOK
  <2>2. CASE AcquireSet(c) \/ AcquireSelect(c)
    BY <1>1, <2>2 DEF FenceInv, AcquireSet, AcquireSelect, Goto, TypeOK,
       RowBehind
  <2>3. QED
    BY <2>1, <2>2
<1>4. ASSUME faults = 0
      PROVE  \/ lock'.epoch <= row.epoch
             \/ pc'[c] \in RowBehind /\ lock'.epoch <= mine'[c].epoch
  <2>1. CASE AcquireIncr(c)
    BY <1>4, <2>1, LockNotAhead DEF AcquireIncr, RowBehind
  <2>2. CASE AcquireSet(c)
    BY <1>1, <2>2, FenceTypes DEF AcquireSet, PutLock, Goto, TypeOK, RowBehind
  <2>3. CASE AcquireSelect(c)
    BY <1>1, <1>4, <2>3 DEF FenceInv, NothingFailed, AcquireSelect, Goto,
       TypeOK, RowBehind, store
  <2>4. QED
    BY <2>1, <2>2, <2>3
<1>5. faults' = 0 => NothingFailed'
  BY <1>2, <1>3, <1>4 DEF FenceInv, NothingFailed, RowBehind
<1>6. QED
  BY <1>2, <1>3, <1>5 DEF FenceInv, RowBehind

\* The commands that write the row preserve it.
LEMMA FenceWriteRow ==
  ASSUME FenceInv, EpochInv', NEW c \in Caller,
         \A d \in Caller : d # c => pc[d] = "idle",
         AcquireUpdate(c) \/ AcquireInsert(c)
  PROVE  /\ FenceInv'
         /\ row.epoch <= row'.epoch
<1>1. TypeOK /\ EpochInv
  BY DEF FenceInv, EpochInv
<1>2. /\ UNCHANGED <<lock, written, fooled, faults>>
      /\ row'.epoch = mine[c].epoch /\ lease'[c] = mine[c] /\ pc'[c] = "idle"
      /\ pc[c] \in {"update", "insert"}
  BY <1>1 DEF FenceInv, AcquireUpdate, AcquireInsert, ActiveRow, redis, world,
     hist, Done, TypeOK
<1>3. \A d \in Caller : d # c => /\ pc'[d] = "idle" /\ mine'[d] = mine[d]
                                 /\ lease'[d] = lease[d]
  BY <1>1, OthersKept DEF Step
<1>4. row.epoch <= mine[c].epoch
  BY <1>2 DEF FenceInv, RowBehind
<1>5. /\ row.epoch \in Nat /\ lock.epoch \in Nat /\ written \in Nat
      /\ \A d \in Caller : mine[d].epoch \in Nat /\ lease[d].epoch \in Nat
  BY <1>1, FenceTypes
<1>6. ASSUME faults = 0 PROVE NothingFailed'
  <2>1. NothingFailed
    BY <1>6 DEF FenceInv
  <2>2. lock'.epoch <= row'.epoch /\ written' <= row'.epoch
    BY <1>2, <1>4, <1>5, <2>1 DEF NothingFailed, RowBehind
  <2>3. \A d \in Caller : lease'[d].epoch <= row'.epoch
    BY <1>2, <1>3, <1>4, <1>5, <2>1 DEF NothingFailed
  <2>4. QED
    BY <1>2, <1>3, <2>1, <2>2, <2>3 DEF NothingFailed
<1>7. FenceInv'
  BY <1>2, <1>3, <1>6 DEF FenceInv, RowBehind
<1>8. QED
  BY <1>2, <1>4, <1>7

\* The commands of a renewal preserve it.
LEMMA FenceRenew ==
  ASSUME FenceInv, EpochInv', NEW c \in Caller,
         \A d \in Caller : d # c => pc[d] = "idle",
         RenewGet(c) \/ RenewSet(c) \/ RenewUpdate(c) \/ RenewSelect(c)
  PROVE  FenceInv'
<1>1. TypeOK /\ EpochInv
  BY DEF FenceInv, EpochInv
<1>2. /\ UNCHANGED <<written, fooled, faults>>
      /\ pc[c] \in {"renewGet", "renewSet", "renewUpdate", "renewSelect"}
  BY DEF RenewGet, RenewSet, RenewUpdate, RenewSelect, world, hist
<1>3. \A d \in Caller : d # c => /\ pc'[d] = "idle" /\ mine'[d] = mine[d]
                                 /\ lease'[d] = lease[d]
  BY <1>1, OthersKept DEF Step
<1>4. row'.epoch = row.epoch
  BY <1>1 DEF RenewGet, RenewSet, RenewUpdate, RenewSelect, store, redis,
     SetStatus, TypeOK, RowType
<1>5. faults = 0 => lock.epoch <= row.epoch
  BY <1>2, LockNotAhead DEF RowBehind
<1>6. faults = 0 /\ pc[c] # "renewGet" => mine[c].epoch <= row.epoch
  BY <1>2 DEF FenceInv, NothingFailed
<1>7. faults = 0 => lock'.epoch <= row.epoch
  BY <1>5, <1>6 DEF RenewGet, RenewSet, RenewUpdate, RenewSelect, store, redis,
     PutLock
<1>8. /\ pc'[c] \in {"idle", "renewSet", "renewUpdate", "renewSelect"}
      /\ faults = 0 /\ pc'[c] # "idle" => mine'[c].epoch <= row.epoch
  <2>1. CASE RenewGet(c)
    BY <1>1, <1>5, <2>1, RenewShape DEF RenewGet
  <2>2. CASE RenewSet(c) \/ RenewUpdate(c)
    BY <1>1, <1>6, <2>2 DEF RenewSet, RenewUpdate, Goto, TypeOK
  <2>3. CASE RenewSelect(c)
    BY <1>1, <2>3, DoneShape DEF RenewSelect
  <2>4. QED
    BY <2>1, <2>2, <2>3
<1>9. \/ lease'[c] = lease[c]
      \/ faults = 0 => lease'[c].epoch <= row.epoch
  BY <1>1, <1>6 DEF RenewGet, RenewSet, RenewUpdate, RenewSelect, TypeOK
<1>10. ASSUME faults = 0 PROVE NothingFailed'
  BY <1>2, <1>3, <1>4, <1>7, <1>8, <1>9, <1>10 DEF FenceInv, NothingFailed
<1>11. QED
  BY <1>2, <1>3, <1>4, <1>8, <1>10 DEF FenceInv, RowBehind

\* A write that the fence let through preserves it.
LEMMA FenceFencedWrite ==
  ASSUME FenceInv, EpochInv', NEW c \in Caller,
         \A d \in Caller : d # c => pc[d] = "idle", FencedWrite(c)
  PROVE  FenceInv'
<1>1. TypeOK /\ EpochInv
  BY DEF FenceInv, EpochInv
<1>2. /\ UNCHANGED <<lock, row, lease, faults>> /\ pc'[c] = "idle"
      /\ pc[c] \in Fence
      /\ \A d \in Caller : d # c => pc'[d] = "idle" /\ mine'[d] = mine[d]
  BY <1>1, DoneShape DEF FencedWrite, store, world
<1>3. /\ row.epoch \in Nat /\ written \in Nat
      /\ \A d \in Caller : lease[d].epoch \in Nat
  BY <1>1, FenceTypes
<1>4. ASSUME faults = 0 PROVE NothingFailed'
  <2>1. NothingFailed
    BY <1>4 DEF FenceInv
  <2>2. lock.epoch <= row.epoch
    BY <1>2, <1>4, LockNotAhead DEF RowBehind, Fence
  <2>3. written' <= row.epoch /\ "db" \notin fooled'
    BY <1>2, <1>3, <2>1 DEF FencedWrite, Fence, NothingFailed
  <2>4. QED
    BY <1>2, <2>1, <2>2, <2>3 DEF NothingFailed
<1>5. QED
  BY <1>2, <1>4 DEF FenceInv, RowBehind

\* The later commands of calls preserve the fence invariant.
LEMMA FenceStep ==
  ASSUME FenceInv, EpochInv', NEW c \in Caller, Step(c)
  PROVE  FenceInv'
<1>1. TypeOK /\ EpochInv
  BY DEF FenceInv, EpochInv
<1>2. \A d \in Caller : d # c => pc[d] = "idle"
  BY DEF FenceInv, Step, AcquireIncr, AcquireSet, AcquireSelect, AcquireUpdate,
     AcquireInsert, RenewGet, RenewSet, RenewUpdate, RenewSelect, ReleaseDel,
     ReleaseUpdate, CurrentEpochRedis, FencedWrite, Fence
<1>3. CASE ReleaseDel(c) \/ ReleaseUpdate(c) \/ CurrentEpochRedis(c)
  <2>1. /\ UNCHANGED <<lease, written, fooled, faults>>
        /\ UNCHANGED lock \/ lock' = NoLock
        /\ pc'[c] \in {"idle", "releaseUpdate"}
        /\ pc[c] \notin RowBehind
    BY <1>1, <1>3, DoneShape DEF ReleaseDel, ReleaseUpdate, CurrentEpochRedis,
       store, redis, world, hist, Goto, TypeOK, RowBehind
  <2>2. \A d \in Caller : d # c => pc'[d] = "idle" /\ mine'[d] = mine[d]
    BY <1>1, <1>2, <1>3, OthersKept DEF Step
  <2>3. row'.epoch = row.epoch
    BY <1>1, <1>3 DEF ReleaseDel, ReleaseUpdate, CurrentEpochRedis, store,
       SetStatus, TypeOK, RowType
  <2>4. faults = 0 => lock'.epoch <= row.epoch
    BY <1>1, <1>2, <2>1, LockNotAhead, FenceTypes DEF NoLock
  <2>5. faults' = 0 => NothingFailed'
    BY <2>1, <2>2, <2>3, <2>4 DEF FenceInv, NothingFailed
  <2>6. QED
    BY <2>1, <2>2, <2>3, <2>5 DEF FenceInv, RowBehind
<1>4. QED
  BY <1>2, <1>3, FenceAcquire, FenceWriteRow, FenceRenew, FenceFencedWrite
     DEF Step

\* Failures, deaths and the clock preserve the fence invariant.
LEMMA FenceElse ==
  ASSUME FenceInv, EpochInv',
         (\E c \in Caller : Fail(c) \/ Crash(c)) \/ Tick \/ UNCHANGED vars
  PROVE  FenceInv'
<1>1. TypeOK /\ EpochInv
  BY DEF FenceInv, EpochInv
<1>2. row.epoch \in Nat /\ faults \in Nat
  BY <1>1, FenceTypes
<1>3. CASE \E c \in Caller : Fail(c) \/ Crash(c)
  <2>1. PICK c \in Caller : Fail(c) \/ Crash(c)
    BY <1>3
  <2>2. faults' # 0 /\ UNCHANGED row /\ Done(c)
    BY <1>2, <2>1 DEF Fail, Crash, store
  <2>3. QED
    BY <1>1, <2>2, DoneShape DEF FenceInv, RowBehind
<1>4. CASE Tick \/ UNCHANGED vars
  <2>1. /\ UNCHANGED <<row, pc, mine, lease, written, fooled, faults>>
        /\ UNCHANGED lock \/ lock'.epoch = 0
    BY <1>4 DEF Tick, vars, hist, NoLock
  <2>2. faults = 0 => NothingFailed'
    BY <1>2, <2>1 DEF FenceInv, NothingFailed
  <2>3. QED
    BY <2>1, <2>2 DEF FenceInv
<1>5. QED
  BY <1>3, <1>4

\* One call at a time, the fence invariant is inductive.
LEMMA FenceInductive ==
  ASSUME OneAtATime
  PROVE  FenceInv /\ [Next]_vars => FenceInv'
<1> SUFFICES ASSUME FenceInv, [Next]_vars PROVE FenceInv'
  OBVIOUS
<1>1. EpochInv'
  BY EpochInductive DEF FenceInv
<1>2. QED
  BY <1>1, FenceCall, FenceStep, FenceElse DEF Next

\* One call at a time, the fence invariant holds in every reachable state.
LEMMA FenceInvariance ==
  ASSUME OneAtATime
  PROVE  Spec => []FenceInv
<1>1. Init => FenceInv
  BY InitEpochs DEF Init, FenceInv, NothingFailed, NoRow, NoLock, NoLease,
     RowBehind
<1>2. QED
  BY <1>1, FenceInductive, PTL DEF Spec

(* Used one call at a time, the epoch in MySQL never goes back, whatever   *)
(* fails or dies between INCR and the row and whatever holder id a caller  *)
(* presents.  (An acquire that overlaps another may write its older epoch  *)
(* last.)                                                                  *)
THEOREM SequentialRowNeverGoesBack ==
  ASSUME OneAtATime
  PROVE  Spec => RowEpochNeverGoesBack
<1>1. FenceInv /\ [Next]_vars => [row'.epoch >= row.epoch]_row
  <2> SUFFICES ASSUME FenceInv, [Next]_vars PROVE row'.epoch >= row.epoch
    OBVIOUS
  <2>1. row.epoch \in Nat /\ EpochInv'
    BY FenceTypes, EpochInductive DEF FenceInv
  <2>2. ASSUME NEW c \in Caller, AcquireUpdate(c) \/ AcquireInsert(c)
        PROVE  row.epoch <= row'.epoch
    BY <2>1, <2>2, FenceWriteRow DEF FenceInv, AcquireUpdate, AcquireInsert
  <2>3. ASSUME NEW c \in Caller, ~AcquireUpdate(c), ~AcquireInsert(c),
               Step(c)
        PROVE  row'.epoch = row.epoch
    <3>1. row \in RowType
      BY DEF FenceInv, EpochInv, TypeOK
    <3>2. QED
      BY <2>3, <3>1 DEF Step, AcquireIncr, AcquireSet, AcquireSelect, RenewGet,
         RenewSet, RenewUpdate, RenewSelect, ReleaseDel, ReleaseUpdate,
         CurrentEpochRedis, FencedWrite, store, SetStatus, RowType
  <2>4. ASSUME \/ \E c \in Caller : Call(c) \/ Fail(c) \/ Crash(c)
               \/ Tick
               \/ UNCHANGED vars
        PROVE  row' = row
    BY <2>4 DEF Call, AcquireGet, RenewCall, ReleaseGet, CurrentEpochDb,
       FenceDb, FenceLocal, Check, Fail, Crash, Tick, vars, store
  <2>5. QED
    BY <2>1, <2>2, <2>3, <2>4 DEF Next
<1>2. QED
  BY <1>1, FenceInvariance, PTL DEF Spec, RowEpochNeverGoesBack

(* Used one call at a time, it takes a failure for the check against MySQL *)
(* to let a write through that is older than one already made.             *)
THEOREM OnlyFailuresFoolTheFence ==
  ASSUME OneAtATime
  PROVE  Spec => []FaultlessFence
<1>1. FenceInv => FaultlessFence
  BY DEF FenceInv, NothingFailed, FaultlessFence, DbFenceBlocksStale
<1>2. QED
  BY <1>1, FenceInvariance, PTL
=============================================================================
