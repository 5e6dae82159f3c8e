------------------------------ MODULE Migrate ------------------------------
(***************************************************************************)
(* runMigrations of packages/db, run by the pods of one or more releases   *)
(* when they start.  A release is its migration files in the order of      *)
(* their names, a file its text and its line ends.  MySQL serves each pod  *)
(* on a connection of its own and drops the advisory lock with it.  The    *)
(* statements of a file commit as they are executed; all of them are       *)
(* CREATE TABLE IF NOT EXISTS, so that executing a file twice is no error. *)
(***************************************************************************)
EXTENDS Naturals, Sequences

CONSTANTS Pod, Nil,
          Deployment,     \* the releases: sequences of files
          MaxBreaks       \* bound: failed commands and pods that die

ASSUME MigrateAssumption ==
  /\ Nil \notin Pod
  /\ \A r \in Deployment : r \in Seq({r[i] : i \in DOMAIN r} \ {Nil})

VARIABLES
  files,     \* the release of each pod
  pod,       \* where a pod is: next is the file, ok how the run will end
  lockedBy,  \* the pod that holds bbx_migrations_lock
  ledger,    \* _migrations: the file recorded under each name
  ran,       \* how often a file of that name was executed to its end
  schema,    \* the texts that were
  faulted

migrateVars == <<files, pod, lockedBy, ledger, ran, schema, faulted>>

FileName == UNION {DOMAIN r : r \in Deployment}

MigrateInit ==
  /\ files \in [Pod -> Deployment]
  /\ pod = [p \in Pod |-> [at |-> "new", next |-> 1, ok |-> FALSE]]
  /\ lockedBy = Nil
  /\ ledger = [i \in FileName |-> Nil]
  /\ ran = [i \in FileName |-> 0] /\ schema = [i \in FileName |-> {}]
  /\ faulted = 0

-----------------------------------------------------------------------------

Go(p, at) == pod' = [pod EXCEPT ![p].at = at]

\* A first connection creates the database, a second one is to migrate.
Bootstrap(p) ==
  /\ pod[p].at = "new"
  /\ Go(p, "lock")
  /\ UNCHANGED <<files, lockedBy, ledger, ran, schema, faulted>>

\* Mutant: what GET_LOCK answers is not looked at.
LockUnchecked(p) ==
  /\ pod[p].at = "lock"
  /\ lockedBy' = IF lockedBy = Nil THEN p ELSE lockedBy
  /\ Go(p, "check")
  /\ UNCHANGED <<files, ledger, ran, schema, faulted>>

\* With the lock the ledger is created unless it is there.
GetLock(p) ==
  /\ pod[p].at = "lock" /\ lockedBy = Nil
  /\ lockedBy' = p
  /\ Go(p, "check")
  /\ UNCHANGED <<files, ledger, ran, schema, faulted>>

\* Ten seconds have passed.
LockTimeout(p) ==
  /\ pod[p].at = "lock" /\ lockedBy # Nil
  /\ Go(p, "failed")
  /\ UNCHANGED <<files, lockedBy, ledger, ran, schema, faulted>>

File(p) == files[p][pod[p].next]

\* Mutant: a file with a row is one that was applied.
MatchesAnything(row, file) == row # Nil
\* The checksum of a row is that of the file, of the file with LF or with CRLF.
Matches(row, file) == row.text = file.text /\ row.ends \in {file.ends, "lf", "crlf"}

CheckFile(p) ==
  /\ pod[p].at = "check" /\ pod[p].next <= Len(files[p])
  /\ LET row == ledger[pod[p].next] IN
     \/ row = Nil /\ Go(p, "apply")
     \/ row # Nil /\ Matches(row, File(p)) /\ pod' = [pod EXCEPT ![p].next = @ + 1]
     \/ row # Nil /\ ~Matches(row, File(p)) /\ Go(p, "release")
  /\ UNCHANGED <<files, lockedBy, ledger, ran, schema, faulted>>

Execute(p) ==
  /\ ran' = [ran EXCEPT ![pod[p].next] = @ + 1]
  /\ schema' = [schema EXCEPT ![pod[p].next] = @ \cup {File(p).text}]

ApplyFile(p) ==
  /\ pod[p].at = "apply"
  /\ Execute(p)
  /\ Go(p, "insert")
  /\ UNCHANGED <<files, lockedBy, ledger, faulted>>

\* Names are unique in the ledger.
InsertLedger(p) ==
  /\ pod[p].at = "insert" /\ ledger[pod[p].next] = Nil
  /\ ledger' = [ledger EXCEPT ![pod[p].next] = File(p)]
  /\ pod' = [pod EXCEPT ![p].at = "check", ![p].next = @ + 1]
  /\ UNCHANGED <<files, lockedBy, ran, schema, faulted>>

AllApplied(p) ==
  /\ pod[p].at = "check" /\ pod[p].next > Len(files[p])
  /\ pod' = [pod EXCEPT ![p].at = "release", ![p].ok = TRUE]
  /\ UNCHANGED <<files, lockedBy, ledger, ran, schema, faulted>>

Unlock(p) == lockedBy' = IF lockedBy = p THEN Nil ELSE lockedBy

\* The finally clause: a RELEASE_LOCK that fails is made up for by end().
ReleaseLock(p) ==
  /\ pod[p].at = "release"
  /\ Unlock(p)
  /\ Go(p, IF pod[p].ok THEN "done" ELSE "failed")
  /\ UNCHANGED <<files, ledger, ran, schema, faulted>>

Halfway(p) == \/ pod[p].at = "apply" /\ Execute(p)
              \/ UNCHANGED <<ran, schema>>

\* A command fails; a file's statements may have been executed, all or some.
Throw(p) ==
  /\ faulted < MaxBreaks /\ faulted' = faulted + 1
  /\ pod[p].at \in {"check", "apply", "insert"}
  /\ Halfway(p)
  /\ Go(p, "release")
  /\ UNCHANGED <<files, lockedBy, ledger>>

\* The process dies, or loses its connection and with it the lock.
PodDies(p) ==
  /\ faulted < MaxBreaks /\ faulted' = faulted + 1
  /\ pod[p].at \notin {"done", "failed"}
  /\ Halfway(p)
  /\ Unlock(p)
  /\ Go(p, "failed")
  /\ UNCHANGED <<files, ledger>>

\* A pod that has failed is started again.
Restart(p) ==
  /\ pod[p].at = "failed"
  /\ pod' = [pod EXCEPT ![p] = [at |-> "new", next |-> 1, ok |-> FALSE]]
  /\ UNCHANGED <<files, lockedBy, ledger, ran, schema, faulted>>

-----------------------------------------------------------------------------
MigrateNext == \E p \in Pod :
  \/ Bootstrap(p) \/ GetLock(p) \/ LockTimeout(p) \/ CheckFile(p) \/ ApplyFile(p)
  \/ InsertLedger(p) \/ AllApplied(p) \/ ReleaseLock(p)
  \/ Throw(p) \/ PodDies(p) \/ Restart(p)

MigrateSpec == MigrateInit /\ [][MigrateNext]_migrateVars

-----------------------------------------------------------------------------
(* Properties                                                              *)

\* A pod whose migrations are done finds a schema to which each of its own files
\* was applied, whatever the pods of other releases, crashes and restarts have
\* done before or meanwhile.
DoneIsMigrated ==
  \A p \in Pod : pod[p].at = "done" =>
    \A i \in DOMAIN files[p] :
      /\ ledger[i] # Nil /\ ledger[i].text = files[p][i].text
      /\ files[p][i].text \in schema[i]

\* Pods that start together apply a migration once, and after those before it are
\* recorded; each time more takes a failure between a migration and its record.
AppliedOnceInOrder ==
  \A i \in FileName :
    /\ ran[i] <= 1 + faulted
    /\ ran[i] > 0 => \A j \in FileName : j < i => ledger[j] # Nil
=============================================================================
