------------------------ MODULE ConsumerProofs ------------------------------
(***************************************************************************)
(* Theorems about the consumers of the two topics and about what is added  *)
(* up: the inbox, for every finite set of events and calls and every bound *)
(* on failures; load workers, the commands they obey and their results,    *)
(* for any workers and runs and any order of commands; and the metrics     *)
(* registry, for any labels, buckets and values.                           *)
(***************************************************************************)
EXTENDS Inbox, LoadRuns, Metrics, FiniteSetTheorems, SequenceTheorems, WellFoundedInduction, TLAPS

-----------------------------------------------------------------------------
(* THE INBOX                                                               *)

-----------------------------------------------------------------------------
(* Type correctness.                                                       *)

\* ITypeOK is inductive.
LEMMA InboxTypeStep ==
  ASSUME ITypeOK, [INext]_ivars
  PROVE  ITypeOK'
<1>1. ASSUME NEW c \in Call, NEW e \in Message, Consume(c, e)
      PROVE  ITypeOK'
  BY <1>1 DEF Consume, ITypeOK
<1>2. ASSUME NEW c \in Call, NEW e \in Message, Skip(c, e)
      PROVE  ITypeOK'
  BY <1>2 DEF Skip, ITypeOK
<1>3. ASSUME NEW c \in Call, Handle(c) PROVE ITypeOK'
  BY <1>3 DEF Handle, ITypeOK
<1>4. ASSUME NEW c \in Call, Record(c) PROVE ITypeOK'
  BY <1>4 DEF Record, ITypeOK
<1>5. ASSUME NEW c \in Call, Duplicate(c) PROVE ITypeOK'
  BY <1>5 DEF Duplicate, ITypeOK
<1>6. ASSUME NEW c \in Call, Break(c) PROVE ITypeOK'
  BY <1>6 DEF Break, ITypeOK
<1>7. ASSUME NEW c \in Call, RecordUnacked(c) PROVE ITypeOK'
  BY <1>7 DEF RecordUnacked, ITypeOK
<1>8. CASE UNCHANGED ivars
  BY <1>8 DEF ivars, ITypeOK
<1>9. QED
  BY <1>1, <1>2, <1>3, <1>4, <1>5, <1>6, <1>7, <1>8 DEF INext, Step

\* Every reachable state of the inbox is well typed.
THEOREM InboxTypeCorrect == ISpec => []ITypeOK
<1>1. IInit => ITypeOK
  BY DEF IInit, ITypeOK
<1>2. ITypeOK /\ [INext]_ivars => ITypeOK'
  BY InboxTypeStep
<1>3. QED
  BY <1>1, <1>2, PTL DEF ISpec

-----------------------------------------------------------------------------
(* Answers.                                                                *)

\* `processed: true' is answered at most once per event: the unique key lets one
\* INSERT of the overlapping calls succeed.
THEOREM ProcessedAtMostOnce == ISpec => []ProcessedOnce
<1>1. IInit => ITypeOK /\ ProcessedOnce
  BY DEF IInit, ITypeOK, ProcessedOnce
<1>2. ASSUME ITypeOK, ProcessedOnce, [INext]_ivars
      PROVE  ProcessedOnce'
  <2>1. ASSUME NEW c \in Call, Record(c) PROVE ProcessedOnce'
    <3>1. event[c] \in Message /\ processed[event[c]] = 0
      BY <1>2, <2>1 DEF Record, ProcessedOnce, ITypeOK
    <3>2. /\ processed' = [processed EXCEPT ![event[c]] = 1]
          /\ row' = row \cup {event[c]}
      BY <1>2, <2>1, <3>1 DEF Record, ITypeOK
    <3>3. QED
      BY <1>2, <3>1, <3>2 DEF ProcessedOnce, ITypeOK
  <2>2. CASE processed' = processed /\ row \subseteq row'
    BY <1>2, <2>2 DEF ProcessedOnce
  <2>3. QED
    BY <1>2, <2>1, <2>2 DEF INext, ivars, Consume, Skip, Step, Handle,
                            Duplicate, Break, RecordUnacked
<1>3. QED
  BY <1>1, <1>2, InboxTypeStep, PTL DEF ISpec

\* AnsweredIsDone, made inductive: a call that stands at its INSERT has run the
\* handler.
Done ==
  /\ AnsweredIsDone
  /\ \A c \in Call : at[c] = "insert" => ran[event[c]] >= 1

\* Done is inductive.
LEMMA DoneStep ==
  ASSUME ITypeOK, Done, [INext]_ivars
  PROVE  Done'
<1>1. ASSUME NEW c \in Call, NEW e \in Message, Consume(c, e) PROVE Done'
  BY <1>1 DEF Consume, Done, AnsweredIsDone, ITypeOK
<1>2. ASSUME NEW c \in Call, NEW e \in Message, Skip(c, e) PROVE Done'
  BY <1>2 DEF Skip, Done, AnsweredIsDone, ITypeOK
<1>3. ASSUME NEW c \in Call, Handle(c) PROVE Done'
  <2>1. event[c] \in Message /\ ran[event[c]] \in Nat
    BY DEF ITypeOK
  <2>2. /\ \A e \in Message : ran'[e] >= ran[e] /\ ran'[e] \in Nat /\ ran[e] \in Nat
        /\ ran'[event[c]] >= 1
    BY <1>3, <2>1 DEF Handle, ITypeOK
  <2>3. ASSUME NEW d \in Call, at'[d] = "insert" PROVE ran'[event[d]] >= 1
    BY <1>3, <2>2, <2>3 DEF Handle, Done, ITypeOK
  <2>4. ASSUME NEW e \in row PROVE ran'[e] >= 1
    BY <2>2, <2>4 DEF Done, AnsweredIsDone, ITypeOK
  <2>5. QED
    BY <1>3, <2>3, <2>4 DEF Handle, Done, AnsweredIsDone
<1>4. ASSUME NEW c \in Call, Record(c) \/ RecordUnacked(c) PROVE Done'
  BY <1>4 DEF Record, RecordUnacked, Done, AnsweredIsDone, ITypeOK
<1>5. ASSUME NEW c \in Call, Duplicate(c) \/ Break(c) PROVE Done'
  BY <1>5 DEF Duplicate, Break, Done, AnsweredIsDone, ITypeOK
<1>6. CASE UNCHANGED ivars
  BY <1>6 DEF ivars, Done, AnsweredIsDone
<1>7. QED
  BY <1>1, <1>2, <1>3, <1>4, <1>5, <1>6 DEF INext, Step

\* Whoever is answered may forget the message: its handler has run and its row is
\* stored.
THEOREM AnswersComeAfterEffects == ISpec => []AnsweredIsDone
<1>1. IInit => ITypeOK /\ Done
  BY DEF IInit, ITypeOK, Done, AnsweredIsDone
<1>2. ITypeOK /\ Done /\ [INext]_ivars => ITypeOK' /\ Done'
  BY InboxTypeStep, DoneStep
<1>3. Done => AnsweredIsDone
  BY DEF Done
<1>4. QED
  BY <1>1, <1>2, <1>3, PTL DEF ISpec

-----------------------------------------------------------------------------
(* Runs of the handler.                                                    *)

Doing(s, e) == {c \in Call : at[c] = s /\ event[c] = e}
Handling(e)  == Cardinality(Doing("handle", e))
Inserting(e) == Cardinality(Doing("insert", e))

\* BoundedRuns, made inductive.  Before an event has its row each run is that of
\* a call on its way to the INSERT, or was cut off by a failure; afterwards only
\* the calls that had begun can still add runs.
RunsOf(e) ==
  IF e \in row
    THEN ran[e] + Handling(e) <= Cardinality(Call) + failures
    ELSE ran[e] <= Inserting(e) + failures

\* All these numbers are natural numbers.
LEMMA Numbers ==
  ASSUME ITypeOK, NEW e \in Message
  PROVE  /\ Handling(e) \in Nat /\ Inserting(e) \in Nat
         /\ Cardinality(Call) \in Nat
         /\ ran[e] \in Nat /\ failures \in Nat
         /\ Inserting(e) + Handling(e) <= Cardinality(Call)
<1> DEFINE A == Doing("insert", e)
           B == Doing("handle", e)
<1>1. /\ A \in SUBSET Call /\ B \in SUBSET Call
      /\ A \cap B = {}
      /\ A \cup B \in SUBSET Call
  BY DEF Doing
<1> HIDE DEF A, B
<1>2. IsFiniteSet(Call) /\ IsFiniteSet(A) /\ IsFiniteSet(B)
  BY <1>1, FS_Subset, InboxAssumption
<1>3. /\ Cardinality(A) \in Nat /\ Cardinality(B) \in Nat
      /\ Cardinality(Call) \in Nat
  BY <1>2, FS_CardinalityType
<1>4. Cardinality(A \cap B) = 0
  BY <1>1, FS_EmptySet
<1>5. Cardinality(A \cup B) = Cardinality(A) + Cardinality(B)
  <2>1. Cardinality(A \cup B)
          = Cardinality(A) + Cardinality(B) - Cardinality(A \cap B)
    BY <1>2, FS_Union
  <2>2. QED
    BY <1>3, <1>4, <2>1
<1>6. Cardinality(A \cup B) <= Cardinality(Call)
  BY <1>1, <1>2, FS_Subset
<1>7. Cardinality(A) + Cardinality(B) <= Cardinality(Call)
  BY <1>5, <1>6
<1>8. Handling(e) = Cardinality(B) /\ Inserting(e) = Cardinality(A)
  BY DEF Handling, Inserting, A, B
<1>9. ran[e] \in Nat /\ failures \in Nat
  BY DEF ITypeOK
<1>10. QED
  BY <1>3, <1>7, <1>8, <1>9

\* A call that joins or leaves a group of calls changes its number by one.
LEMMA JoinLeave ==
  ASSUME ITypeOK, NEW s \in {"handle", "insert"}, NEW e \in Message, NEW c \in Call
  PROVE  /\ Cardinality(Doing(s, e) \ {c}) =
              IF c \in Doing(s, e) THEN Cardinality(Doing(s, e)) - 1
                                   ELSE Cardinality(Doing(s, e))
         /\ Cardinality(Doing(s, e) \cup {c}) =
              IF c \in Doing(s, e) THEN Cardinality(Doing(s, e))
                                   ELSE Cardinality(Doing(s, e)) + 1
<1>1. Doing(s, e) \in SUBSET Call
  BY DEF Doing
<1>2. IsFiniteSet(Doing(s, e))
  BY <1>1, FS_Subset, InboxAssumption
<1>3. QED
  BY <1>2, FS_AddElement, FS_RemoveElement

\* A call that begins to handle one event touches no other event.
LEMMA ConsumeRuns ==
  ASSUME ITypeOK, NEW e \in Message, RunsOf(e),
         NEW c \in Call, NEW f \in Message, Consume(c, f)
  PROVE  RunsOf(e)'
<1>1. UNCHANGED <<row, ran, failures>> /\ f \notin row
  BY DEF Consume
<1>2. Doing("insert", e)' = Doing("insert", e)
  BY DEF Doing, Consume, ITypeOK
<1>3. e # f => Doing("handle", e)' = Doing("handle", e)
  BY DEF Doing, Consume, ITypeOK
<1>4. QED
  BY <1>1, <1>2, <1>3 DEF RunsOf, Handling, Inserting

\* The handler's run moves its call from the one group to the other.
LEMMA HandleRuns ==
  ASSUME ITypeOK, NEW e \in Message, RunsOf(e), NEW c \in Call, Handle(c)
  PROVE  RunsOf(e)'
<1>1. UNCHANGED <<row, failures>>
  BY DEF Handle
<1>2. CASE event[c] # e
  <2>1. ran'[e] = ran[e]
    BY <1>2 DEF Handle, ITypeOK
  <2>2. /\ Doing("insert", e)' = Doing("insert", e)
        /\ Doing("handle", e)' = Doing("handle", e)
    BY <1>2 DEF Doing, Handle, ITypeOK
  <2>3. QED
    BY <1>1, <2>1, <2>2 DEF RunsOf, Handling, Inserting
<1>3. CASE event[c] = e
  <2>1. ran'[e] = ran[e] + 1
    BY <1>3 DEF Handle, ITypeOK
  <2>2. /\ Doing("insert", e)' = Doing("insert", e) \cup {c}
        /\ Doing("handle", e)' = Doing("handle", e) \ {c}
    BY <1>3 DEF Doing, Handle, ITypeOK
  <2>3. c \in Doing("handle", e) /\ c \notin Doing("insert", e)
    BY <1>3 DEF Doing, Handle
  <2>4. /\ Inserting(e)' = Inserting(e) + 1
        /\ Handling(e)' = Handling(e) - 1
    BY <2>2, <2>3, JoinLeave DEF Handling, Inserting
  <2>5. QED
    BY <1>1, <2>1, <2>4, Numbers DEF RunsOf
<1>4. QED
  BY <1>2, <1>3

\* The INSERT turns the first bound into the second.
LEMMA RecordRuns ==
  ASSUME ITypeOK, NEW e \in Message, RunsOf(e), NEW c \in Call,
         Record(c) \/ RecordUnacked(c)
  PROVE  RunsOf(e)'
<1>1. /\ ran' = ran
      /\ row' = row \cup {event[c]}
      /\ event[c] \notin row
      /\ failures' \in {failures, failures + 1}
  BY DEF Record, RecordUnacked
<1>2. Doing("handle", e)' = Doing("handle", e)
  BY DEF Doing, Record, RecordUnacked, ITypeOK
<1>3. Handling(e)' = Handling(e)
  BY <1>2 DEF Handling
<1>4. CASE event[c] # e
  <2>1. Doing("insert", e)' = Doing("insert", e)
    BY <1>4 DEF Doing, Record, RecordUnacked, ITypeOK
  <2>2. QED
    BY <1>1, <1>3, <1>4, <2>1, Numbers DEF RunsOf, Inserting
<1>5. CASE event[c] = e
  BY <1>1, <1>3, <1>5, Numbers DEF RunsOf
<1>6. QED
  BY <1>4, <1>5

\* A call that is cut off counts as a failure from then on.
LEMMA BreakRuns ==
  ASSUME ITypeOK, NEW e \in Message, RunsOf(e), NEW c \in Call, Break(c)
  PROVE  RunsOf(e)'
<1>1. UNCHANGED <<row, ran>> /\ failures' = failures + 1
  BY DEF Break
<1>2. /\ Doing("insert", e)' = Doing("insert", e) \ {c}
      /\ Doing("handle", e)' = Doing("handle", e) \ {c}
  BY DEF Doing, Break, ITypeOK
<1>3. /\ Inserting(e)' >= Inserting(e) - 1
      /\ Handling(e)' <= Handling(e)
      /\ Inserting(e)' \in Int /\ Handling(e)' \in Int
  BY <1>2, JoinLeave, Numbers DEF Handling, Inserting
<1>4. QED
  BY <1>1, <1>3, Numbers DEF RunsOf

\* A call that meets the row of another one leaves, and the bound stands.
LEMMA DuplicateRuns ==
  ASSUME ITypeOK, NEW e \in Message, RunsOf(e), NEW c \in Call, Duplicate(c)
  PROVE  RunsOf(e)'
<1>1. UNCHANGED <<row, ran, failures>> /\ event[c] \in row
  BY DEF Duplicate
<1>2. Doing("handle", e)' = Doing("handle", e)
  BY DEF Doing, Duplicate, ITypeOK
<1>3. event[c] # e => Doing("insert", e)' = Doing("insert", e)
  BY DEF Doing, Duplicate, ITypeOK
<1>4. QED
  BY <1>1, <1>2, <1>3 DEF RunsOf, Handling, Inserting

\* Each run of a handler beyond the first has its own cause: with n calls that
\* may overlap and f failures the handler of an event runs at most n + f times.
THEOREM RunsAreBounded == ISpec => []BoundedRuns
<1> DEFINE Runs == \A e \in Message : RunsOf(e)
<1>1. ASSUME IInit PROVE ITypeOK /\ Runs
  <2>1. ITypeOK
    BY <1>1 DEF IInit, ITypeOK
  <2>2. QED
    BY <1>1, <2>1, Numbers DEF IInit, RunsOf
<1>2. ASSUME ITypeOK, Runs, [INext]_ivars PROVE Runs'
  <2>1. SUFFICES ASSUME NEW e \in Message PROVE RunsOf(e)'
    OBVIOUS
  <2>2. RunsOf(e)
    BY <1>2
  <2>3. ASSUME NEW c \in Call, NEW f \in Message, Skip(c, f) PROVE RunsOf(e)'
    BY <2>2, <2>3 DEF Skip, RunsOf, Handling, Inserting, Doing
  <2>4. CASE UNCHANGED ivars
    BY <2>2, <2>4 DEF ivars, RunsOf, Handling, Inserting, Doing
  <2>5. QED
    BY <1>2, <2>2, <2>3, <2>4, ConsumeRuns, HandleRuns, RecordRuns, BreakRuns,
       DuplicateRuns DEF INext, Step
<1>3. ITypeOK /\ Runs => BoundedRuns
  BY Numbers DEF RunsOf, BoundedRuns
<1>4. QED
  BY <1>1, <1>2, <1>3, InboxTypeStep, PTL DEF ISpec

-----------------------------------------------------------------------------
(* LOAD WORKERS                                                            *)

-----------------------------------------------------------------------------
(* Types.                                                                  *)

Process == [at : {"new", "up", "stopping", "off", "dead"}, status : {"IDLE", "BUSY"},
            run : Run \cup {None}, stop : BOOLEAN, twice : BOOLEAN]
Progress == [at : {"none", "on", "final", "over", "lost"}, made : Nat,
             sent : Nat \cup {None}, gone : BOOLEAN]
Command == [type : {"START_LOAD", "STOP_LOAD"}, workers : SUBSET Worker]

LoadTypeOK ==
  /\ proc \in [Worker -> Process]
  /\ load \in [Worker -> [Run -> Progress]]
  /\ commands \in [Run -> Seq(Command)]
  /\ pos \in [Worker -> [Run -> Nat]]

-----------------------------------------------------------------------------
(* The invariant.                                                          *)

\* A run is started once, and stopped at most once, after that.
Ordered ==
  \A r \in Run :
    /\ Len(commands[r]) <= 2
    /\ Len(commands[r]) >= 1 => commands[r][1].type = "START_LOAD"
    /\ Len(commands[r]) >= 2 => commands[r][2].type = "STOP_LOAD"
    /\ \A w \in Worker : pos[w][r] <= Len(commands[r])

\* A worker has no load before it has started, and while it has not taken two at
\* once its fields are about the one it has.
Loaded(w) ==
  /\ proc[w].at = "new" => Loads(w) = {}
  /\ ~proc[w].twice =>
       /\ proc[w].status = (IF Loads(w) = {} THEN "IDLE" ELSE "BUSY")
       /\ \A r \in Loads(w) : proc[w].run = r /\ (pos[w][r] = 2 => proc[w].stop)

LoadInv == LoadTypeOK /\ Ordered /\ \A w \in Worker : Loaded(w)

-----------------------------------------------------------------------------
(* Steps.                                                                  *)

LEMMA LoadInitInv == ASSUME LInit PROVE LoadInv
<1>1. LoadTypeOK
  BY DEF LInit, LoadTypeOK, NewProc, NewLoad, Process, Progress, Command
<1>2. Ordered
  BY DEF LInit, Ordered
<1>3. ASSUME NEW w \in Worker PROVE Loaded(w)
  <2>1. Loads(w) = {}
    BY DEF LInit, NewLoad, Loads
  <2>2. QED
    BY <2>1 DEF LInit, NewProc, Loaded
<1>4. QED
  BY <1>1, <1>2, <1>3 DEF LoadInv

\* A worker whose fields, loads and place in the commands are as before.
LEMMA SameLoaded ==
  ASSUME NEW w \in Worker, Loaded(w), proc'[w] = proc[w], load'[w] = load[w],
         pos'[w] = pos[w]
  PROVE  Loaded(w)'
<1>1. Loads(w)' = Loads(w)
  BY DEF Loads
<1>2. QED
  BY <1>1 DEF Loaded

\* The second element.
LEMMA AppendedSecond ==
  ASSUME NEW S, NEW s \in Seq(S), NEW e \in S, Len(s) = 1
  PROVE  s # << >> /\ Append(s, e)[1] = s[1] /\ Append(s, e)[2] = e
<1>1. s # << >>
  OBVIOUS
<1>2. Append(s, e)[1] = s[1] /\ Append(s, e)[Len(s) + 1] = e
  BY AppendProperties
<1>3. QED
  BY <1>1, <1>2

\* The orchestrator appends the only commands there are.
LEMMA CommandInv ==
  ASSUME LoadInv, NEW r \in Run, StartRun(r) \/ StopRun(r) PROVE LoadInv'
<1> USE DEF LoadInv, LoadTypeOK
<1>1. UNCHANGED <<proc, load, pos>>
  BY DEF StartRun, StopRun
<1>2. PICK command \in Command :
        /\ commands' = [commands EXCEPT ![r] = Append(@, command)]
        /\ \/ commands[r] = << >> /\ command.type = "START_LOAD"
           \/ Len(commands[r]) = 1 /\ command.type = "STOP_LOAD"
  <2>1. CASE StartRun(r)
    <3>1. PICK workers \in SUBSET Worker :
            SendCommand(r, [type |-> "START_LOAD", workers |-> workers])
      BY <2>1 DEF StartRun
    <3>2. [type |-> "START_LOAD", workers |-> workers] \in Command
      BY DEF Command
    <3>3. QED
      BY <2>1, <3>1, <3>2 DEF StartRun, SendCommand
  <2>2. CASE StopRun(r)
    <3>1. [type |-> "STOP_LOAD", workers |-> {}] \in Command
      BY DEF Command
    <3>2. QED
      BY <2>2, <3>1 DEF StopRun, SendCommand
  <2>3. QED
    BY <2>1, <2>2
<1>3. commands[r] \in Seq(Command) /\ Len(commands[r]) \in {0, 1}
  BY <1>2
<1>4. /\ commands'[r] = Append(commands[r], command)
      /\ \A q \in Run \ {r} : commands'[q] = commands[q]
      /\ commands' \in [Run -> Seq(Command)]
  BY <1>2, <1>3
<1>5. Ordered'
  <2> SUFFICES ASSUME NEW q \in Run
               PROVE  /\ Len(commands'[q]) <= 2
                      /\ Len(commands'[q]) >= 1 => commands'[q][1].type = "START_LOAD"
                      /\ Len(commands'[q]) >= 2 => commands'[q][2].type = "STOP_LOAD"
                      /\ \A w \in Worker : pos[w][q] <= Len(commands'[q])
    BY <1>1 DEF Ordered
  <2>1. CASE q # r
    BY <1>4, <2>1 DEF Ordered
  <2>2. CASE q = r
    <3>1. Len(commands'[r]) = Len(commands[r]) + 1
      BY <1>3, <1>4
    <3>2. \A w \in Worker : pos[w][r] <= Len(commands'[r])
      BY <1>3, <3>1 DEF Ordered
    <3>3. CASE Len(commands[r]) = 0
      <4>1. commands'[r][1] = command /\ command.type = "START_LOAD"
        BY <1>2, <1>3, <1>4, <3>3
      <4>2. QED
        BY <2>2, <3>1, <3>2, <3>3, <4>1
    <3>4. CASE Len(commands[r]) = 1
      <4>1. /\ commands'[r][1] = commands[r][1] /\ commands'[r][2] = command
            /\ command.type = "STOP_LOAD"
        BY <1>2, <1>3, <1>4, <3>4, AppendedSecond
      <4>2. commands[r][1].type = "START_LOAD" /\ Len(commands'[r]) = 2
        BY <3>1, <3>4 DEF Ordered
      <4>3. QED
        BY <2>2, <3>2, <4>1, <4>2
    <3>5. QED
      BY <1>3, <3>3, <3>4
  <2>3. QED
    BY <2>1, <2>2
<1>6. \A w \in Worker : Loaded(w)'
  BY <1>1, SameLoaded
<1>7. QED
  BY <1>1, <1>4, <1>5, <1>6

\* A step of one worker that keeps its place in the commands.
LEMMA OneWorker ==
  ASSUME LoadInv, NEW w \in Worker, NEW p \in Process, NEW l \in [Run -> Progress],
         proc' = [proc EXCEPT ![w] = p], load' = [load EXCEPT ![w] = l],
         UNCHANGED <<commands, pos>>,
         Loaded(w)'
  PROVE  LoadInv'
<1>1. LoadTypeOK'
  BY DEF LoadInv, LoadTypeOK
<1>2. Ordered'
  BY DEF LoadInv, Ordered
<1>3. ASSUME NEW v \in Worker, v # w PROVE Loaded(v)'
  <2>1. proc'[v] = proc[v] /\ load'[v] = load[v] /\ pos'[v] = pos[v] /\ Loaded(v)
    BY <1>3 DEF LoadInv, LoadTypeOK
  <2>2. QED
    BY <2>1, SameLoaded
<1>4. QED
  BY <1>1, <1>2, <1>3 DEF LoadInv

\* Starting a worker: it has no load yet, wherever it begins to read.
LEMMA StartInv ==
  ASSUME LoadInv, NEW w \in Worker, Start(w) PROVE LoadInv'
<1> DEFINE p == [proc[w] EXCEPT !.at = "up"]
<1>1. LoadTypeOK /\ Loaded(w) /\ proc[w] \in Process /\ proc[w].at = "new"
  BY DEF LoadInv, LoadTypeOK, Start, Phase
<1>2. /\ p \in Process /\ p.at = "up" /\ p.status = proc[w].status
      /\ p.twice = proc[w].twice
  BY <1>1 DEF Process
<1>3. /\ proc' = [proc EXCEPT ![w] = p] /\ UNCHANGED <<load, commands>>
      /\ pos' = [pos EXCEPT ![w] = [r \in Run |-> Len(commands[r])]]
  BY <1>1 DEF Start, Phase, LoadTypeOK
<1> HIDE DEF p
<1>4. \A r \in Run : Len(commands[r]) \in Nat
  BY <1>1 DEF LoadTypeOK
<1>5. LoadTypeOK'
  BY <1>1, <1>2, <1>3, <1>4 DEF LoadTypeOK
<1>6. Ordered'
  <2>1. \A v \in Worker, r \in Run : pos'[v][r] <= Len(commands[r])
    BY <1>1, <1>3, <1>4 DEF LoadInv, LoadTypeOK, Ordered
  <2>2. QED
    BY <1>3, <2>1 DEF LoadInv, Ordered
<1>7. Loaded(w)'
  <2>1. Loads(w) = {} /\ Loads(w)' = {}
    BY <1>1, <1>3 DEF Loaded, Loads
  <2>2. proc'[w] = p
    BY <1>1, <1>3 DEF LoadTypeOK
  <2>3. QED
    BY <1>1, <1>2, <2>1, <2>2 DEF Loaded
<1>8. ASSUME NEW v \in Worker, v # w PROVE Loaded(v)'
  <2>1. proc'[v] = proc[v] /\ load'[v] = load[v] /\ pos'[v] = pos[v] /\ Loaded(v)
    BY <1>1, <1>3, <1>8 DEF LoadInv, LoadTypeOK
  <2>2. QED
    BY <2>1, SameLoaded
<1>9. QED
  BY <1>5, <1>6, <1>7, <1>8 DEF LoadInv

\* Leaving and asking to stop change neither the loads nor what is said of them.
LEMMA LeaveInv ==
  ASSUME LoadInv, NEW w \in Worker, StopWorker(w) \/ Quit(w) PROVE LoadInv'
<1>1. LoadTypeOK /\ Loaded(w) /\ proc[w] \in Process
  BY DEF LoadInv, LoadTypeOK
<1>2. UNCHANGED <<load, commands, pos>>
  BY DEF StopWorker, Quit
<1>3. PICK p \in Process :
        /\ proc' = [proc EXCEPT ![w] = p]
        /\ p.at # "new" /\ p.status = proc[w].status /\ p.run = proc[w].run
        /\ p.twice = proc[w].twice /\ (proc[w].stop => p.stop)
  <2>1. CASE StopWorker(w)
    <3> DEFINE half == [proc[w] EXCEPT !.at = "stopping"]
               p == [half EXCEPT !.stop = TRUE]
    <3>1. /\ half \in Process /\ half.at = "stopping" /\ half.status = proc[w].status
          /\ half.run = proc[w].run /\ half.twice = proc[w].twice
      BY <1>1 DEF Process
    <3>2. proc' = [proc EXCEPT ![w] = p]
      BY <1>1, <2>1 DEF StopWorker, LoadTypeOK
    <3> HIDE DEF half
    <3>3. /\ p \in Process /\ p.at = "stopping" /\ p.status = proc[w].status
          /\ p.run = proc[w].run /\ p.twice = proc[w].twice /\ p.stop = TRUE
      BY <3>1 DEF Process
    <3>4. QED
      BY <3>2, <3>3
  <2>2. CASE Quit(w)
    <3> DEFINE p == [proc[w] EXCEPT !.at = "off"]
    <3>1. /\ p \in Process /\ p.at = "off" /\ p.status = proc[w].status
          /\ p.run = proc[w].run /\ p.twice = proc[w].twice /\ p.stop = proc[w].stop
      BY <1>1 DEF Process
    <3>2. proc' = [proc EXCEPT ![w] = p]
      BY <1>1, <2>2 DEF Quit, Phase, LoadTypeOK
    <3>3. QED
      BY <3>1, <3>2
  <2>3. QED
    BY <2>1, <2>2
<1>4. proc'[w] = p
  BY <1>1, <1>3 DEF LoadTypeOK
<1>5. Loads(w)' = Loads(w)
  BY <1>2 DEF Loads
<1>6. Loaded(w)'
  BY <1>1, <1>2, <1>3, <1>4, <1>5 DEF Loaded
<1>7. load' = [load EXCEPT ![w] = load[w]] /\ load[w] \in [Run -> Progress]
  BY <1>1, <1>2 DEF LoadTypeOK
<1>8. QED
  BY <1>2, <1>3, <1>6, <1>7, OneWorker

\* A process that dies takes its loads with it.
LEMMA CrashInv ==
  ASSUME LoadInv, NEW w \in Worker, Crash(w) PROVE LoadInv'
<1> DEFINE p == [NewProc EXCEPT !.at = "dead"]
           l == [r \in Run |-> IF r \in Loads(w) THEN [load[w][r] EXCEPT !.at = "lost"]
                                                 ELSE load[w][r]]
<1>1. LoadTypeOK
  BY DEF LoadInv
<1>2. p \in Process /\ p.at = "dead" /\ p.status = "IDLE"
  BY DEF NewProc, Process
<1>3. ASSUME NEW r \in Run
      PROVE  /\ [load[w][r] EXCEPT !.at = "lost"] \in Progress
             /\ [load[w][r] EXCEPT !.at = "lost"].at = "lost"
  <2>1. load[w][r] \in Progress
    BY <1>1 DEF LoadTypeOK
  <2>2. QED
    BY <2>1 DEF Progress
<1>4. l \in [Run -> Progress] /\ \A r \in Run : l[r].at \notin {"on", "final"}
  BY <1>1, <1>3 DEF LoadTypeOK, Loads
<1>5. UNCHANGED <<commands, pos>> /\ proc' = [proc EXCEPT ![w] = p]
      /\ load' = [load EXCEPT ![w] = l]
  BY <1>1 DEF Crash, LoadTypeOK
<1>6. proc'[w] = p /\ load'[w] = l
  BY <1>1, <1>5 DEF LoadTypeOK
<1> HIDE DEF p, l
<1>7. Loads(w)' = {}
  BY <1>4, <1>6 DEF Loads
<1>8. Loaded(w)'
  BY <1>2, <1>6, <1>7 DEF Loaded
<1>9. QED
  BY <1>2, <1>4, <1>5, <1>8, OneWorker

-----------------------------------------------------------------------------
(* Loads.                                                                  *)

\* A load that goes on, or is as far as it was, with other counts.
LEMMA GoesOn ==
  ASSUME LoadInv, NEW w \in Worker, NEW r \in Run, NEW new \in Progress,
         load[w][r].at \in {"on", "final"} <=> new.at \in {"on", "final"},
         Change(w, r, new), UNCHANGED proc
  PROVE  LoadInv'
<1>1. LoadTypeOK /\ Loaded(w)
  BY DEF LoadInv
<1> DEFINE l == [load[w] EXCEPT ![r] = new]
<1>2. /\ l \in [Run -> Progress] /\ load' = [load EXCEPT ![w] = l] /\ load'[w] = l
      /\ UNCHANGED <<commands, pos>>
  BY <1>1 DEF Change, LoadTypeOK
<1>3. Loads(w)' = Loads(w)
  BY <1>1, <1>2 DEF Loads, LoadTypeOK
<1>4. Loaded(w)'
  BY <1>1, <1>2, <1>3 DEF Loaded
<1>5. proc' = [proc EXCEPT ![w] = proc[w]] /\ proc[w] \in Process
  BY <1>1 DEF LoadTypeOK
<1>6. QED
  BY <1>2, <1>4, <1>5, OneWorker

\* A load that ends leaves its worker idle; it was the only one, unless two were
\* taken at once.
LEMMA Ends ==
  ASSUME LoadInv, NEW w \in Worker, NEW r \in Run, NEW new \in Progress,
         load[w][r].at \in {"on", "final"}, new.at \in {"over", "lost"},
         Change(w, r, new), proc' = [proc EXCEPT ![w] = BecomeIdle(@)]
  PROVE  LoadInv'
<1>1. LoadTypeOK /\ Loaded(w) /\ proc[w] \in Process
  BY DEF LoadInv, LoadTypeOK
<1> DEFINE l == [load[w] EXCEPT ![r] = new]
           p == BecomeIdle(proc[w])
<1>2. /\ l \in [Run -> Progress] /\ load' = [load EXCEPT ![w] = l] /\ load'[w] = l
      /\ UNCHANGED <<commands, pos>>
  BY <1>1 DEF Change, LoadTypeOK
<1>3. /\ p \in Process /\ p.at = proc[w].at /\ p.status = "IDLE"
      /\ p.twice = proc[w].twice
  <2> DEFINE half == [proc[w] EXCEPT !.status = "IDLE"]
  <2>1. /\ half \in Process /\ half.at = proc[w].at /\ half.status = "IDLE"
        /\ half.twice = proc[w].twice
    BY <1>1 DEF Process
  <2>2. p = [half EXCEPT !.run = None]
    BY DEF BecomeIdle
  <2> HIDE DEF half, p
  <2>3. QED
    BY <2>1, <2>2 DEF Process
<1>4. proc' = [proc EXCEPT ![w] = p] /\ proc'[w] = p
  BY <1>1 DEF LoadTypeOK
<1>5. r \in Loads(w) /\ Loads(w)' = Loads(w) \ {r}
  BY <1>1, <1>2 DEF Loads, LoadTypeOK
<1>6. ~proc[w].twice => Loads(w)' = {}
  <2> SUFFICES ASSUME ~proc[w].twice, NEW q \in Loads(w), q # r PROVE FALSE
    BY <1>5
  <2>1. proc[w].run = q /\ proc[w].run = r
    BY <1>1, <1>5 DEF Loaded
  <2>2. QED
    BY <2>1
<1> HIDE DEF p
<1>7. Loaded(w)'
  <2>1. proc[w].at # "new"
    BY <1>1, <1>5 DEF Loaded
  <2>2. QED
    BY <1>3, <1>4, <1>6, <2>1 DEF Loaded
<1>8. QED
  BY <1>2, <1>3, <1>4, <1>7, OneWorker

LEMMA ExpiryInv ==
  ASSUME LoadInv, NEW w \in Worker, NEW r \in Run, Expire(w, r) PROVE LoadInv'
<1> DEFINE l == load[w][r]
           half == [l EXCEPT !.sent = None]
           new == [half EXCEPT !.gone = TRUE]
<1>1. l \in Progress
  BY DEF LoadInv, LoadTypeOK
<1>2. half \in Progress /\ half.at = l.at
  BY <1>1 DEF Progress
<1>3. Change(w, r, new) /\ UNCHANGED proc
  BY DEF Expire
<1> HIDE DEF half
<1>4. new \in Progress /\ new.at = l.at
  BY <1>2 DEF Progress
<1>5. QED
  BY <1>3, <1>4, GoesOn

LEMMA ExecutionInv ==
  ASSUME LoadInv, NEW w \in Worker, NEW r \in Run,
         MakeRequest(w, r) \/ Publish(w, r) \/ Execution(w, r)
  PROVE  LoadInv'
<1> DEFINE l == load[w][r]
<1>1. l \in Progress /\ l.made \in Nat
  BY DEF LoadInv, LoadTypeOK, Progress
<1>2. CASE MakeRequest(w, r)
  <2>1. [l EXCEPT !.made = @ + 1] \in Progress /\ [l EXCEPT !.made = @ + 1].at = l.at
    BY <1>1 DEF Progress
  <2>2. QED
    BY <1>2, <2>1, GoesOn DEF MakeRequest
<1>3. CASE Publish(w, r)
  <2>1. [l EXCEPT !.sent = l.made] \in Progress /\ [l EXCEPT !.sent = l.made].at = l.at
    BY <1>1 DEF Progress
  <2>2. QED
    BY <1>3, <2>1, GoesOn DEF Publish
<1>4. CASE FinalTelemetry(w, r)
  <2> DEFINE half == [l EXCEPT !.at = "final"]
             new == [half EXCEPT !.sent = l.made]
  <2>1. half \in Progress /\ half.at = "final"
    BY <1>1 DEF Progress
  <2>2. Change(w, r, new) /\ l.at = "on" /\ UNCHANGED proc
    BY <1>4 DEF FinalTelemetry
  <2> HIDE DEF half
  <2>3. new \in Progress /\ new.at = "final"
    BY <1>1, <2>1 DEF Progress
  <2>4. QED
    BY <2>2, <2>3, GoesOn
<1>5. CASE FinishLoad(w, r)
  <2>1. [l EXCEPT !.at = "over"] \in Progress /\ [l EXCEPT !.at = "over"].at = "over"
    BY <1>1 DEF Progress
  <2>2. QED
    BY <1>5, <2>1, Ends DEF FinishLoad
<1>6. CASE LoadFails(w, r)
  <2>1. [l EXCEPT !.at = "lost"] \in Progress /\ [l EXCEPT !.at = "lost"].at = "lost"
    BY <1>1 DEF Progress
  <2>2. QED
    BY <1>6, <2>1, Ends DEF LoadFails
<1>7. QED
  BY <1>2, <1>3, <1>4, <1>5, <1>6 DEF Execution

-----------------------------------------------------------------------------
(* Commands.                                                               *)

\* What START_LOAD and STOP_LOAD make of a worker's fields.
LEMMA StartedFields ==
  ASSUME NEW p \in Process, NEW r \in Run, NEW busy \in BOOLEAN,
         NEW q, q = Started(p, r, busy)
  PROVE  /\ q \in Process /\ q.at = p.at /\ q.status = "BUSY" /\ q.run = r
         /\ ~q.twice => ~p.twice /\ ~busy
<1> DEFINE one == [p EXCEPT !.run = r]
           two == [one EXCEPT !.status = "BUSY"]
           three == [two EXCEPT !.stop = FALSE]
<1>1. q = [three EXCEPT !.twice = p.twice \/ busy] /\ (p.twice \/ busy) \in BOOLEAN
  BY DEF Started, Process
<1>2. /\ one \in Process /\ one.at = p.at /\ one.run = r /\ one.twice = p.twice
  BY DEF Process
<1> HIDE DEF one
<1>3. /\ two \in Process /\ two.at = p.at /\ two.status = "BUSY" /\ two.run = r
      /\ two.twice = p.twice
  BY <1>2 DEF Process
<1> HIDE DEF two
<1>4. /\ three \in Process /\ three.at = p.at /\ three.status = "BUSY" /\ three.run = r
      /\ three.twice = p.twice
  BY <1>3 DEF Process
<1> HIDE DEF three
<1>5. /\ q \in Process /\ q.at = three.at /\ q.status = three.status
      /\ q.run = three.run /\ q.twice = (p.twice \/ busy)
  BY <1>1, <1>4 DEF Process
<1>6. QED
  BY <1>4, <1>5

LEMMA StoppedFields ==
  ASSUME NEW p \in Process, NEW r \in Run
  PROVE  /\ Stopped(p, r) \in Process /\ Stopped(p, r).at = p.at
         /\ Stopped(p, r).status = p.status /\ Stopped(p, r).run = p.run
         /\ Stopped(p, r).twice = p.twice
         /\ p.stop \/ p.run = r => Stopped(p, r).stop
<1> DEFINE stop == p.stop \/ p.run \in {None, r}
<1>1. Stopped(p, r) = [p EXCEPT !.stop = stop] /\ stop \in BOOLEAN
  BY DEF Stopped, Process
<1>2. p.stop \/ p.run = r => stop
  OBVIOUS
<1> HIDE DEF stop
<1>3. /\ Stopped(p, r) \in Process /\ Stopped(p, r).at = p.at
      /\ Stopped(p, r).status = p.status /\ Stopped(p, r).run = p.run
      /\ Stopped(p, r).twice = p.twice /\ Stopped(p, r).stop = stop
  BY <1>1 DEF Process
<1>4. QED
  BY <1>2, <1>3

LEMMA HandleCommandInv ==
  ASSUME LoadInv, NEW w \in Worker, NEW r \in Run, HandleCommand(w, r)
  PROVE  LoadInv'
<1> DEFINE command == commands[r][pos[w][r] + 1]
<1>1. /\ LoadTypeOK /\ Ordered /\ Loaded(w) /\ proc[w] \in Process
      /\ load[w] \in [Run -> Progress] /\ pos[w] \in [Run -> Nat]
  BY DEF LoadInv, LoadTypeOK
<1>2. /\ proc[w].at \in {"up", "stopping"} /\ pos[w][r] < Len(commands[r])
      /\ pos' = [pos EXCEPT ![w][r] = @ + 1] /\ UNCHANGED commands
  BY DEF HandleCommand
<1>3. /\ pos' \in [Worker -> [Run -> Nat]] /\ pos'[w][r] = pos[w][r] + 1
      /\ \A q \in Run \ {r} : pos'[w][q] = pos[w][q]
      /\ \A v \in Worker \ {w} : pos'[v] = pos[v]
  BY <1>1, <1>2 DEF LoadTypeOK
<1>4. Len(commands[r]) \in Nat /\ Len(commands[r]) <= 2
  BY <1>1 DEF LoadTypeOK, Ordered
<1>5. /\ command.type = "START_LOAD" => pos'[w][r] = 1
      /\ command.type = "STOP_LOAD" => pos'[w][r] = 2
  <2>1. pos[w][r] = 0 \/ pos[w][r] = 1
    BY <1>1, <1>2, <1>4
  <2>2. CASE pos[w][r] = 0
    BY <1>1, <1>2, <1>3, <1>4, <2>2 DEF Ordered
  <2>3. CASE pos[w][r] = 1
    BY <1>1, <1>2, <1>3, <1>4, <2>3 DEF Ordered
  <2>4. QED
    BY <2>1, <2>2, <2>3
<1>6. Ordered'
  <2>1. \A v \in Worker, q \in Run : pos'[v][q] <= Len(commands[q])
    BY <1>1, <1>2, <1>3, <1>4 DEF Ordered
  <2>2. QED
    BY <1>1, <1>2, <2>1 DEF Ordered
\* It is enough that the worker's fields and loads stay in step.
<1>7. ASSUME NEW p \in Process, NEW l \in [Run -> Progress],
             proc' = [proc EXCEPT ![w] = p], load' = [load EXCEPT ![w] = l], Loaded(w)'
      PROVE  LoadInv'
  <2>1. LoadTypeOK'
    BY <1>1, <1>2, <1>3, <1>7 DEF LoadTypeOK
  <2>2. ASSUME NEW v \in Worker, v # w PROVE Loaded(v)'
    <3>1. proc'[v] = proc[v] /\ load'[v] = load[v] /\ pos'[v] = pos[v] /\ Loaded(v)
      BY <1>1, <1>3, <1>7, <2>2 DEF LoadInv, LoadTypeOK
    <3>2. QED
      BY <3>1, SameLoaded
  <2>3. QED
    BY <1>6, <1>7, <2>1, <2>2 DEF LoadInv
<1>8. CASE /\ command.type = "START_LOAD"
           /\ proc' = [proc EXCEPT ![w] = Started(@, r, Loads(w) # {})]
           /\ load' = [load EXCEPT ![w][r].at = "on"]
  <2> DEFINE busy == Loads(w) # {}
             p == Started(proc[w], r, busy)
             new == [load[w][r] EXCEPT !.at = "on"]
             l == [load[w] EXCEPT ![r] = new]
  <2>1. /\ p \in Process /\ p.at = proc[w].at /\ p.status = "BUSY" /\ p.run = r
        /\ ~p.twice => ~proc[w].twice /\ ~busy
    <3>1. busy \in BOOLEAN
      OBVIOUS
    <3> HIDE DEF busy
    <3>2. QED
      BY <1>1, <3>1, StartedFields
  <2>2. proc' = [proc EXCEPT ![w] = p]
    BY <1>8
  <2>3. load' = [load EXCEPT ![w] = l]
    BY <1>1, <1>8 DEF LoadTypeOK
  <2>4. new \in Progress /\ new.at = "on"
    <3>1. load[w][r] \in Progress
      BY <1>1
    <3>2. QED
      BY <3>1 DEF Progress
  <2>5. l \in [Run -> Progress] /\ l[r].at = "on" /\ \A q \in Run \ {r} : l[q] = load[w][q]
    <3> HIDE DEF new
    <3>1. QED
      BY <1>1, <2>4
  <2> HIDE DEF p, l
  <2>6. proc'[w] = p /\ load'[w] = l
    BY <1>1, <2>2, <2>3 DEF LoadTypeOK
  <2>7. Loads(w)' = Loads(w) \cup {r}
    BY <2>5, <2>6 DEF Loads
  <2>8. Loaded(w)'
    <3>1. p.at # "new" /\ Loads(w)' # {}
      BY <1>2, <2>1, <2>7
    <3>2. ~p.twice => \A q \in Loads(w)' : q = r
      BY <2>1, <2>7
    <3>3. pos'[w][r] # 2
      BY <1>5, <1>8
    <3>4. QED
      BY <2>1, <2>6, <3>1, <3>2, <3>3 DEF Loaded
  <2>9. QED
    BY <1>7, <2>1, <2>2, <2>3, <2>5, <2>8
<1>9. CASE /\ command.type = "START_LOAD" /\ UNCHANGED <<proc, load>>
  <2>1. Loads(w)' = Loads(w)
    BY <1>9 DEF Loads
  <2>2. pos'[w][r] # 2
    BY <1>5, <1>9
  <2>3. Loaded(w)'
    BY <1>1, <1>3, <1>9, <2>1, <2>2 DEF Loaded, Loads
  <2>4. /\ proc' = [proc EXCEPT ![w] = proc[w]] /\ load' = [load EXCEPT ![w] = load[w]]
    BY <1>1, <1>9 DEF LoadTypeOK
  <2>5. QED
    BY <1>1, <1>7, <2>3, <2>4
<1>10. CASE /\ command.type = "STOP_LOAD"
            /\ proc' = [proc EXCEPT ![w] = Stopped(@, r)] /\ UNCHANGED load
  <2> DEFINE p == Stopped(proc[w], r)
  <2>1. /\ p \in Process /\ p.at = proc[w].at /\ p.status = proc[w].status
        /\ p.run = proc[w].run /\ p.twice = proc[w].twice
        /\ proc[w].stop \/ proc[w].run = r => p.stop
    BY <1>1, StoppedFields
  <2>2. proc' = [proc EXCEPT ![w] = p] /\ proc'[w] = p
    BY <1>1, <1>10 DEF LoadTypeOK
  <2> HIDE DEF p
  <2>3. Loads(w)' = Loads(w) /\ load' = [load EXCEPT ![w] = load[w]]
    BY <1>1, <1>10 DEF Loads, LoadTypeOK
  <2>4. ASSUME ~p.twice, NEW q \in Loads(w), pos'[w][q] = 2 PROVE p.stop
    <3>1. proc[w].run = q /\ (pos[w][q] = 2 => proc[w].stop)
      BY <1>1, <2>1, <2>4 DEF Loaded
    <3>2. CASE q = r
      BY <2>1, <3>1, <3>2
    <3>3. CASE q # r
      BY <1>3, <2>1, <2>4, <3>1, <3>3 DEF Loads
    <3>4. QED
      BY <3>2, <3>3
  <2>5. Loaded(w)'
    BY <1>1, <1>2, <2>1, <2>2, <2>3, <2>4 DEF Loaded
  <2>6. QED
    BY <1>1, <1>7, <2>1, <2>2, <2>3, <2>5
<1>11. QED
  BY <1>8, <1>9, <1>10 DEF HandleCommand

-----------------------------------------------------------------------------

LEMMA LoadStepInv == ASSUME LoadInv, [LNext]_lvars PROVE LoadInv'
<1>1. ASSUME UNCHANGED <<proc, load, commands, pos>> PROVE LoadInv'
  <2>1. LoadTypeOK' /\ Ordered'
    BY <1>1 DEF LoadInv, LoadTypeOK, Ordered
  <2>2. \A w \in Worker : Loaded(w)'
    BY <1>1, SameLoaded DEF LoadInv
  <2>3. QED
    BY <2>1, <2>2 DEF LoadInv
<1>2. CASE UNCHANGED lvars
  BY <1>1, <1>2 DEF lvars
<1>3. CASE Aggregate \/ \E r \in Run : TelemetryKeys(r)
  BY <1>1, <1>3 DEF Aggregate, TelemetryKeys
<1>4. QED
  BY <1>2, <1>3, CommandInv, StartInv, LeaveInv, CrashInv, HandleCommandInv, ExecutionInv,
     ExpiryInv DEF LNext

LEMMA LoadInvariant == LSpec => []LoadInv
  BY LoadInitInv, LoadStepInv, PTL DEF LSpec

\* Every reachable state of workers and commands is well typed.
THEOREM LoadTypeCorrect == LSpec => []LoadTypeOK
<1>1. LoadInv => LoadTypeOK
  BY DEF LoadInv
<1>2. QED
  BY LoadInvariant, <1>1, PTL

\* Unless a worker took a START_LOAD while it had a load, its status and active run
\* are those of the load it executes (handleCommand, executeLoad).
THEOREM StatusIsTrue == LSpec => []TruthfulStatus
<1>1. LoadInv => TruthfulStatus
  BY DEF LoadInv, Loaded, TruthfulStatus
<1>2. QED
  BY LoadInvariant, <1>1, PTL

\* On such a worker a STOP_LOAD that was read stays in force for the load it is about.
THEOREM StopsAreObeyed == LSpec => []StopIsObeyed
<1>1. LoadInv => StopIsObeyed
  BY DEF LoadInv, Loaded, StopIsObeyed
<1>2. QED
  BY LoadInvariant, <1>1, PTL

-----------------------------------------------------------------------------
(* Sums.                                                                   *)

LEMMA NaturalInduction ==
  ASSUME NEW P, 0 \in P, \A n \in Nat : n \in P => n + 1 \in P
  PROVE  Nat \subseteq P
<1> SUFFICES ASSUME Nat \ P # {} PROVE FALSE
  OBVIOUS
<1>1. PICK d \in Nat \ P : \A e \in Nat \ P : ~(<<e, d>> \in OpToRel(<, Nat))
  BY NatLessThanWellFounded, WFMin
<1>2. \A e \in Nat \ P : ~(e < d)
  BY <1>1 DEF OpToRel
<1>3. d \in Nat /\ d \notin P /\ d # 0
  BY <1>1
<1>4. d - 1 \in Nat /\ d - 1 < d /\ (d - 1) + 1 = d
  BY <1>3
<1>5. d - 1 \in P
  BY <1>2, <1>4
<1>6. QED
  BY <1>3, <1>4, <1>5

LEMMA SubsetInduction ==
  ASSUME NEW S, IsFiniteSet(S), NEW Q, {} \in Q,
         \A s \in SUBSET S : s # {} /\ (\A x \in s : s \ {x} \in Q) => s \in Q
  PROVE  \A s \in SUBSET S : s \in Q
<1> DEFINE P == {n \in Nat : \A s \in SUBSET S : Cardinality(s) <= n => s \in Q}
<1>1. \A s \in SUBSET S : IsFiniteSet(s) /\ Cardinality(s) \in Nat
  BY FS_Subset, FS_CardinalityType
<1>2. 0 \in P
  <2>1. ASSUME NEW s \in SUBSET S, Cardinality(s) <= 0 PROVE s \in Q
    <3>1. Cardinality(s) = 0
      BY <1>1, <2>1
    <3>2. s = {}
      BY <1>1, <3>1, FS_EmptySet
    <3>3. QED
      BY <3>2
  <2>2. QED
    BY <2>1
<1>3. ASSUME NEW n \in Nat, n \in P PROVE n + 1 \in P
  <2>1. ASSUME NEW s \in SUBSET S, Cardinality(s) <= n + 1 PROVE s \in Q
    <3>1. ASSUME NEW x \in s PROVE s \ {x} \in Q
      <4>1. Cardinality(s \ {x}) = Cardinality(s) - 1
        BY <1>1, FS_RemoveElement
      <4>2. Cardinality(s \ {x}) <= n /\ s \ {x} \in SUBSET S
        BY <1>1, <2>1, <4>1
      <4>3. QED
        BY <1>3, <4>2
    <3>2. QED
      BY <3>1
  <2>2. QED
    BY <2>1
<1>4. \A s \in SUBSET S : Cardinality(s) \in P
  <2> HIDE DEF P
  <2>1. Nat \subseteq P
    BY <1>2, <1>3, NaturalInduction
  <2>2. QED
    BY <1>1, <2>1
<1>5. QED
  BY <1>1, <1>4

Pick(s) == CHOOSE x \in s : TRUE

\* g adds up fun over the sets of places in D.
AddsUp(g, fun, D) ==
  g = [s \in D |-> IF s = {} THEN 0 ELSE fun[Pick(s)] + g[s \ {Pick(s)}]]

Sums(fun) ==
  CHOOSE iter : iter = [s \in SUBSET DOMAIN fun |->
                         IF s = {} THEN 0 ELSE fun[Pick(s)] + iter[s \ {Pick(s)}]]

LEMMA SumIsLast ==
  ASSUME NEW fun
  PROVE  SumFunction(fun) = Sums(fun)[DOMAIN fun]
BY Zenon DEF SumFunction, SumFunctionOnSet, FoldFunctionOnSet, MapThenFoldSet, Sums, Pick

\* The places of a finite set can be added up, those of few before those of many.
LEMMA SumsExist ==
  ASSUME NEW S, IsFiniteSet(S), NEW fun \in [S -> Nat]
  PROVE  \E g \in [SUBSET S -> Nat] : AddsUp(g, fun, SUBSET S)
<1> DEFINE D(n) == {s \in SUBSET S : Cardinality(s) <= n}
           P == {n \in Nat : \E g \in [D(n) -> Nat] : AddsUp(g, fun, D(n))}
<1>1. \A s \in SUBSET S : IsFiniteSet(s) /\ Cardinality(s) \in Nat
  BY FS_Subset, FS_CardinalityType
<1>2. ASSUME NEW s \in SUBSET S, s # {}
      PROVE  /\ Pick(s) \in s /\ fun[Pick(s)] \in Nat /\ s \ {Pick(s)} \in SUBSET S
             /\ Cardinality(s \ {Pick(s)}) = Cardinality(s) - 1 /\ Cardinality(s) # 0
  <2>1. Pick(s) \in s
    BY <1>2 DEF Pick
  <2>2. Cardinality(s \ {Pick(s)}) = Cardinality(s) - 1
    BY <1>1, <2>1, FS_RemoveElement
  <2>3. Cardinality(s) # 0
    BY <1>1, <1>2, FS_EmptySet
  <2>4. QED
    BY <2>1, <2>2, <2>3
<1>3. 0 \in P
  <2>1. ASSUME NEW s \in D(0) PROVE s = {}
    <3>1. Cardinality(s) = 0
      BY <1>1, <2>1
    <3>2. QED
      BY <1>2, <3>1
  <2>2. [s \in D(0) |-> 0] \in [D(0) -> Nat] /\ AddsUp([s \in D(0) |-> 0], fun, D(0))
    BY <2>1 DEF AddsUp
  <2>3. QED
    BY <2>2
<1>4. ASSUME NEW n \in Nat, n \in P PROVE n + 1 \in P
  <2>1. PICK g \in [D(n) -> Nat] : AddsUp(g, fun, D(n))
    BY <1>4
  <2> DEFINE h == [s \in D(n + 1) |-> IF s = {} THEN 0 ELSE fun[Pick(s)] + g[s \ {Pick(s)}]]
  <2>2. ASSUME NEW s \in D(n + 1), s # {} PROVE s \ {Pick(s)} \in D(n)
    BY <1>1, <1>2, <2>2
  <2>3. h \in [D(n + 1) -> Nat]
    BY <1>2, <2>2
  <2>4. \A s \in D(n) : s \in D(n + 1) /\ h[s] = g[s]
    <3>1. \A s \in D(n) : s \in D(n + 1)
      BY <1>1
    <3>2. \A s \in D(n) : g[s] = IF s = {} THEN 0 ELSE fun[Pick(s)] + g[s \ {Pick(s)}]
      BY <2>1 DEF AddsUp
    <3>3. QED
      BY <3>1, <3>2
  <2>5. h = [s \in D(n + 1) |-> IF s = {} THEN 0 ELSE fun[Pick(s)] + h[s \ {Pick(s)}]]
    BY <2>2, <2>4
  <2> HIDE DEF h
  <2>6. AddsUp(h, fun, D(n + 1))
    BY <2>5 DEF AddsUp
  <2> HIDE DEF D
  <2>7. \E f \in [D(n + 1) -> Nat] : AddsUp(f, fun, D(n + 1))
    BY <2>3, <2>6
  <2>8. n + 1 \in Nat
    OBVIOUS
  <2>9. QED
    BY <2>7, <2>8, Zenon
<1>5. Cardinality(S) \in P
  <2> HIDE DEF P
  <2>1. Nat \subseteq P
    BY <1>3, <1>4, NaturalInduction
  <2>2. QED
    BY <2>1, FS_CardinalityType
<1>6. D(Cardinality(S)) = SUBSET S
  BY FS_Subset
<1>7. QED
  BY <1>5, <1>6

LEMMA SumsAddUp ==
  ASSUME NEW S, IsFiniteSet(S), NEW fun \in [S -> Nat]
  PROVE  /\ Sums(fun) \in [SUBSET S -> Nat]
         /\ Sums(fun)[{}] = 0
         /\ \A s \in SUBSET S : s # {} =>
              /\ Pick(s) \in s
              /\ Sums(fun)[s] = fun[Pick(s)] + Sums(fun)[s \ {Pick(s)}]
<1>1. DOMAIN fun = S
  OBVIOUS
<1>2. PICK g \in [SUBSET S -> Nat] : AddsUp(g, fun, SUBSET S)
  BY SumsExist
<1>3. AddsUp(Sums(fun), fun, SUBSET S)
  <2>1. g = [s \in SUBSET DOMAIN fun |-> IF s = {} THEN 0 ELSE fun[Pick(s)] + g[s \ {Pick(s)}]]
    BY <1>1, <1>2 DEF AddsUp
  <2>2. Sums(fun) = [s \in SUBSET DOMAIN fun |->
                      IF s = {} THEN 0 ELSE fun[Pick(s)] + Sums(fun)[s \ {Pick(s)}]]
    BY <2>1, Zenon DEF Sums
  <2>3. QED
    BY <1>1, <2>2 DEF AddsUp
<1>4. Sums(fun) = [s \in SUBSET S |-> Sums(fun)[s]] /\ Sums(fun)[{}] = 0
  BY <1>3 DEF AddsUp
<1>5. ASSUME NEW s \in SUBSET S, s # {}
      PROVE  Pick(s) \in s /\ Sums(fun)[s] = fun[Pick(s)] + Sums(fun)[s \ {Pick(s)}]
  <2>1. Pick(s) \in s
    BY <1>5 DEF Pick
  <2>2. QED
    BY <1>3, <1>5, <2>1 DEF AddsUp
<1>6. \A s \in SUBSET S : s \in {t \in SUBSET S : Sums(fun)[t] \in Nat}
  <2> DEFINE Q == {t \in SUBSET S : Sums(fun)[t] \in Nat}
  <2>1. {} \in Q
    BY <1>4
  <2>2. ASSUME NEW s \in SUBSET S, s # {}, \A x \in s : s \ {x} \in Q PROVE s \in Q
    <3>1. Pick(s) \in s /\ Sums(fun)[s] = fun[Pick(s)] + Sums(fun)[s \ {Pick(s)}]
      BY <1>5, <2>2
    <3>2. fun[Pick(s)] \in Nat /\ Sums(fun)[s \ {Pick(s)}] \in Nat
      BY <2>2, <3>1
    <3>3. Sums(fun)[s] \in Nat
      BY <3>1, <3>2
    <3>4. QED
      BY <3>3
  <2> HIDE DEF Q
  <2>3. \A s \in SUBSET S : s \in Q
    BY <2>1, <2>2, SubsetInduction
  <2>4. QED
    BY <2>3 DEF Q
<1>7. QED
  BY <1>4, <1>5, <1>6

\* The order does not matter: any place can be the last to be added.
LEMMA AnyPlaceIsAdded ==
  ASSUME NEW S, IsFiniteSet(S), NEW fun \in [S -> Nat]
  PROVE  \A s \in SUBSET S : \A x \in s : Sums(fun)[s] = fun[x] + Sums(fun)[s \ {x}]
<1> DEFINE Q == {s \in SUBSET S : \A x \in s : Sums(fun)[s] = fun[x] + Sums(fun)[s \ {x}]}
<1>1. /\ Sums(fun) \in [SUBSET S -> Nat]
      /\ \A s \in SUBSET S : s # {} =>
           /\ Pick(s) \in s
           /\ Sums(fun)[s] = fun[Pick(s)] + Sums(fun)[s \ {Pick(s)}]
  BY SumsAddUp
<1> DEFINE sum == Sums(fun)
<1> HIDE DEF sum
<1>2. {} \in Q
  OBVIOUS
<1>3. ASSUME NEW s \in SUBSET S, s # {}, \A x \in s : s \ {x} \in Q PROVE s \in Q
  <2>1. ASSUME NEW x \in s PROVE Sums(fun)[s] = fun[x] + Sums(fun)[s \ {x}]
    <3> DEFINE c == Pick(s)
    <3>1. c \in s /\ sum[s] = fun[c] + sum[s \ {c}]
      BY <1>1, <1>3 DEF sum
    <3> HIDE DEF c
    <3>2. CASE x = c
      BY <3>1, <3>2 DEF sum
    <3>3. CASE x # c
      <4>1. x \in s \ {c} /\ c \in s \ {x} /\ (s \ {c}) \ {x} = (s \ {x}) \ {c}
        BY <2>1, <3>1, <3>3
      <4>2. sum[s \ {c}] = fun[x] + sum[(s \ {c}) \ {x}]
        BY <1>3, <3>1, <4>1 DEF sum
      <4>3. sum[s \ {x}] = fun[c] + sum[(s \ {x}) \ {c}]
        BY <1>3, <2>1, <4>1 DEF sum
      <4>4. fun[x] \in Nat /\ fun[c] \in Nat /\ sum[(s \ {c}) \ {x}] \in Nat
        BY <1>1, <2>1, <3>1 DEF sum
      <4>5. sum[s] = fun[x] + sum[s \ {x}]
        BY <3>1, <4>1, <4>2, <4>3, <4>4
      <4>6. QED
        BY <4>5 DEF sum
    <3>4. QED
      BY <3>2, <3>3
  <2>2. QED
    BY <2>1
<1> HIDE DEF Q
<1>4. \A s \in SUBSET S : s \in Q
  BY <1>2, <1>3, SubsetInduction
<1>5. QED
  BY <1>4 DEF Q

-----------------------------------------------------------------------------
(* Results.                                                                *)

\* A load that has not begun has told nothing, one that has ended has told all
\* unless that has expired; only a worker that the START_LOAD is for begins one,
\* when it reads it.
Told(w, r) ==
  /\ load[w][r].at = "none" => load[w][r].sent = None
  /\ load[w][r].at \in {"final", "over"} =>
       \/ load[w][r].sent = load[w][r].made
       \/ load[w][r].sent = None /\ load[w][r].gone
  /\ load[w][r].at # "none" => pos[w][r] >= 1 /\ w \in Assigned(commands[r][1])

\* The worker has nothing more to do for a run that was started.
Through(w, r) ==
  \/ load[w][r].at = "over"
  \/ /\ load[w][r].at = "none" /\ commands[r] # << >>
     /\ w \notin Assigned(commands[r][1]) \/ pos[w][r] > 0 \/ ~Connected(w)

\* An exact result is of a run that is over, and the keys it has not are gone.
Collected ==
  /\ result = [run |-> result.run, keys |-> result.keys, found |-> result.found,
               total |-> result.total, exact |-> result.exact]
  /\ result.run = None => result.total = None /\ result.found = {}
  /\ result.exact =>
       /\ result.run \in Run /\ result.keys \in SUBSET Worker
       /\ result.found \in SUBSET result.keys
       /\ \A w \in Worker :
            /\ Through(w, result.run)
            /\ \/ w \in result.keys \/ load[w][result.run].at = "none"
               \/ load[w][result.run].gone

CountInv == (\A w \in Worker, r \in Run : Told(w, r)) /\ Collected /\ ResultIsExact

LEMMA CountInitInv == ASSUME LInit PROVE CountInv
<1>1. ASSUME NEW w \in Worker, NEW r \in Run PROVE Told(w, r)
  BY DEF LInit, NewLoad, Told
<1>2. Collected /\ ResultIsExact
  BY DEF LInit, NewResult, Collected, ResultIsExact
<1>3. QED
  BY <1>1, <1>2 DEF CountInv

\* The first command of a run stays the first.
LEMMA FirstStays ==
  ASSUME LoadInv, [LNext]_lvars, NEW r \in Run, commands[r] # << >>
  PROVE  commands'[r] # << >> /\ commands'[r][1] = commands[r][1]
<1>1. commands \in [Run -> Seq(Command)]
  BY DEF LoadInv, LoadTypeOK
<1>2. CASE UNCHANGED commands
  BY <1>2
<1>3. ASSUME NEW q \in Run, StopRun(q)
      PROVE  commands'[r] # << >> /\ commands'[r][1] = commands[r][1]
  <2> DEFINE command == [type |-> "STOP_LOAD", workers |-> {}]
  <2>1. commands' = [commands EXCEPT ![q] = Append(@, command)] /\ Len(commands[q]) = 1
    BY <1>3 DEF StopRun, SendCommand
  <2>2. command \in Command
    BY DEF Command
  <2> HIDE DEF command
  <2>3. CASE q # r
    BY <1>1, <2>1, <2>3
  <2>4. CASE q = r
    <3>1. commands'[r] = Append(commands[r], command) /\ commands[r] \in Seq(Command)
      BY <1>1, <2>1, <2>4
    <3>2. Len(commands'[r]) = 2 /\ commands'[r] \in Seq(Command)
      BY <2>1, <2>2, <2>4, <3>1
    <3>3. commands'[r][1] = commands[r][1]
      BY <2>1, <2>2, <2>4, <3>1, AppendedSecond
    <3>4. QED
      BY <3>2, <3>3
  <2>5. QED
    BY <2>3, <2>4
<1>4. ASSUME NEW q \in Run, StartRun(q)
      PROVE  commands'[r] = commands[r]
  <2>1. PICK command : commands' = [commands EXCEPT ![q] = Append(@, command)]
    BY <1>4 DEF StartRun, SendCommand
  <2>2. q # r
    BY <1>4 DEF StartRun
  <2>3. QED
    BY <1>1, <2>1, <2>2
<1>5. ASSUME NEW w \in Worker, Start(w) \/ StopWorker(w) \/ Quit(w) \/ Crash(w)
      PROVE  UNCHANGED commands
  BY <1>5 DEF Start, StopWorker, Quit, Crash
<1>6. ASSUME NEW w \in Worker, NEW q \in Run,
             HandleCommand(w, q) \/ MakeRequest(w, q) \/ Publish(w, q) \/ Expire(w, q)
               \/ Execution(w, q)
      PROVE  UNCHANGED commands
  BY <1>6 DEF HandleCommand, MakeRequest, Publish, Expire, Execution, FinalTelemetry,
              FinishLoad, LoadFails, Change
<1>7. ASSUME Aggregate \/ \E q \in Run : TelemetryKeys(q) PROVE UNCHANGED commands
  BY <1>7 DEF Aggregate, TelemetryKeys
<1>8. UNCHANGED lvars => UNCHANGED commands
  BY DEF lvars
<1>9. QED
  BY <1>2, <1>3, <1>4, <1>5, <1>6, <1>7, <1>8 DEF LNext

\* What a step does to one load: it still tells the truth, and one that is done
\* stays so, with its counts.
Kept(w, r) ==
  /\ load'[w][r].at = load[w][r].at /\ load'[w][r].made = load[w][r].made
  /\ load[w][r].gone => load'[w][r].gone

Advanced(w, r) == Told(w, r)' /\ (Through(w, r) => Through(w, r)' /\ Kept(w, r))

Counting == \A w \in Worker, r \in Run : Advanced(w, r)

\* A step that leaves a load as it is, of a worker that does not connect behind
\* the commands.
LEMMA KeepsTelling ==
  ASSUME LoadInv, [LNext]_lvars, NEW w \in Worker, NEW r \in Run, Told(w, r),
         load'[w][r] = load[w][r], pos'[w][r] \in Nat, pos'[w][r] >= pos[w][r],
         Connected(w)' => Connected(w) \/ (commands[r] # << >> => pos'[w][r] > 0)
  PROVE  Advanced(w, r)
<1>1. load[w][r].at # "none" => commands[r] # << >>
  <2> SUFFICES ASSUME load[w][r].at # "none" PROVE Len(commands[r]) # 0
    OBVIOUS
  <2>1. pos[w][r] >= 1 /\ pos[w][r] <= Len(commands[r])
    BY DEF Told, LoadInv, Ordered
  <2>2. pos[w][r] \in Nat /\ Len(commands[r]) \in Nat
    BY DEF LoadInv, LoadTypeOK
  <2>3. QED
    BY <2>1, <2>2
<1>2. commands[r] # << >> =>
        commands'[r] # << >> /\ Assigned(commands[r][1])' = Assigned(commands[r][1])
  BY FirstStays DEF Assigned
<1>3. pos[w][r] \in Nat
  BY DEF LoadInv, LoadTypeOK
<1>4. Told(w, r)'
  BY <1>1, <1>2, <1>3 DEF Told
<1>5. pos[w][r] > 0 => pos'[w][r] > 0
  BY <1>3
<1>6. Through(w, r) => Through(w, r)'
  BY <1>2, <1>5 DEF Through
<1>7. QED
  BY <1>4, <1>6 DEF Advanced, Kept

\* A step that changes no load, and connects no worker.
LEMMA NothingCounted ==
  ASSUME LoadInv, CountInv, [LNext]_lvars, UNCHANGED load,
         \A w \in Worker, r \in Run :
           /\ pos'[w][r] \in Nat /\ pos'[w][r] >= pos[w][r]
           /\ Connected(w)' => Connected(w) \/ (commands[r] # << >> => pos'[w][r] > 0)
  PROVE  Counting
  BY KeepsTelling DEF CountInv, Counting

\* A step of one worker that changes one load of it.
LEMMA OneChanged ==
  ASSUME LoadInv, CountInv, [LNext]_lvars, NEW w \in Worker, NEW r \in Run,
         NEW new, load' = [load EXCEPT ![w][r] = new],
         UNCHANGED <<commands, pos>>, \A v \in Worker : Connected(v)' = Connected(v),
         Advanced(w, r)
  PROVE  Counting
<1>1. /\ load \in [Worker -> [Run -> Progress]] /\ pos \in [Worker -> [Run -> Nat]]
  BY DEF LoadInv, LoadTypeOK
<1>2. ASSUME NEW v \in Worker, NEW q \in Run, v # w \/ q # r PROVE Advanced(v, q)
  <2>1. load'[v][q] = load[v][q] /\ pos'[v][q] = pos[v][q] /\ pos[v][q] \in Nat
    BY <1>1, <1>2
  <2>2. QED
    BY <2>1, KeepsTelling DEF CountInv
<1>3. QED
  BY <1>2 DEF Counting

\* A step that changes one load in progress.
LEMMA OneCounted ==
  ASSUME LoadInv, CountInv, [LNext]_lvars, NEW w \in Worker, NEW r \in Run,
         NEW new \in Progress, load' = [load EXCEPT ![w][r] = new],
         UNCHANGED <<commands, pos>>, \A v \in Worker : Connected(v)' = Connected(v),
         load[w][r].at \in {"on", "final"}, new.at # "none",
         new.at \in {"final", "over"} => new.sent = new.made \/ (new.sent = None /\ new.gone)
  PROVE  Counting
<1>1. load \in [Worker -> [Run -> Progress]]
  BY DEF LoadInv, LoadTypeOK
<1>2. load'[w][r] = new
  BY <1>1
<1>3. Told(w, r)'
  BY <1>2 DEF CountInv, Told, Assigned
<1>4. ~Through(w, r)
  BY DEF Through
<1>5. QED
  BY <1>3, <1>4, OneChanged DEF Advanced

\* A key that expires belongs to a load that has begun.
LEMMA ExpiryCounts ==
  ASSUME LoadInv, CountInv, [LNext]_lvars, NEW w \in Worker, NEW r \in Run, Expire(w, r)
  PROVE  Counting
<1> DEFINE l == load[w][r]
           half == [l EXCEPT !.sent = None]
           new == [half EXCEPT !.gone = TRUE]
<1>1. l \in Progress /\ load \in [Worker -> [Run -> Progress]]
  BY DEF LoadInv, LoadTypeOK
<1>2. /\ half \in Progress /\ half.sent = None /\ half.at = l.at /\ half.made = l.made
  BY <1>1 DEF Progress
<1>3. load' = [load EXCEPT ![w][r] = new] /\ UNCHANGED <<commands, pos, proc>>
  BY DEF Expire, Change
<1>4. l.at # "none" /\ Told(w, r)
  BY DEF Expire, CountInv, Told
<1> HIDE DEF half
<1>5. /\ new \in Progress /\ new.sent = None /\ new.at = l.at /\ new.made = l.made /\ new.gone
  BY <1>2 DEF Progress
<1> HIDE DEF new
<1>6. load'[w][r] = new
  BY <1>1, <1>3
<1>7. Told(w, r)'
  BY <1>3, <1>4, <1>5, <1>6 DEF Told, Assigned
<1>8. Through(w, r) => Through(w, r)' /\ Kept(w, r)
  BY <1>4, <1>5, <1>6 DEF Through, Kept
<1>9. \A v \in Worker : Connected(v)' = Connected(v)
  BY <1>3 DEF Connected
<1>10. QED
  BY <1>3, <1>7, <1>8, <1>9, OneChanged DEF Advanced

LEMMA ExecutionCounts ==
  ASSUME LoadInv, CountInv, [LNext]_lvars, NEW w \in Worker, NEW r \in Run,
         MakeRequest(w, r) \/ Publish(w, r) \/ Execution(w, r)
  PROVE  Counting
<1> DEFINE l == load[w][r]
<1>1. l \in Progress /\ l.made \in Nat
  BY DEF LoadInv, LoadTypeOK, Progress
<1>0. \A v \in Worker : Connected(v)' = Connected(v)
  <2>1. proc \in [Worker -> Process] /\ proc[w] \in Process
    BY DEF LoadInv, LoadTypeOK
  <2>2. UNCHANGED proc \/ proc' = [proc EXCEPT ![w] = BecomeIdle(@)]
    BY DEF MakeRequest, Publish, Execution, FinalTelemetry, FinishLoad, LoadFails
  <2>3. BecomeIdle(proc[w]).at = proc[w].at
    BY <2>1 DEF BecomeIdle, Process
  <2>4. \A v \in Worker : proc'[v].at = proc[v].at
    BY <2>1, <2>2, <2>3
  <2>5. QED
    BY <2>4 DEF Connected
<1>2. CASE MakeRequest(w, r)
  <2>1. [l EXCEPT !.made = @ + 1] \in Progress /\ [l EXCEPT !.made = @ + 1].at = l.at
    BY <1>1 DEF Progress
  <2>2. QED
    BY <1>0, <1>2, <2>1, OneCounted DEF MakeRequest, Change
<1>3. CASE Publish(w, r)
  <2>1. [l EXCEPT !.sent = l.made] \in Progress /\ [l EXCEPT !.sent = l.made].at = l.at
    BY <1>1 DEF Progress
  <2>2. QED
    BY <1>0, <1>3, <2>1, OneCounted DEF Publish, Change
<1>4. CASE FinalTelemetry(w, r)
  <2> DEFINE half == [l EXCEPT !.at = "final"]
             new == [half EXCEPT !.sent = l.made]
  <2>1. half \in Progress /\ half.at = "final" /\ half.made = l.made
    BY <1>1 DEF Progress
  <2>2. Change(w, r, new) /\ l.at = "on"
    BY <1>4 DEF FinalTelemetry
  <2> HIDE DEF half
  <2>3. new \in Progress /\ new.at = "final" /\ new.made = l.made /\ new.sent = l.made
    BY <1>1, <2>1 DEF Progress
  <2> HIDE DEF new
  <2>4. QED
    BY <1>0, <2>2, <2>3, OneCounted DEF Change
<1>5. CASE FinishLoad(w, r)
  <2> DEFINE new == [l EXCEPT !.at = "over"]
  <2>1. /\ new \in Progress /\ new.at = "over" /\ new.sent = l.sent /\ new.made = l.made
        /\ new.gone = l.gone
    BY <1>1 DEF Progress
  <2>2. l.at = "final" /\ Told(w, r) /\ Change(w, r, new)
    BY <1>5 DEF FinishLoad, CountInv
  <2>3. new.sent = new.made \/ (new.sent = None /\ new.gone)
    BY <2>1, <2>2 DEF Told
  <2> HIDE DEF new
  <2>4. QED
    BY <1>0, <2>1, <2>2, <2>3, OneCounted DEF Change
<1>6. CASE LoadFails(w, r)
  <2>1. [l EXCEPT !.at = "lost"] \in Progress /\ [l EXCEPT !.at = "lost"].at = "lost"
    BY <1>1 DEF Progress
  <2>2. QED
    BY <1>0, <1>6, <2>1, OneCounted DEF LoadFails, Change
<1>7. QED
  BY <1>2, <1>3, <1>4, <1>5, <1>6 DEF Execution

LEMMA CrashCounts ==
  ASSUME LoadInv, CountInv, [LNext]_lvars, NEW w \in Worker, Crash(w)
  PROVE  Counting
<1>1. /\ load \in [Worker -> [Run -> Progress]] /\ pos \in [Worker -> [Run -> Nat]]
      /\ proc \in [Worker -> Process] /\ UNCHANGED <<commands, pos>>
  BY DEF LoadInv, LoadTypeOK, Crash
<1>2. \A v \in Worker \ {w} : load'[v] = load[v]
  BY <1>1 DEF Crash
<1>3. \A r \in Run : load'[w][r] = IF r \in Loads(w) THEN [load[w][r] EXCEPT !.at = "lost"]
                                                    ELSE load[w][r]
  BY <1>1 DEF Crash
<1>4. \A v \in Worker : Connected(v)' => Connected(v)
  BY <1>1 DEF Crash, Connected
<1>5. ASSUME NEW v \in Worker, NEW r \in Run, load'[v][r] = load[v][r] PROVE Advanced(v, r)
  <2>1. pos'[v][r] = pos[v][r] /\ pos[v][r] \in Nat
    BY <1>1
  <2>2. QED
    BY <1>4, <1>5, <2>1, KeepsTelling DEF CountInv
<1>6. ASSUME NEW r \in Loads(w) PROVE Advanced(w, r)
  <2>1. load[w][r] \in Progress /\ load[w][r].at \in {"on", "final"} /\ r \in Run
    BY <1>1 DEF Loads
  <2>2. load'[w][r].at = "lost"
    BY <1>3, <2>1 DEF Progress, Loads
  <2>3. Told(w, r)'
    BY <1>1, <2>1, <2>2 DEF CountInv, Told, Assigned
  <2>4. QED
    BY <2>1, <2>3 DEF Advanced, Through
<1>7. ASSUME NEW v \in Worker, NEW r \in Run
      PROVE  v # w \/ r \notin Loads(w) => load'[v][r] = load[v][r]
  BY <1>2, <1>3
<1>8. QED
  BY <1>5, <1>6, <1>7 DEF Counting

\* START_LOAD begins a load only for a worker that has read no command of the run.
LEMMA HandleCommandCounts ==
  ASSUME LoadInv, CountInv, [LNext]_lvars, NEW w \in Worker, NEW r \in Run,
         HandleCommand(w, r)
  PROVE  Counting
<1> DEFINE command == commands[r][pos[w][r] + 1]
<1>1. /\ load \in [Worker -> [Run -> Progress]] /\ pos \in [Worker -> [Run -> Nat]]
      /\ commands[r] \in Seq(Command) /\ Len(commands[r]) \in Nat /\ Len(commands[r]) <= 2
      /\ proc \in [Worker -> Process] /\ proc[w] \in Process
  BY DEF LoadInv, LoadTypeOK, Ordered
<1>2. /\ pos[w][r] < Len(commands[r]) /\ pos' = [pos EXCEPT ![w][r] = @ + 1]
      /\ UNCHANGED commands /\ Connected(w)
  BY DEF HandleCommand, Connected
<1>3. pos'[w][r] = pos[w][r] + 1
  BY <1>1, <1>2
<1>4. \A v \in Worker, q \in Run : pos'[v][q] \in Nat /\ pos'[v][q] >= pos[v][q]
  BY <1>1, <1>2
<1>5. \A v \in Worker : Connected(v)' => Connected(v)
  <2>1. \A v \in Worker \ {w} : proc'[v] = proc[v]
    BY <1>1 DEF HandleCommand
  <2>2. QED
    BY <1>2, <2>1 DEF Connected
<1>6. CASE UNCHANGED load
  BY <1>4, <1>5, <1>6, NothingCounted
<1>7. CASE /\ command.type = "START_LOAD" /\ w \in Assigned(command)
           /\ load' = [load EXCEPT ![w][r].at = "on"]
  <2>1. pos[w][r] = 0 /\ command = commands[r][1]
    <3>1. pos[w][r] = 0 \/ pos[w][r] = 1
      BY <1>1, <1>2
    <3>2. pos[w][r] # 1
      BY <1>1, <1>2, <1>7 DEF LoadInv, Ordered
    <3>3. QED
      BY <3>1, <3>2
  <2>2. load[w][r].at = "none"
    BY <2>1 DEF CountInv, Told
  <2>3. load'[w][r].at = "on"
    <3>1. load[w][r] \in Progress
      BY <1>1
    <3>2. load'[w][r] = [load[w][r] EXCEPT !.at = "on"]
      BY <1>1, <1>7
    <3>3. QED
      BY <3>1, <3>2 DEF Progress
  <2>4. Advanced(w, r)
    <3>1. pos'[w][r] = 1 /\ Assigned(commands[r][1])' = Assigned(commands[r][1])
      BY <1>2, <1>3, <2>1 DEF Assigned
    <3>2. Told(w, r)'
      BY <1>7, <2>1, <2>3, <3>1 DEF Told
    <3>3. ~Through(w, r)
      BY <1>2, <1>7, <2>1, <2>2 DEF Through
    <3>4. QED
      BY <3>2, <3>3 DEF Advanced
  <2>5. ASSUME NEW v \in Worker, NEW q \in Run, v # w \/ q # r PROVE Advanced(v, q)
    <3>1. load'[v][q] = load[v][q]
      BY <1>1, <1>7, <2>5
    <3>2. QED
      BY <1>4, <1>5, <3>1, KeepsTelling DEF CountInv
  <2>6. QED
    BY <2>4, <2>5 DEF Counting
<1>8. QED
  BY <1>6, <1>7 DEF HandleCommand

LEMMA StepCounts == ASSUME LoadInv, CountInv, [LNext]_lvars PROVE Counting
<1>1. /\ pos \in [Worker -> [Run -> Nat]] /\ \A r \in Run : Len(commands[r]) \in Nat
      /\ proc \in [Worker -> Process] /\ commands \in [Run -> Seq(Command)]
  BY DEF LoadInv, LoadTypeOK
<1>2. CASE UNCHANGED <<load, pos>> /\ \A w \in Worker : Connected(w)' => Connected(w)
  BY <1>1, <1>2, NothingCounted
<1>3. ASSUME NEW w \in Worker, Start(w) PROVE Counting
  <2>1. /\ UNCHANGED load /\ pos' = [pos EXCEPT ![w] = [r \in Run |-> Len(commands[r])]]
        /\ \A r \in Run : pos[w][r] <= Len(commands[r])
    BY <1>3 DEF Start, LoadInv, Ordered
  <2>2. \A v \in Worker, r \in Run : pos'[v][r] \in Nat /\ pos'[v][r] >= pos[v][r]
    BY <1>1, <2>1
  <2>3. \A v \in Worker \ {w} : Connected(v)' = Connected(v)
    BY <1>1, <1>3 DEF Start, Phase, Connected
  <2>4. ASSUME NEW r \in Run, commands[r] # << >> PROVE pos'[w][r] > 0
    <3>1. Len(commands[r]) # 0 /\ pos'[w][r] = Len(commands[r])
      BY <1>1, <2>1, <2>4
    <3>2. QED
      BY <1>1, <3>1
  <2>5. QED
    BY <2>1, <2>2, <2>3, <2>4, NothingCounted
<1>4. ASSUME NEW w \in Worker, StopWorker(w) \/ Quit(w)
      PROVE  UNCHANGED <<load, pos>> /\ \A v \in Worker : Connected(v)' => Connected(v)
  BY <1>1, <1>4 DEF StopWorker, Quit, Phase, Connected
<1>5. ASSUME NEW r \in Run, StartRun(r) \/ StopRun(r) \/ TelemetryKeys(r)
      PROVE  UNCHANGED <<load, pos, proc>>
  BY <1>5 DEF StartRun, StopRun, TelemetryKeys
<1>6. Aggregate \/ UNCHANGED lvars => UNCHANGED <<load, pos, proc>>
  BY DEF Aggregate, lvars
<1>7. UNCHANGED proc => \A v \in Worker : Connected(v)' => Connected(v)
  BY DEF Connected
<1>8. QED
  BY <1>2, <1>3, <1>4, <1>5, <1>6, <1>7, CrashCounts, HandleCommandCounts, ExecutionCounts,
     ExpiryCounts DEF LNext

\* The keys that collectResults lists when the run is over are there unless they
\* have expired.
LEMMA KeysCollected ==
  ASSUME LoadInv, CountInv, NEW r \in Run, TelemetryKeys(r)
  PROVE  Collected' /\ result'.total = None
<1>1. /\ UNCHANGED <<load, commands, pos, proc>> /\ commands[r] # << >>
      /\ result.total = None /\ result.found = {}
  BY DEF TelemetryKeys, CountInv, Collected
<1> DEFINE keys == {w \in Worker : load[w][r].sent # None}
           exact == \A w \in Assigned(commands[r][1]) : Settled(w, r)
           half == [result EXCEPT !.run = r]
           whole == [half EXCEPT !.keys = keys]
<1>2. result' = [whole EXCEPT !.exact = exact]
  BY DEF TelemetryKeys
<1> HIDE DEF keys, exact
<1>3. half = [run |-> r, keys |-> result.keys, found |-> result.found,
              total |-> result.total, exact |-> result.exact]
  BY DEF CountInv, Collected
<1> HIDE DEF half
<1>4. whole = [run |-> r, keys |-> keys, found |-> result.found, total |-> result.total,
               exact |-> result.exact]
  BY <1>3
<1> HIDE DEF whole
<1>5. result' = [run |-> r, keys |-> keys, found |-> result.found, total |-> result.total,
                 exact |-> exact]
  BY <1>2, <1>4
<1>6. ASSUME exact, NEW w \in Worker
      PROVE  Through(w, r) /\ (w \in keys \/ load[w][r].at = "none" \/ load[w][r].gone)
  <2>1. Told(w, r) /\ load[w][r].made \in Nat
    BY DEF CountInv, LoadInv, LoadTypeOK, Progress
  <2>2. load[w][r].at \in {"none", "over"} /\ Through(w, r)
    BY <1>1, <1>6, <2>1 DEF exact, Settled, Through, Told
  <2>3. QED
    BY <2>1, <2>2, LoadAssumption DEF keys, Told
<1>7. keys \in SUBSET Worker
  BY DEF keys
<1>8. \A w \in Worker : Through(w, r)' = Through(w, r)
  BY <1>1 DEF Through, Assigned, Connected
<1>9. result'.run = r /\ result'.found = {} /\ result'.keys = keys /\ result'.exact = exact
      /\ result'.total = None
  BY <1>1, <1>5
<1>10. result'.exact =>
         \A w \in Worker :
           /\ Through(w, r)'
           /\ \/ w \in keys \/ load'[w][r].at = "none" \/ load'[w][r].gone
  BY <1>1, <1>6, <1>8, <1>9
<1>11. result' = [run |-> result'.run, keys |-> result'.keys, found |-> result'.found,
                  total |-> result'.total, exact |-> result'.exact]
  BY <1>5
<1>12. QED
  BY <1>7, <1>9, <1>10, <1>11 DEF Collected

LEMMA CountStepInv ==
  ASSUME LoadInv, CountInv, [LNext]_lvars, LoadInv'
  PROVE  CountInv'
<1>1. /\ (\A w \in Worker, r \in Run : Told(w, r))'
      /\ \A w \in Worker, r \in Run : Through(w, r) => Through(w, r)' /\ Kept(w, r)
  BY StepCounts DEF Counting, Advanced
<1>2. ASSUME UNCHANGED <<result.run, result.keys, result.exact>>,
             result'.run = None => result'.total = None /\ result'.found = {},
             result.exact => result'.found \in SUBSET result.keys,
             result' = [run |-> result'.run, keys |-> result'.keys, found |-> result'.found,
                        total |-> result'.total, exact |-> result'.exact]
      PROVE  Collected'
  <2> SUFFICES ASSUME result.exact
               PROVE  /\ result.run \in Run /\ result.keys \in SUBSET Worker
                      /\ \A w \in Worker :
                           /\ Through(w, result.run)'
                           /\ \/ w \in result.keys \/ load'[w][result.run].at = "none"
                              \/ load'[w][result.run].gone
    BY <1>2 DEF Collected, Through
  <2>1. /\ result.run \in Run /\ result.keys \in SUBSET Worker
        /\ \A w \in Worker :
             /\ Through(w, result.run)
             /\ \/ w \in result.keys \/ load[w][result.run].at = "none"
                \/ load[w][result.run].gone
    BY DEF CountInv, Collected
  <2>2. ASSUME NEW w \in Worker
        PROVE  /\ Through(w, result.run)'
               /\ \/ w \in result.keys \/ load'[w][result.run].at = "none"
                  \/ load'[w][result.run].gone
    <3>1. \A r \in Run : Through(w, r) => Through(w, r)' /\ Kept(w, r)
      BY <1>1
    <3> DEFINE r == result.run
    <3>2. r \in Run /\ Through(w, r) /\ (w \in result.keys \/ load[w][r].at = "none" \/ load[w][r].gone)
      BY <2>1
    <3>3. Kept(w, r)
      BY <3>1, <3>2
    <3>4. load'[w][r].at = load[w][r].at /\ (load[w][r].gone => load'[w][r].gone)
      BY <3>3 DEF Kept
    <3>5. Through(w, result.run)'
      <4>1. UNCHANGED result.run
        BY <1>2
      <4> HIDE DEF r
      <4>2. ASSUME NEW q \in Run, Through(w, q)' PROVE q = result.run => Through(w, result.run)'
        BY <4>1, <4>2 DEF Through
      <4>3. QED
        BY <3>1, <3>2, <4>2 DEF r
    <3>6. QED
      BY <3>2, <3>4, <3>5
  <2>3. QED
    BY <2>1, <2>2
<1>3. ASSUME result.exact, NEW w \in Worker
      PROVE  /\ result.run \in Run
             /\ load'[w][result.run].at = load[w][result.run].at
             /\ load'[w][result.run].made = load[w][result.run].made
             /\ load[w][result.run].gone => load'[w][result.run].gone
  BY <1>1, <1>3 DEF CountInv, Collected, Kept
<1>4. CASE UNCHANGED result
  <2>1. Collected'
    BY <1>2, <1>4 DEF CountInv, Collected
  <2>2. ResultIsExact'
    <3> SUFFICES ASSUME result.total # None, result.exact
                 PROVE  /\ result.total
                             = SumFunction([w \in result.found |-> load'[w][result.run].made])
                        /\ \A w \in Worker \ result.found :
                             load'[w][result.run].at = "none" \/ load'[w][result.run].gone
      BY <1>4 DEF ResultIsExact
    <3>1. /\ result.total = SumFunction([w \in result.found |-> load[w][result.run].made])
          /\ \A w \in Worker \ result.found :
               load[w][result.run].at = "none" \/ load[w][result.run].gone
      BY DEF CountInv, ResultIsExact
    <3>2. result.found \in SUBSET Worker
      BY DEF CountInv, Collected
    <3>3. [w \in result.found |-> load'[w][result.run].made]
            = [w \in result.found |-> load[w][result.run].made]
      BY <1>3, <3>2
    <3>4. QED
      BY <1>3, <3>1, <3>3
  <2>3. QED
    BY <1>1, <2>1, <2>2 DEF CountInv
<1>5. ASSUME NEW r \in Run, TelemetryKeys(r) PROVE CountInv'
  <2>1. Collected' /\ result'.total = None
    BY <1>5, KeysCollected
  <2>2. ResultIsExact'
    BY <2>1 DEF ResultIsExact
  <2>3. QED
    BY <1>1, <2>1, <2>2 DEF CountInv
<1>6. CASE Aggregate
  <2> DEFINE found == {w \in result.keys : load[w][result.run].sent # None}
             f == [w \in found |-> load[w][result.run].sent]
             total == SumFunction(f)
             half == [result EXCEPT !.found = found]
  <2>1. result' = [half EXCEPT !.total = total] /\ UNCHANGED load /\ result.run # None
    BY <1>6 DEF Aggregate
  <2> HIDE DEF total
  <2>2. result' = [run |-> result.run, keys |-> result.keys, found |-> found,
                   total |-> total, exact |-> result.exact]
    <3> HIDE DEF found
    <3>1. half = [run |-> result.run, keys |-> result.keys, found |-> found,
                  total |-> result.total, exact |-> result.exact]
      BY DEF CountInv, Collected
    <3> HIDE DEF half
    <3>2. QED
      BY <2>1, <3>1
  <2>3. found \in SUBSET result.keys
    OBVIOUS
  <2>4. /\ result'.run = result.run /\ result'.keys = result.keys /\ result'.found = found
        /\ result'.total = total /\ result'.exact = result.exact
    <3> HIDE DEF found
    <3>1. QED
      BY <2>2
  <2>5. Collected'
    <3> HIDE DEF found
    <3>1. QED
      BY <1>2, <2>1, <2>2, <2>3, <2>4
  <2>6. ASSUME result.exact
        PROVE  /\ total = SumFunction([w \in found |-> load[w][result.run].made])
               /\ \A w \in Worker \ found :
                    load[w][result.run].at = "none" \/ load[w][result.run].gone
    <3> DEFINE r == result.run
    <3>1. /\ r \in Run /\ result.keys \in SUBSET Worker
          /\ \A w \in Worker : /\ Through(w, r) /\ Told(w, r)
                               /\ w \in result.keys \/ load[w][r].at = "none" \/ load[w][r].gone
      BY <2>6 DEF CountInv, Collected
    <3>2. ASSUME NEW w \in found PROVE load[w][r].sent = load[w][r].made
      <4>1. w \in Worker /\ load[w][r].sent # None
        BY <3>1
      <4>2. load[w][r].at = "over"
        BY <3>1, <4>1 DEF Through, Told
      <4>3. QED
        BY <3>1, <4>1, <4>2 DEF Told
    <3>3. f = [w \in found |-> load[w][result.run].made]
      BY <3>2
    <3>4. ASSUME NEW w \in Worker \ found PROVE load[w][r].at = "none" \/ load[w][r].gone
      <4>1. CASE w \notin result.keys
        BY <3>1, <4>1
      <4>2. CASE w \in result.keys
        <5>1. load[w][r].sent = None /\ load[w][r].made \in Nat
          BY <3>1, <4>2 DEF LoadInv, LoadTypeOK, Progress
        <5>2. QED
          BY <3>1, <5>1, LoadAssumption DEF Through, Told
      <4>3. QED
        BY <4>1, <4>2
    <3>5. QED
      BY <3>3, <3>4 DEF total
  <2>7. ResultIsExact'
    <3> HIDE DEF found
    <3>1. QED
      BY <2>1, <2>4, <2>6 DEF ResultIsExact
  <2>8. QED
    BY <1>1, <2>5, <2>7 DEF CountInv
<1>7. ASSUME NEW w \in Worker, Start(w) \/ StopWorker(w) \/ Quit(w) \/ Crash(w)
      PROVE  UNCHANGED result
  BY <1>7 DEF Start, StopWorker, Quit, Crash
<1>8. ASSUME NEW w \in Worker, NEW q \in Run,
             HandleCommand(w, q) \/ MakeRequest(w, q) \/ Publish(w, q) \/ Expire(w, q)
               \/ Execution(w, q)
      PROVE  UNCHANGED result
  BY <1>8 DEF HandleCommand, MakeRequest, Publish, Expire, Execution, FinalTelemetry,
              FinishLoad, LoadFails, Change
<1>9. ASSUME NEW r \in Run, StartRun(r) \/ StopRun(r) PROVE UNCHANGED result
  BY <1>9 DEF StartRun, StopRun
<1>10. UNCHANGED lvars => UNCHANGED result
  BY DEF lvars
<1>11. QED
  BY <1>4, <1>5, <1>6, <1>7, <1>8, <1>9, <1>10 DEF LNext

\* A result collected when the run was over counts every request of the workers it
\* found, and a worker that took part is missing only if its telemetry has expired: the
\* last telemetry told all and stays for 300 s (publishTelemetry, getWorkerTelemetries).
THEOREM ResultsAreExact == LSpec => []ResultIsExact
<1>1. LInit => LoadInv /\ CountInv
  BY LoadInitInv, CountInitInv
<1>2. LoadInv /\ CountInv /\ [LNext]_lvars => LoadInv' /\ CountInv'
  BY LoadStepInv, CountStepInv
<1>3. CountInv => ResultIsExact
  BY DEF CountInv
<1>4. QED
  BY <1>1, <1>2, <1>3, PTL DEF LSpec

-----------------------------------------------------------------------------
(* THE METRICS REGISTRY                                                    *)

-----------------------------------------------------------------------------
(* Sums of observations and of buckets.                                    *)

\* A sum tells nothing but what is added up.
LEMMA SumsAgree ==
  ASSUME NEW S, IsFiniteSet(S), NEW R, IsFiniteSet(R), NEW f \in [S -> Nat], NEW g \in [R -> Nat],
         NEW T \in SUBSET S, T \subseteq R, \A x \in T : f[x] = g[x]
  PROVE  Sums(f)[T] = Sums(g)[T]
<1> DEFINE Q == {s \in SUBSET T : Sums(f)[s] = Sums(g)[s]}
<1>1. IsFiniteSet(T)
  BY FS_Subset
<1>2. {} \in Q
  <2>1. Sums(f)[{}] = 0 /\ Sums(g)[{}] = 0
    BY SumsAddUp
  <2>2. QED
    BY <2>1
<1>3. ASSUME NEW s \in SUBSET T, s # {}, \A x \in s : s \ {x} \in Q PROVE s \in Q
  <2>1. PICK x \in s : TRUE
    BY <1>3
  <2>2. s \in SUBSET S /\ s \in SUBSET R
    OBVIOUS
  <2>3. Sums(f)[s] = f[x] + Sums(f)[s \ {x}]
    BY <2>2, AnyPlaceIsAdded
  <2>4. Sums(g)[s] = g[x] + Sums(g)[s \ {x}]
    BY <2>2, AnyPlaceIsAdded
  <2>5. Sums(f)[s \ {x}] = Sums(g)[s \ {x}] /\ f[x] = g[x]
    BY <1>3, <2>1
  <2>6. QED
    BY <2>3, <2>4, <2>5
<1>4. \A s \in SUBSET T : s \in Q
  <2> HIDE DEF Q
  <2>1. QED
    BY <1>1, <1>2, <1>3, SubsetInduction
<1>5. T \in Q
  BY <1>4
<1>6. QED
  BY <1>5

LEMMA OneIsAdded ==
  ASSUME NEW A, IsFiniteSet(A), NEW x, x \notin A,
         NEW f \in [A -> Nat], NEW g \in [A \cup {x} -> Nat], \A y \in A : g[y] = f[y]
  PROVE  SumFunction(f) \in Nat /\ SumFunction(g) = SumFunction(f) + g[x]
<1> DEFINE B == A \cup {x}
<1>1. IsFiniteSet(B) /\ A \in SUBSET A /\ A \in SUBSET B /\ B \in SUBSET B /\ x \in B /\ B \ {x} = A
  BY FS_AddElement
<1> HIDE DEF B
<1>2. g \in [B -> Nat]
  BY DEF B
<1>3. Sums(g)[B] = g[x] + Sums(g)[A]
  BY <1>1, <1>2, AnyPlaceIsAdded
<1>4. Sums(g)[A] = Sums(f)[A]
  BY <1>1, <1>2, SumsAgree
<1>5. Sums(f)[A] \in Nat
  <2>1. Sums(f) \in [SUBSET A -> Nat]
    BY SumsAddUp
  <2>2. QED
    BY <1>1, <2>1
<1>6. SumFunction(f) = Sums(f)[A] /\ SumFunction(g) = Sums(g)[B] /\ g[x] \in Nat
  BY <1>1, <1>2, SumIsLast
<1>7. QED
  BY <1>3, <1>4, <1>5, <1>6

\* g is f with one more place.
OneMore(g, f, x) ==
  /\ f \in [DOMAIN f -> Nat] /\ IsFiniteSet(DOMAIN f) /\ x \notin DOMAIN f
  /\ g \in [DOMAIN f \cup {x} -> Nat] /\ \A y \in DOMAIN f : g[y] = f[y]
AddsOne(g, f, x) == SumFunction(f) \in Nat /\ SumFunction(g) = SumFunction(f) + g[x]

LEMMA OneMoreIsAdded == \A g, f, x : OneMore(g, f, x) => AddsOne(g, f, x)
<1> TAKE g, f, x
<1> HAVE OneMore(g, f, x)
<1> QED
  BY OneIsAdded DEF OneMore, AddsOne

\* The sum of a list is its last element and the sum of the others.
LEMMA SumOfLast ==
  ASSUME NEW t \in Seq(Nat), NEW s \in Seq(Nat), NEW n \in Nat, Len(s) = n, Len(t) = n + 1,
         \A k \in 1..n : t[k] = s[k]
  PROVE  /\ SumFunction(s) \in Nat
         /\ SumFunction(t) = SumFunction(s) + t[n + 1]
<1>1. /\ DOMAIN s = 1..n /\ s \in [1..n -> Nat]
      /\ t \in [1..n \cup {n + 1} -> Nat] /\ n + 1 \notin 1..n
  <2>1. 1..n + 1 = 1..n \cup {n + 1}
    OBVIOUS
  <2>2. t \in [1..n + 1 -> Nat]
    OBVIOUS
  <2>3. QED
    BY <2>1, <2>2
<1>2. IsFiniteSet(1..n)
  BY FS_Interval
<1>3. OneMore(t, s, n + 1)
  BY <1>1, <1>2 DEF OneMore
<1>4. AddsOne(t, s, n + 1)
  BY <1>3, OneMoreIsAdded
<1>5. QED
  BY <1>4 DEF AddsOne

LEMMA SumOfNothing == SumFunction(<< >>) = 0
<1>1. << >> \in [{} -> Nat] /\ IsFiniteSet({}) /\ DOMAIN << >> = {}
  BY FS_EmptySet
<1>2. Sums(<< >>)[{}] = 0
  BY <1>1, SumsAddUp
<1>3. QED
  BY <1>1, <1>2, SumIsLast

LEMMA SumOfAppended ==
  ASSUME NEW s \in Seq(Nat), NEW v \in Nat
  PROVE  SumFunction(Append(s, v)) = SumFunction(s) + v
<1> DEFINE t == Append(s, v)
           n == Len(s)
<1>1. /\ t \in Seq(Nat) /\ n \in Nat /\ Len(t) = n + 1 /\ t[n + 1] = v
      /\ \A k \in 1..n : t[k] = s[k]
  BY AppendProperties
<1> HIDE DEF t
<1>2. SumFunction(t) = SumFunction(s) + t[n + 1]
  BY <1>1, SumOfLast
<1>3. QED
  BY <1>1, <1>2 DEF t

\* What the exporter tells of a bucket is at least what the bucket counts.
LEMMA CumulativeIsMore ==
  ASSUME NEW c \in Seq(Nat), NEW i \in 1..Len(c)
  PROVE  /\ Cumulative(c, i) \in Nat /\ Cumulative(c, i) >= c[i]
         /\ i = 1 => Cumulative(c, i) = c[1]
<1>1. i \in Nat /\ i >= 1 /\ i <= Len(c) /\ Len(c) \in Nat /\ i - 1 \in Nat /\ (i - 1) + 1 = i
  OBVIOUS
<1> DEFINE t == SubSeq(c, 1, i)
           s == SubSeq(c, 1, i - 1)
<1>2. t \in Seq(Nat) /\ Len(t) = i /\ \A k \in 1..i : t[k] = c[k]
  <2>1. \A k \in 1..i : c[k] \in Nat /\ 1 + k - 1 = k
    BY <1>1
  <2>2. 1 \in Int /\ i \in Int /\ 1 <= i /\ i - 1 + 1 = i
    BY <1>1
  <2>3. QED
    BY <2>1, <2>2, SubSeqProperties
<1>3. s \in Seq(Nat) /\ Len(s) = i - 1 /\ \A k \in 1..i - 1 : s[k] = c[k]
  <2>1. CASE i = 1
    <3>1. s = << >>
      BY <1>1, <2>1, EmptySeq
    <3>2. QED
      BY <2>1, <3>1
  <2>2. CASE i # 1
    <3> DEFINE j == i - 1
    <3>1. 1 \in Int /\ j \in Int /\ 1 <= j /\ j - 1 + 1 = j /\ \A k \in 1..j : c[k] \in Nat /\ 1 + k - 1 = k
      BY <1>1, <2>2
    <3>2. s = SubSeq(c, 1, j)
      OBVIOUS
    <3> HIDE DEF j, s
    <3>3. s \in Seq(Nat) /\ Len(s) = j /\ \A k \in 1..j : s[k] = c[k]
      BY <3>1, <3>2, SubSeqProperties
    <3>4. QED
      BY <3>3 DEF j
  <2>3. QED
    BY <2>1, <2>2
<1> HIDE DEF s, t
<1>4. SumFunction(s) \in Nat /\ SumFunction(t) = SumFunction(s) + t[i]
  <2> DEFINE j == i - 1
  <2>1. j \in Nat /\ Len(s) = j /\ Len(t) = j + 1 /\ j + 1 = i
    BY <1>1, <1>2, <1>3
  <2>4. \A k \in 1..j : t[k] = s[k]
    <3>1. \A k \in 1..j : k \in 1..i /\ k \in 1..i - 1
      BY <1>1
    <3>2. QED
      BY <1>2, <1>3, <3>1
  <2> HIDE DEF j
  <2>2. SumFunction(s) \in Nat /\ SumFunction(t) = SumFunction(s) + t[j + 1]
    BY <1>2, <1>3, <2>1, <2>4, SumOfLast
  <2>3. QED
    BY <2>1, <2>2
<1>5. Cumulative(c, i) = SumFunction(s) + c[i] /\ c[i] \in Nat
  BY <1>1, <1>2, <1>4 DEF Cumulative, t
<1>6. i = 1 => SumFunction(s) = 0
  <2>1. i = 1 => s = << >>
    BY <1>3
  <2>2. QED
    BY <2>1, SumOfNothing
<1>7. QED
  BY <1>4, <1>5, <1>6

-----------------------------------------------------------------------------
(* The bounds of the buckets.                                              *)

Rising(s) == \A i, j \in DOMAIN s : i < j => s[i] < s[j]

\* Any finite set of numbers can be put in order.
LEMMA EnumerationExists ==
  ASSUME NEW S \in SUBSET Nat, IsFiniteSet(S)
  PROVE  \E s \in [1..Cardinality(S) -> S] : Rising(s)
<1> DEFINE Q == {T \in SUBSET S : \E s \in [1..Cardinality(T) -> T] : Rising(s)}
<1>1. {} \in Q
  <2>1. Cardinality({}) = 0
    BY FS_EmptySet
  <2>2. 1..0 = {} /\ << >> \in [{} -> {}] /\ Rising(<< >>)
    BY DEF Rising
  <2>3. QED
    BY <2>1, <2>2
<1>2. ASSUME NEW T \in SUBSET S, T # {}, \A x \in T : T \ {x} \in Q PROVE T \in Q
  <2>1. PICK x \in T : \A y \in T : ~(y < x)
    <3>1. PICK x \in T : \A y \in T : ~(<<y, x>> \in OpToRel(<, Nat))
      BY <1>2, NatLessThanWellFounded, WFMin
    <3>2. QED
      BY <3>1 DEF OpToRel
  <2> DEFINE n == Cardinality(T \ {x})
  <2>2. n \in Nat /\ Cardinality(T) = n + 1
    <3>1. IsFiniteSet(T) /\ IsFiniteSet(T \ {x})
      BY FS_Subset
    <3>2. n = Cardinality(T) - 1 /\ n \in Nat /\ Cardinality(T) \in Nat
      BY <2>1, <3>1, FS_RemoveElement, FS_CardinalityType
    <3>3. QED
      BY <3>2
  <2>3. PICK s \in [1..n -> T \ {x}] : Rising(s)
    BY <1>2, <2>1
  <2> HIDE DEF n
  <2> DEFINE r == [i \in 1..n + 1 |-> IF i = 1 THEN x ELSE s[i - 1]]
  <2>4. ASSUME NEW i \in 1..n + 1, i # 1 PROVE i - 1 \in 1..n /\ s[i - 1] \in T \ {x} /\ r[i] = s[i - 1]
    <3>1. i - 1 \in 1..n
      BY <2>2, <2>4
    <3>2. QED
      BY <2>3, <2>4, <3>1
  <2>5. r[1] = x /\ r \in [1..n + 1 -> T]
    BY <2>1, <2>2, <2>4
  <2>6. ASSUME NEW i \in 1..n + 1, NEW j \in 1..n + 1, i < j PROVE r[i] < r[j]
    <3>1. j # 1 /\ i - 1 < j - 1
      BY <2>2, <2>6
    <3>2. j - 1 \in 1..n /\ s[j - 1] \in T \ {x} /\ r[j] = s[j - 1]
      BY <2>4, <3>1
    <3>3. CASE i = 1
      <4>1. s[j - 1] \in Nat /\ x \in Nat /\ s[j - 1] # x /\ ~(s[j - 1] < x)
        BY <2>1, <3>2
      <4>2. QED
        BY <2>5, <3>2, <3>3, <4>1
    <3>4. CASE i # 1
      <4>1. i - 1 \in 1..n /\ r[i] = s[i - 1]
        BY <2>4, <3>4
      <4>2. s[i - 1] < s[j - 1]
        BY <2>3, <3>1, <3>2, <4>1 DEF Rising
      <4>3. QED
        BY <3>2, <4>1, <4>2
    <3>5. QED
      BY <3>3, <3>4
  <2> HIDE DEF r
  <2>7. Rising(r)
    BY <2>5, <2>6 DEF Rising
  <2>8. QED
    BY <2>2, <2>5, <2>7
<1>3. S \in Q
  <2> HIDE DEF Q
  <2>1. \A T \in SUBSET S : T \in Q
    BY <1>1, <1>2, SubsetInduction
  <2>2. QED
    BY <2>1
<1>4. QED
  BY <1>3

BucketCount == Cardinality(Buckets)

LEMMA BoundsRise ==
  /\ BucketCount \in Nat /\ Bounds \in [1..BucketCount -> Nat]
  /\ \A i, j \in 1..BucketCount : i < j => Bounds[i] < Bounds[j]
<1>1. \E s \in [1..Cardinality(Buckets) -> Buckets] : Rising(s)
  BY MetricsAssumption, EnumerationExists
<1>2. Bounds \in [1..Cardinality(Buckets) -> Buckets] /\ Rising(Bounds)
  BY <1>1 DEF Bounds, Rising
<1>3. QED
  BY <1>2, MetricsAssumption, FS_CardinalityType DEF Rising, BucketCount

-----------------------------------------------------------------------------
(* What a record tells.                                                    *)

Below(s, le) == Cardinality({i \in DOMAIN s : s[i] <= le})

LEMMA BelowAppended ==
  ASSUME NEW s \in Seq(Nat), NEW v \in Nat, NEW le \in Nat
  PROVE  /\ Below(s, le) \in Nat
         /\ Below(Append(s, v), le) = IF v <= le THEN Below(s, le) + 1 ELSE Below(s, le)
<1> DEFINE n == Len(s)
           t == Append(s, v)
           A == {i \in 1..n : s[i] <= le}
<1>1. /\ n \in Nat /\ DOMAIN s = 1..n /\ DOMAIN t = 1..n + 1 /\ t[n + 1] = v
      /\ \A k \in 1..n : t[k] = s[k]
  BY AppendProperties
<1>2. IsFiniteSet(A) /\ Cardinality(A) \in Nat
  <2>1. IsFiniteSet(1..n) /\ A \subseteq 1..n
    BY <1>1, FS_Interval
  <2>2. IsFiniteSet(A)
    BY <2>1, FS_Subset
  <2>3. QED
    BY <2>2, FS_CardinalityType
<1>3. n + 1 \notin A /\ 1..n + 1 = 1..n \cup {n + 1}
  BY <1>1
<1>4. {i \in DOMAIN t : t[i] <= le} = IF v <= le THEN A \cup {n + 1} ELSE A
  <2> HIDE DEF t, n
  <2> DEFINE B == {i \in DOMAIN t : t[i] <= le}
  <2>1. ASSUME NEW i \in 1..n PROVE i \in B <=> i \in A
    BY <1>1, <1>3
  <2>2. n + 1 \in B <=> v <= le
    BY <1>1, <1>3
  <2>3. B \subseteq 1..n \cup {n + 1} /\ A \subseteq 1..n
    BY <1>1, <1>3
  <2> HIDE DEF A, B
  <2>4. CASE v <= le
    <3>1. B = A \cup {n + 1}
      BY <1>3, <2>1, <2>2, <2>3, <2>4
    <3>2. QED
      BY <2>4, <3>1 DEF B
  <2>5. CASE ~(v <= le)
    <3>1. B = A
      BY <1>3, <2>1, <2>2, <2>3, <2>5
    <3>2. QED
      BY <2>5, <3>1 DEF B
  <2>6. QED
    BY <2>4, <2>5
<1>5. Cardinality(A \cup {n + 1}) = Cardinality(A) + 1
  BY <1>2, <1>3, FS_AddElement
<1>6. Below(s, le) = Cardinality(A)
  BY <1>1 DEF Below
<1> HIDE DEF A, t, n
<1>7. Below(t, le) = IF v <= le THEN Cardinality(A) + 1 ELSE Cardinality(A)
  BY <1>4, <1>5 DEF Below
<1>8. QED
  BY <1>2, <1>6, <1>7 DEF t

\* A record counts and adds up a list of values.
Tallied(record, s) ==
  /\ record.buckets \in [1..BucketCount -> Nat]
  /\ \A i \in 1..BucketCount : record.buckets[i] = Below(s, Bounds[i])
  /\ record.sum = SumFunction(s) /\ record.count = Len(s)

LEMMA NewRecordTalliesNothing == Tallied(NewRecord, << >>)
<1>1. DOMAIN Bounds = 1..BucketCount
  BY BoundsRise
<1>2. ASSUME NEW i \in 1..BucketCount PROVE Below(<< >>, Bounds[i]) = 0
  <2>1. {k \in DOMAIN << >> : << >>[k] <= Bounds[i]} = {}
    OBVIOUS
  <2>2. QED
    BY <2>1, FS_EmptySet DEF Below
<1>3. QED
  BY <1>1, <1>2, SumOfNothing DEF Tallied, NewRecord

LEMMA OneMoreTallied ==
  ASSUME NEW record, NEW s \in Seq(Nat), NEW v \in Nat, Tallied(record, s)
  PROVE  Tallied([buckets |-> Counted(record.buckets, v), sum |-> record.sum + v,
                  count |-> record.count + 1], Append(s, v))
<1> DEFINE c == Counted(record.buckets, v)
<1>1. DOMAIN record.buckets = 1..BucketCount
  BY DEF Tallied
<1>2. ASSUME NEW i \in 1..BucketCount PROVE c[i] = Below(Append(s, v), Bounds[i]) /\ c[i] \in Nat
  <2>1. c[i] = IF v <= Bounds[i] THEN record.buckets[i] + 1 ELSE record.buckets[i]
    BY <1>1 DEF Counted
  <2>2. record.buckets[i] = Below(s, Bounds[i]) /\ record.buckets[i] \in Nat
    BY DEF Tallied
  <2>3. Bounds[i] \in Nat
    BY BoundsRise
  <2> DEFINE le == Bounds[i]
  <2>4. le \in Nat
    BY <2>3
  <2> HIDE DEF le
  <2>5. Below(Append(s, v), le) = IF v <= le THEN Below(s, le) + 1 ELSE Below(s, le)
    BY <2>4, BelowAppended
  <2>6. QED
    BY <2>1, <2>2, <2>5 DEF le
<1>3. c \in [1..BucketCount -> Nat]
  <2>1. c = [i \in 1..BucketCount |-> c[i]]
    BY <1>1 DEF Counted
  <2> HIDE DEF c
  <2>2. QED
    BY <1>2, <2>1
<1>4. SumFunction(Append(s, v)) = SumFunction(s) + v
  BY SumOfAppended
<1>5. Len(Append(s, v)) = Len(s) + 1
  BY AppendProperties
<1> HIDE DEF c
<1>6. Tallied([buckets |-> c, sum |-> record.sum + v, count |-> record.count + 1], Append(s, v))
  BY <1>2, <1>3, <1>4, <1>5 DEF Tallied
<1>7. QED
  BY <1>6 DEF c

-----------------------------------------------------------------------------
(* The registry.                                                           *)

Histogram == {m \in Metric : m.kind = "histogram"}

\* Every record tallies the values it was given, and no other metric has a record.
MetricsInv ==
  /\ DOMAIN records \subseteq Histogram \X Labels
  /\ \A k \in DOMAIN values : \E m \in Metric, l \in Labels : k = <<m, l>> /\ m.kind # "histogram"
  /\ DOMAIN seen = DOMAIN records
  /\ \A k \in DOMAIN records : seen[k] \in Seq(Nat) /\ Tallied(records[k], seen[k])

LEMMA MetricsInvInit == MetricsInit => MetricsInv
BY DEF MetricsInit, MetricsInv

\* A value that is written keeps the kinds apart.
LEMMA WritingKeepsKinds ==
  ASSUME MetricsInv, NEW m \in Metric, NEW l \in Labels, NEW v, m.kind # "histogram",
         values' = Write(values, <<m, l>>, v), UNCHANGED <<records, seen>>
  PROVE  MetricsInv'
<1>1. DOMAIN values' = DOMAIN values \cup {<<m, l>>}
  BY DEF Write
<1>2. QED
  BY <1>1 DEF MetricsInv

LEMMA ObservingTallies ==
  ASSUME MetricsInv, NEW m \in Metric, NEW l \in Labels, NEW v \in Value,
         ObserveHistogram(m, l, v)
  PROVE  MetricsInv'
<1> DEFINE key == <<m, l>>
           record == Lookup(records, key, NewRecord)
           s == Lookup(seen, key, << >>)
           new == [buckets |-> Counted(record.buckets, v), sum |-> record.sum + v,
                   count |-> record.count + 1]
<1>1. v \in Nat /\ key \in Histogram \X Labels
  BY MetricsAssumption DEF ObserveHistogram, Writable, Histogram
<1>2. s \in Seq(Nat) /\ Tallied(record, s)
  <2>1. CASE key \in DOMAIN records
    BY <2>1 DEF MetricsInv, Lookup
  <2>2. CASE key \notin DOMAIN records
    BY <2>2, NewRecordTalliesNothing DEF MetricsInv, Lookup
  <2>3. QED
    BY <2>1, <2>2
<1>3. /\ records' = Write(records, key, new) /\ seen' = Write(seen, key, Append(s, v))
      /\ values' = values
  BY DEF ObserveHistogram
<1> HIDE DEF key, record, s
<1>4. Append(s, v) \in Seq(Nat) /\ Tallied(new, Append(s, v))
  BY <1>1, <1>2, OneMoreTallied, AppendProperties
<1> HIDE DEF new
<1>5. /\ DOMAIN records' = DOMAIN records \cup {key} /\ DOMAIN seen' = DOMAIN seen \cup {key}
      /\ records'[key] = new /\ seen'[key] = Append(s, v)
      /\ \A k \in DOMAIN records : k # key => records'[k] = records[k]
      /\ \A k \in DOMAIN seen : k # key => seen'[k] = seen[k]
  BY <1>3 DEF Write
<1>6. ASSUME NEW k \in DOMAIN records' PROVE seen'[k] \in Seq(Nat) /\ Tallied(records'[k], seen'[k])
  <2>1. CASE k = key
    BY <1>4, <1>5, <2>1
  <2>2. CASE k # key
    BY <1>5, <2>2 DEF MetricsInv
  <2>3. QED
    BY <2>1, <2>2
<1>7. (\A k \in DOMAIN records : seen[k] \in Seq(Nat) /\ Tallied(records[k], seen[k]))'
  BY <1>6
<1>8. QED
  BY <1>1, <1>3, <1>5, <1>7 DEF MetricsInv

LEMMA MetricsInvStep == MetricsInv /\ [MetricsNext]_metricsVars => MetricsInv'
<1> SUFFICES ASSUME MetricsInv, [MetricsNext]_metricsVars PROVE MetricsInv'
  OBVIOUS
<1>1. ASSUME NEW m \in Metric, Register(m) PROVE MetricsInv'
  BY <1>1 DEF Register, MetricsInv
<1>2. ASSUME NEW m \in Metric, NEW l \in Labels, IncrementCounter(m, l) PROVE MetricsInv'
  <2>1. m.kind # "histogram"
    BY <1>2 DEF IncrementCounter, Writable
  <2>2. QED
    BY <1>2, <2>1, WritingKeepsKinds DEF IncrementCounter
<1>3. ASSUME NEW m \in Metric, NEW l \in Labels, NEW v \in Value, SetGauge(m, l, v) PROVE MetricsInv'
  <2>1. m.kind # "histogram"
    BY <1>3 DEF SetGauge, Writable
  <2>2. QED
    BY <1>3, <2>1, WritingKeepsKinds DEF SetGauge
<1>4. CASE GetMetricsText
  BY <1>4 DEF GetMetricsText, MetricsInv
<1>5. CASE ResetMetrics
  BY <1>5 DEF ResetMetrics, MetricsInv
<1>6. CASE UNCHANGED metricsVars
  BY <1>6 DEF metricsVars, MetricsInv
<1>7. QED
  BY <1>1, <1>2, <1>3, <1>4, <1>5, <1>6, ObservingTallies DEF MetricsNext

TellsOf(sample, s) ==
  CASE sample.kind = "bucket" ->
         /\ sample.value >= Below(s, sample.le)
         /\ sample.le = Bounds[1] => sample.value = Below(s, sample.le)
    [] sample.kind = "sum" -> sample.value = SumFunction(s)
    [] OTHER -> sample.value = Len(s)

\* What is said of a record is what it has tallied.
LEMMA SamplesAreTrue ==
  ASSUME NEW key, NEW record, NEW s \in Seq(Nat), Tallied(record, s), NEW sample \in Samples(key, record)
  PROVE  /\ sample.metric = key
         /\ TellsOf(sample, s)
<1>1. DOMAIN Bounds = 1..BucketCount
  BY BoundsRise
<1>2. ASSUME NEW i \in 1..BucketCount,
             sample = Sample(key, "bucket", Bounds[i], Cumulative(record.buckets, i))
      PROVE  /\ sample.value >= Below(s, sample.le)
             /\ sample.le = Bounds[1] => sample.value = Below(s, sample.le)
  <2> DEFINE c == record.buckets
  <2>1. c \in Seq(Nat) /\ Len(c) = BucketCount
    <3>1. c \in [1..BucketCount -> Nat] /\ BucketCount \in Nat
      BY BoundsRise DEF Tallied
    <3> HIDE DEF c
    <3>2. QED
      BY <3>1
  <2>2. c[i] = Below(s, Bounds[i])
    BY DEF Tallied
  <2> HIDE DEF c
  <2>3. Cumulative(c, i) \in Nat /\ Cumulative(c, i) >= c[i] /\ (i = 1 => Cumulative(c, i) = c[1])
    BY <2>1, CumulativeIsMore
  <2>4. sample.value = Cumulative(c, i) /\ sample.le = Bounds[i]
    BY <1>2 DEF Sample, c
  <2>5. Bounds[i] = Bounds[1] => i = 1
    <3>1. 1 \in 1..BucketCount /\ Bounds[1] \in Nat /\ (1 < i => Bounds[1] < Bounds[i])
      BY BoundsRise
    <3>2. QED
      BY <3>1
  <2>6. QED
    BY <2>2, <2>3, <2>4, <2>5
<1>3. \/ \E i \in 1..BucketCount : sample = Sample(key, "bucket", Bounds[i], Cumulative(record.buckets, i))
      \/ sample \in {Sample(key, "+Inf", 0, record.count), Sample(key, "sum", 0, record.sum),
                     Sample(key, "count", 0, record.count)}
  BY <1>1 DEF Samples
<1>4. CASE \E i \in 1..BucketCount : sample = Sample(key, "bucket", Bounds[i], Cumulative(record.buckets, i))
  <2>1. PICK i \in 1..BucketCount : sample = Sample(key, "bucket", Bounds[i], Cumulative(record.buckets, i))
    BY <1>4
  <2>2. sample.metric = key /\ sample.kind = "bucket"
    BY <2>1 DEF Sample
  <2>3. QED
    BY <1>2, <2>1, <2>2 DEF TellsOf
<1>5. CASE sample \in {Sample(key, "+Inf", 0, record.count), Sample(key, "sum", 0, record.sum),
                       Sample(key, "count", 0, record.count)}
  BY <1>5 DEF Sample, Tallied, TellsOf
<1>6. QED
  BY <1>3, <1>4, <1>5

\* A sample of a histogram's record comes from that record alone.
LEMMA SamplesHaveARecord ==
  ASSUME MetricsInv, GetMetricsText, NEW key \in DOMAIN records, NEW sample \in scrape',
         sample.metric = key
  PROVE  sample \in Samples(key, records[key])
<1>1. PICK m \in Histogram, l \in Labels : key = <<m, l>>
  BY DEF MetricsInv
<1>2. \/ \E k \in DOMAIN records : sample \in Samples(k, records[k])
      \/ \E k \in DOMAIN values : sample = Sample(k, "value", 0, values[k])
      \/ \E n \in registered :
           /\ \A j \in Labels : <<n, j>> \notin DOMAIN values \cup DOMAIN records
           /\ \/ sample \in Samples(<<n, "none">>, NewRecord)
              \/ sample = Sample(<<n, "none">>, "value", 0, 0)
  <2>1. \/ \E k \in DOMAIN records : sample \in Samples(k, records[k])
        \/ \E k \in DOMAIN values : sample = Sample(k, "value", 0, values[k])
        \/ \E n \in Silent : sample \in Zeroes(n)
    <3> DEFINE Recorded == UNION {Samples(k, records[k]) : k \in DOMAIN records}
               Valued == {Sample(k, "value", 0, values[k]) : k \in DOMAIN values}
               Nothing == UNION {Zeroes(n) : n \in Silent}
    <3>1. sample \in Recorded \cup Valued \cup Nothing
      BY Zenon DEF GetMetricsText
    <3>2. sample \in Recorded => \E k \in DOMAIN records : sample \in Samples(k, records[k])
      OBVIOUS
    <3>3. sample \in Valued => \E k \in DOMAIN values : sample = Sample(k, "value", 0, values[k])
      OBVIOUS
    <3>4. sample \in Nothing => \E n \in Silent : sample \in Zeroes(n)
      OBVIOUS
    <3> HIDE DEF Recorded, Valued, Nothing
    <3>5. QED
      BY <3>1, <3>2, <3>3, <3>4
  <2>2. ASSUME NEW n \in Silent, sample \in Zeroes(n)
        PROVE  /\ n \in registered /\ \A j \in Labels : <<n, j>> \notin DOMAIN values \cup DOMAIN records
               /\ \/ sample \in Samples(<<n, "none">>, NewRecord)
                  \/ sample = Sample(<<n, "none">>, "value", 0, 0)
    BY <2>2 DEF Silent, Zeroes
  <2>3. QED
    BY <2>1, <2>2
<1>3. \A k, r : sample \in Samples(k, r) => sample.metric = k
  BY DEF Samples, Sample
<1>4. \A k, v : sample = Sample(k, "value", 0, v) => sample.metric = k
  BY DEF Sample
<1>5. key \notin DOMAIN values
  BY <1>1 DEF MetricsInv, Histogram
<1>6. ASSUME NEW n \in registered, \A j \in Labels : <<n, j>> \notin DOMAIN values \cup DOMAIN records
      PROVE  key # <<n, "none">>
  BY <1>1, <1>6
<1>7. QED
  BY <1>2, <1>3, <1>4, <1>5, <1>6

\* Whatever histograms are given and whenever they are reset, the first bucket, the sum and
\* the count of a scrape are exact and no bucket is told too low (prometheus-exporter.ts).
THEOREM ScrapesAreTrue == MetricsSpec => ScrapeIsTrue
<1> DEFINE True(key, sample) ==
      CASE sample.kind = "bucket" ->
             /\ sample.value >= Observed(key, sample.le)
             /\ sample.le = Bounds[1] => sample.value = Observed(key, sample.le)
        [] sample.kind = "sum" -> sample.value = SumFunction(seen[key])
        [] OTHER -> sample.value = Len(seen[key])
    Scraped == scrape' # scrape =>
                 \A key \in DOMAIN records : \A sample \in {s \in scrape' : s.metric = key} : True(key, sample)
<1>1. MetricsInv /\ [MetricsNext]_metricsVars => [Scraped]_metricsVars
  <2> SUFFICES ASSUME MetricsInv, MetricsNext, scrape' # scrape,
                      NEW key \in DOMAIN records, NEW sample \in scrape', sample.metric = key
               PROVE  True(key, sample)
    BY DEF metricsVars
  <2>1. GetMetricsText
    BY DEF MetricsNext, Register, IncrementCounter, SetGauge, ObserveHistogram, ResetMetrics
  <2>2. sample \in Samples(key, records[key])
    BY <2>1, SamplesHaveARecord
  <2>3. seen[key] \in Seq(Nat) /\ Tallied(records[key], seen[key])
    BY DEF MetricsInv
  <2>4. \A le : Observed(key, le) = Below(seen[key], le)
    BY DEF Observed, Below
  <2> DEFINE s == seen[key]
             r == records[key]
  <2>5. s \in Seq(Nat) /\ Tallied(r, s) /\ sample \in Samples(key, r)
    BY <2>2, <2>3
  <2> HIDE DEF s, r
  <2>6. TellsOf(sample, s)
    BY <2>5, SamplesAreTrue
  <2>7. QED
    BY <2>4, <2>6 DEF s, TellsOf
<1>2. QED
  BY <1>1, MetricsInvInit, MetricsInvStep, PTL DEF MetricsSpec, ScrapeIsTrue
=============================================================================
