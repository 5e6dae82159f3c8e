----------------------- MODULE PersistenceProofs ----------------------------
(***************************************************************************)
(* Theorems about what is kept: artifacts, for any contents, any number of *)
(* overlapping calls and any number of failures; and the migrations of the *)
(* database, for any set of pods, any releases and any number of failures. *)
(***************************************************************************)
EXTENDS Storage, Migrate, FiniteSetTheorems, TLAPS

-----------------------------------------------------------------------------
(* ARTIFACTS                                                               *)

-----------------------------------------------------------------------------
(* The invariant.                                                          *)

Stop == {"idle", "look", "bucket", "put", "insert", "object", "row", "select", "get",
         "done", "failed"}

StorageTypeOK ==
  /\ contents \subseteq Content
  /\ bucket \in BOOLEAN
  /\ object \in contents \cup {None} /\ record \in contents \cup {None}
  /\ call \in [Client -> [at : Stop, op : Upload \cup Delete \cup Read \cup {None},
                          content : contents \cup {None}]]
  /\ acked \in BOOLEAN /\ marks \subseteq Marks

\* Which call can be where.
Stations ==
  \A c \in Client :
    /\ call[c].at \in {"look", "bucket", "put", "insert"} =>
         call[c].op \in Upload /\ call[c].content \in contents
    /\ call[c].at \in {"object", "row"} => call[c].op \in Delete
    /\ call[c].at = "get" => call[c].op \in Read
    /\ call[c].at = "select" => call[c].op \in Delete \cup Read

\* While nothing has happened that may break it.
Clean ==
  marks = {} =>
    /\ Under(Delete) # {} => Under(Upload) = {} /\ ~acked
    /\ record # None => object = record \/ \E c \in Client : call[c].at = "row"
    /\ acked => record # None
    /\ \A c, d \in Under(Upload) : call[c].content = call[d].content
    /\ \A c \in Under(Upload) : record \in {None, call[c].content}
    /\ \A c \in Client : call[c].at = "insert" => object = call[c].content

StorageInv == StorageTypeOK /\ Stations /\ Clean

-----------------------------------------------------------------------------
(* Contents.                                                               *)

\* Unless several contents may be uploaded, all uploads have the same.
LEMMA OneContent ==
  ASSUME StorageTypeOK, ~(Cardinality(contents) > 1), NEW x \in contents,
         NEW y \in contents
  PROVE  x = y
<1> SUFFICES ASSUME x # y PROVE FALSE
  OBVIOUS
<1>1. IsFiniteSet(contents) /\ Cardinality(contents) \in Nat
  BY StorageAssumption, FS_Subset, FS_CardinalityType DEF StorageTypeOK
<1>2. /\ IsFiniteSet(contents \ {x}) /\ Cardinality(contents \ {x}) = Cardinality(contents) - 1
      /\ Cardinality(contents \ {x}) \in Nat
  BY <1>1, FS_RemoveElement, FS_CardinalityType
<1>3. /\ IsFiniteSet((contents \ {x}) \ {y}) /\ Cardinality((contents \ {x}) \ {y}) \in Nat
      /\ Cardinality((contents \ {x}) \ {y}) = Cardinality(contents \ {x}) - 1
  BY <1>2, FS_RemoveElement, FS_CardinalityType
<1>4. QED
  BY <1>1, <1>2, <1>3

LEMMA StorageInitInv == ASSUME StorageInit PROVE StorageInv
<1>1. StorageTypeOK
  BY DEF StorageInit, StorageTypeOK, Stop
<1>2. Stations
  BY DEF StorageInit, Stations
<1>3. Under(Delete) = {} /\ Under(Upload) = {}
  BY DEF StorageInit, Under
<1>4. Clean
  BY <1>3 DEF StorageInit, Clean
<1>5. QED
  BY <1>1, <1>2, <1>4 DEF StorageInv

-----------------------------------------------------------------------------
(* Beginning and ending.                                                   *)

\* An upload that is under way has its content.
LEMMA UploadHasContent ==
  ASSUME StorageTypeOK, Stations, NEW c \in Under(Upload)
  PROVE  /\ c \in Client /\ call[c].content \in contents /\ c \notin Under(Delete)
         /\ call[c].at \in {"look", "bucket", "put", "insert"}
<1>1. c \in Client /\ call[c].op \in Upload /\ call[c].at \notin {"idle", "done", "failed"}
  BY DEF Under
<1>2. call[c].op \notin Delete \cup Read
  BY <1>1 DEF Upload, Delete, Read
<1>3. call[c].at \in Stop
  BY <1>1 DEF StorageTypeOK
<1>4. call[c].at \in {"look", "bucket", "put", "insert"}
  BY <1>1, <1>2, <1>3 DEF Stations, Stop
<1>5. QED
  BY <1>1, <1>2, <1>4 DEF Stations, Under

LEMMA BeginInv ==
  ASSUME StorageInv, NEW c \in Client, NEW op \in Upload \cup Delete \cup Read,
         NEW content \in contents \cup {None}, op \in Upload => content \in contents,
         StartCall(c, op, content)
  PROVE  StorageInv'
<1> DEFINE new == [at |-> First[op], op |-> op, content |-> content]
<1>1. StorageTypeOK /\ Stations /\ call[c].at \in {"idle", "done", "failed"}
  BY DEF StorageInv, StartCall
<1>2. /\ op \in Upload => First[op] \in {"look", "bucket"} /\ op \notin Delete
      /\ op \in Delete => First[op] \in {"object", "select"} /\ op \notin Upload
      /\ op \in Read => First[op] = "select" /\ op \notin Upload /\ op \notin Delete
      /\ First[op] \in Stop /\ First[op] \notin {"idle", "done", "failed"}
  BY DEF First, Upload, Delete, Read, Stop
<1>3. /\ new \in [at : Stop, op : Upload \cup Delete \cup Read \cup {None},
                  content : contents \cup {None}]
      /\ new.at = First[op] /\ new.op = op /\ new.content = content
  BY <1>2
<1>4. call' = [call EXCEPT ![c] = new] /\ UNCHANGED <<contents, bucket, object, record>>
  BY DEF StartCall
<1> HIDE DEF new
<1>5. /\ call' \in [Client -> [at : Stop, op : Upload \cup Delete \cup Read \cup {None},
                               content : contents \cup {None}]]
      /\ call'[c] = new /\ \A d \in Client \ {c} : call'[d] = call[d]
  BY <1>1, <1>3, <1>4 DEF StorageTypeOK
<1>6. marks' \subseteq Marks /\ (marks' = {} => marks = {})
  BY <1>1 DEF StartCall, Marks, StorageTypeOK
<1>7. acked' = (acked /\ op \notin Delete) /\ acked' \in BOOLEAN
  BY DEF StartCall
<1>8. StorageTypeOK'
  BY <1>1, <1>4, <1>5, <1>6, <1>7 DEF StorageTypeOK
<1>9. Stations'
  BY <1>1, <1>2, <1>3, <1>4, <1>5 DEF Stations
<1>10. ASSUME marks' = {} PROVE Clean'
  <2>1. Clean /\ marks = {}
    BY <1>6, <1>10 DEF StorageInv
  <2>2. /\ op \in Upload => Under(Delete) = {}
        /\ op \in Delete => Under(Upload) = {}
        /\ op \in Upload /\ Cardinality(contents) > 1 => object = None /\ Under(Upload) = {}
    BY <1>10 DEF StartCall
  <2>3. c \notin Under(Upload) /\ c \notin Under(Delete)
    BY <1>1 DEF Under
  <2>4. /\ Under(Upload)' = IF op \in Upload THEN Under(Upload) \cup {c} ELSE Under(Upload)
        /\ Under(Delete)' = IF op \in Delete THEN Under(Delete) \cup {c} ELSE Under(Delete)
    BY <1>2, <1>3, <1>5, <2>3 DEF Under
  <2>5. \A d \in Under(Upload) \cup Under(Delete) : d \in Client \ {c}
    BY <2>3 DEF Under
  <2>6. \A d \in Client :
          /\ call[d].at = "insert" => d \in Under(Upload)
          /\ call[d].at = "row" => d \in Under(Delete)
    BY <1>1 DEF Stations, Under
  <2>7. (\E d \in Client : call[d].at = "row") => \E d \in Client : call'[d].at = "row"
    BY <1>1, <1>5
  <2>8. CASE op \in Upload
    <3>1. record # None => object = record
      BY <2>1, <2>2, <2>6, <2>8 DEF Clean
    <3>2. \A d \in Under(Upload) : call[d].content = content
      <4>1. CASE Cardinality(contents) > 1
        BY <2>2, <2>8, <4>1
      <4>2. CASE ~(Cardinality(contents) > 1)
        <5>1. \A d \in Under(Upload) : call[d].content \in contents
          BY <1>1, UploadHasContent
        <5>2. QED
          BY <1>1, <2>8, <4>2, <5>1, OneContent
      <4>3. QED
        BY <4>1, <4>2
    <3>3. record \in {None, content}
      <4>1. CASE Cardinality(contents) > 1
        BY <2>2, <2>8, <3>1, <4>1
      <4>2. CASE ~(Cardinality(contents) > 1)
        BY <1>1, <2>8, <4>2, OneContent DEF StorageTypeOK
      <4>3. QED
        BY <4>1, <4>2
    <3>4. Under(Delete)' = {}
      BY <1>2, <2>2, <2>4, <2>8
    <3>5. \A d \in Under(Upload)' : call'[d].content = content
      BY <1>3, <1>5, <2>4, <2>5, <2>8, <3>2
    <3>6. \A d \in Client : call'[d].at = "insert" => object = call'[d].content
      BY <1>2, <1>3, <1>5, <2>1, <2>8 DEF Clean
    <3>7. acked' => record # None
      BY <1>7, <2>1 DEF Clean
    <3>8. QED
      BY <1>4, <3>1, <3>3, <3>4, <3>5, <3>6, <3>7 DEF Clean
  <2>9. CASE op \in Delete
    <3>1. Under(Upload)' = {} /\ ~acked'
      BY <1>2, <1>7, <2>2, <2>4, <2>9
    <3>2. \A d \in Client : call'[d].at # "insert"
      BY <1>2, <1>3, <1>5, <2>2, <2>6, <2>9
    <3>3. QED
      BY <1>4, <2>1, <2>7, <3>1, <3>2 DEF Clean
  <2>10. CASE op \in Read
    <3>1. Under(Upload)' = Under(Upload) /\ Under(Delete)' = Under(Delete)
      BY <1>2, <2>4, <2>10
    <3>2. \A d \in Under(Upload) : call'[d] = call[d]
      BY <1>5, <2>5
    <3>3. \A d \in Client : call'[d].at = "insert" => object = call'[d].content
      BY <1>2, <1>3, <1>5, <2>1, <2>10 DEF Clean
    <3>4. acked' = acked
      BY <1>2, <1>7, <2>10, <1>1 DEF StorageTypeOK
    <3>5. QED
      BY <1>4, <2>1, <2>7, <3>1, <3>2, <3>3, <3>4 DEF Clean
  <2>11. QED
    BY <2>8, <2>9, <2>10
<1>11. QED
  BY <1>8, <1>9, <1>10 DEF StorageInv, Clean

\* A call that goes on or ends.
LEMMA ToEffect ==
  ASSUME StorageTypeOK, NEW c \in Client, call[c].at \notin {"idle", "done", "failed"},
         NEW at \in Stop, To(c, at), contents' = contents
  PROVE  /\ call' \in [Client -> [at : Stop, op : Upload \cup Delete \cup Read \cup {None},
                                  content : contents \cup {None}]]
         /\ call'[c].at = at /\ call'[c].op = call[c].op
         /\ call'[c].content = call[c].content
         /\ \A d \in Client \ {c} : call'[d] = call[d]
         /\ Under(Upload)' = IF at \in {"idle", "done", "failed"} THEN Under(Upload) \ {c}
                             ELSE Under(Upload)
         /\ Under(Delete)' = IF at \in {"idle", "done", "failed"} THEN Under(Delete) \ {c}
                             ELSE Under(Delete)
<1> DEFINE new == [call[c] EXCEPT !.at = at]
<1>1. call[c] \in [at : Stop, op : Upload \cup Delete \cup Read \cup {None},
                   content : contents \cup {None}]
  BY DEF StorageTypeOK
<1>2. /\ new \in [at : Stop, op : Upload \cup Delete \cup Read \cup {None},
                  content : contents \cup {None}]
      /\ new.at = at /\ new.op = call[c].op /\ new.content = call[c].content
  BY <1>1
<1>3. call' = [call EXCEPT ![c] = new]
  BY DEF To
<1> HIDE DEF new
<1>4. /\ call' \in [Client -> [at : Stop, op : Upload \cup Delete \cup Read \cup {None},
                               content : contents \cup {None}]]
      /\ call'[c] = new /\ \A d \in Client \ {c} : call'[d] = call[d]
  BY <1>2, <1>3 DEF StorageTypeOK
<1>5. /\ Under(Upload)' = IF at \in {"idle", "done", "failed"} THEN Under(Upload) \ {c}
                          ELSE Under(Upload)
      /\ Under(Delete)' = IF at \in {"idle", "done", "failed"} THEN Under(Delete) \ {c}
                          ELSE Under(Delete)
  BY <1>2, <1>4 DEF Under
<1>6. QED
  BY <1>2, <1>4, <1>5

-----------------------------------------------------------------------------
(* The commands.                                                           *)

\* A step of c's to a place it may be in, after which what is true while nothing
\* has happened is still true.
LEMMA StepOf ==
  ASSUME StorageInv, NEW c \in Client, call[c].at \notin {"idle", "done", "failed"},
         NEW at \in Stop, To(c, at), contents' = contents, bucket' \in BOOLEAN,
         object' \in contents \cup {None}, record' \in contents \cup {None},
         acked' \in BOOLEAN, marks' \subseteq Marks,
         at \in {"look", "bucket", "put", "insert"} => c \in Under(Upload),
         at \in {"object", "row"} => call[c].op \in Delete,
         at = "get" => call[c].op \in Read,
         at = "select" => call[c].op \in Delete \cup Read,
         Clean'
  PROVE  StorageInv'
<1>1. StorageTypeOK /\ Stations
  BY DEF StorageInv
<1>2. /\ call' \in [Client -> [at : Stop, op : Upload \cup Delete \cup Read \cup {None},
                               content : contents \cup {None}]]
      /\ call'[c].at = at /\ call'[c].op = call[c].op
      /\ call'[c].content = call[c].content
      /\ \A d \in Client \ {c} : call'[d] = call[d]
  BY <1>1, ToEffect
<1>3. StorageTypeOK'
  BY <1>1, <1>2 DEF StorageTypeOK
<1>4. at \in {"look", "bucket", "put", "insert"} =>
        call[c].op \in Upload /\ call[c].content \in contents
  BY <1>1, UploadHasContent DEF Under
<1>5. Stations'
  BY <1>1, <1>2, <1>4 DEF Stations
<1>6. QED
  BY <1>3, <1>5 DEF StorageInv

LEMMA UploadStepInv ==
  ASSUME StorageInv, NEW c \in Client,
         SelectExisting(c) \/ EnsureBucket(c) \/ PutObject(c) \/ InsertRow(c)
  PROVE  StorageInv'
<1>1. /\ StorageTypeOK /\ Stations /\ c \in Under(Upload) /\ UNCHANGED <<contents, marks>>
      /\ call[c].at \in {"look", "bucket", "put", "insert"}
  <2>1. /\ call[c].at \in {"look", "bucket", "put", "insert"}
        /\ \E at : Settle(c, at)
    BY DEF SelectExisting, EnsureBucket, PutObject, InsertRow
  <2>2. StorageTypeOK /\ Stations /\ UNCHANGED <<contents, marks>>
    BY <2>1 DEF StorageInv, Settle
  <2>3. c \in Under(Upload)
    BY <2>1, <2>2 DEF Stations, Under
  <2>4. QED
    BY <2>1, <2>2, <2>3
<1>2. call[c].content \in contents /\ call[c].content # None /\ c \notin Under(Delete)
  BY <1>1, UploadHasContent, StorageAssumption DEF StorageTypeOK
<1>3. /\ marks = {} => Clean
      /\ marks = {} => Under(Delete) = {} /\ record \in {None, call[c].content}
      /\ marks = {} => \A d \in Under(Upload) : call[d].content = call[c].content
      /\ marks = {} => (record # None => object = record)
  <2>1. \A d \in Client : call[d].at = "row" => d \in Under(Delete)
    BY <1>1 DEF Stations, Under
  <2>2. QED
    BY <1>1, <2>1 DEF StorageInv, Clean
<1>4. \A d \in Client : call[d].at = "insert" => d \in Under(Upload)
  BY <1>1 DEF Stations, Under
\* What an upload's command leaves behind, wherever the upload is then.
<1>5. ASSUME NEW at \in Stop, To(c, at), at \in {"bucket", "put", "insert", "done", "failed"},
             acked' \in BOOLEAN, bucket' \in BOOLEAN,
             object' \in contents \cup {None}, record' \in contents \cup {None},
             marks = {} => /\ record' # None => object' = record'
                           /\ record' \in {None, call[c].content}
                           /\ acked' => record' # None
                           /\ object' # object => object' = call[c].content
                           /\ at = "insert" => object' = call[c].content
      PROVE  StorageInv'
  <2>1. /\ call'[c].at = at /\ call'[c].content = call[c].content
        /\ \A d \in Client \ {c} : call'[d] = call[d]
        /\ Under(Upload)' \subseteq Under(Upload) /\ Under(Delete)' = Under(Delete)
    <3>1. call[c].at \notin {"idle", "done", "failed"}
      BY <1>1
    <3>2. QED
      BY <1>1, <1>2, <1>5, <3>1, ToEffect
  <2>2. ASSUME marks = {} PROVE Clean'
    <3>1. Under(Delete)' = {}
      BY <1>3, <2>1, <2>2
    <3>2. \A d \in Under(Upload)' : call'[d].content = call[c].content
      <4> TAKE d \in Under(Upload)'
      <4>1. d \in Under(Upload) /\ d \in Client
        BY <2>1 DEF Under
      <4>2. QED
        BY <1>3, <2>1, <2>2, <4>1
    <3>3. \A d \in Client : call'[d].at = "insert" => object' = call'[d].content
      <4> SUFFICES ASSUME NEW d \in Client, call'[d].at = "insert", d # c
                   PROVE  object' = call[d].content
        BY <1>5, <2>1, <2>2
      <4>1. call[d].at = "insert"
        BY <2>1
      <4>2. call[d].content = call[c].content /\ object = call[d].content
        BY <1>3, <1>4, <2>2, <4>1 DEF Clean
      <4>3. QED
        BY <1>5, <2>2, <4>2
    <3>4. QED
      BY <1>5, <2>2, <3>1, <3>2, <3>3 DEF Clean
  <2>3. Clean'
    BY <1>1, <2>2 DEF Clean
  <2>4. marks' \subseteq Marks /\ call[c].at \notin {"idle", "done", "failed"}
    BY <1>1 DEF StorageTypeOK
  <2>5. QED
    BY <1>1, <1>5, <2>3, <2>4, StepOf
<1>6. object \in contents \cup {None} /\ record \in contents \cup {None}
      /\ bucket \in BOOLEAN /\ acked \in BOOLEAN
  BY <1>1 DEF StorageTypeOK
<1>7. ASSUME NEW at, Settle(c, at)
      PROVE  acked' \in BOOLEAN /\ (acked' => acked \/ at = "done") /\ To(c, at)
  BY <1>6, <1>7 DEF Settle
<1>8. CASE SelectExisting(c)
  BY <1>3, <1>5, <1>6, <1>7, <1>8 DEF SelectExisting, Stop, Clean
<1>9. CASE EnsureBucket(c)
  BY <1>3, <1>5, <1>6, <1>7, <1>9 DEF EnsureBucket, Stop, Clean
<1>10. CASE PutObject(c)
  BY <1>2, <1>3, <1>5, <1>6, <1>7, <1>10 DEF PutObject, Stop, Clean
<1>11. CASE InsertRow(c)
  <2>1. marks = {} => object = call[c].content
    BY <1>3, <1>11 DEF InsertRow, Clean
  <2>2. CASE record = None
    BY <1>2, <1>3, <1>5, <1>6, <1>7, <1>11, <2>1, <2>2 DEF InsertRow, Stop, Clean
  <2>3. CASE record # None
    BY <1>3, <1>5, <1>6, <1>7, <1>11, <2>3 DEF InsertRow, Stop, Clean
  <2>4. QED
    BY <2>2, <2>3
<1>12. QED
  BY <1>8, <1>9, <1>10, <1>11

LEMMA DeleteStepInv ==
  ASSUME StorageInv, NEW c \in Client, DeleteObject(c) \/ DeleteRow(c)
  PROVE  StorageInv'
<1>1. /\ StorageTypeOK /\ Stations /\ call[c].at \in {"object", "row"}
      /\ call[c].op \in Delete /\ call[c].op \notin Upload
  BY DEF StorageInv, Stations, DeleteObject, DeleteRow, Delete, Upload
<1>2. PICK at \in {"row", "done"} :
        /\ Settle(c, at)
        /\ object' \in {object, None} /\ record' \in {record, None}
        /\ at = "row" \/ record' = None
        /\ UNCHANGED bucket
  BY DEF DeleteObject, DeleteRow
<1>3. /\ To(c, at) /\ acked' = acked /\ UNCHANGED <<contents, marks>>
      /\ call[c].at \notin {"idle", "done", "failed"} /\ at \in Stop
  BY <1>1, <1>2 DEF Settle, Stop, StorageTypeOK
<1>4. /\ call'[c].at = at /\ Under(Upload)' \subseteq Under(Upload)
      /\ \A d \in Client \ {c} : call'[d] = call[d]
  BY <1>1, <1>3, ToEffect
<1>5. c \in Under(Delete)
  BY <1>1 DEF Under
<1>6. ASSUME marks = {} PROVE Clean'
  <2>1. Under(Upload) = {} /\ ~acked
    BY <1>5, <1>6 DEF StorageInv, Clean
  <2>2. \A d \in Client : call'[d].at # "insert"
    <3> SUFFICES ASSUME NEW d \in Client, call'[d].at = "insert", d # c PROVE FALSE
      BY <1>2, <1>4
    <3>1. d \in Under(Upload)
      BY <1>1, <1>4 DEF Stations, Under
    <3>2. QED
      BY <2>1, <3>1
  <2>3. record' # None => \E d \in Client : call'[d].at = "row"
    BY <1>2, <1>4
  <2>4. QED
    BY <1>3, <1>4, <2>1, <2>2, <2>3 DEF Clean
<1>7. Clean'
  BY <1>3, <1>6 DEF Clean
<1>8. QED
  BY <1>1, <1>2, <1>3, <1>7, StepOf DEF StorageTypeOK

\* A call that reads, or refuses what it has read.
LEMMA ReadStepInv ==
  ASSUME StorageInv, NEW c \in Client, Refuse(c) \/ GetObject(c)
  PROVE  StorageInv'
<1>1. /\ StorageTypeOK /\ Stations /\ call[c].at \in {"select", "get"}
      /\ call[c].op \notin Upload
  BY DEF StorageInv, Stations, Refuse, GetObject, Delete, Upload, Read
<1>2. PICK at \in {"done", "failed"} :
        Settle(c, at) /\ UNCHANGED <<bucket, object, record>>
  BY DEF Refuse, GetObject
<1>3. /\ To(c, at) /\ acked' = acked /\ UNCHANGED <<contents, marks>>
      /\ call[c].at \notin {"idle", "done", "failed"} /\ at \in Stop
  BY <1>1, <1>2 DEF Settle, Stop, StorageTypeOK
<1>4. /\ call'[c].at = at /\ Under(Upload)' \subseteq Under(Upload)
      /\ Under(Delete)' \subseteq Under(Delete)
      /\ \A d \in Client \ {c} : call'[d] = call[d]
      /\ c \notin Under(Upload)
  BY <1>1, <1>3, ToEffect DEF Under
<1>5. ASSUME marks = {} PROVE Clean'
  <2>1. \A d \in Client : call[d].at = "row" => call'[d].at = "row"
    BY <1>1, <1>4
  <2>2. \A d \in Client : call'[d].at = "insert" => call'[d] = call[d]
    BY <1>2, <1>4
  <2>3. \A d \in Under(Upload)' : d \in Under(Upload) /\ call'[d] = call[d]
    BY <1>4 DEF Under
  <2>4. Clean
    BY DEF StorageInv
  <2>5. QED
    BY <1>2, <1>3, <1>4, <1>5, <2>1, <2>2, <2>3, <2>4 DEF Clean
<1>6. Clean'
  BY <1>3, <1>5 DEF Clean
<1>7. QED
  BY <1>1, <1>2, <1>3, <1>6, StepOf DEF StorageTypeOK

LEMMA SelectRecordInv ==
  ASSUME StorageInv, NEW c \in Client, SelectRecord(c)
  PROVE  StorageInv'
<1> DEFINE at == IF call[c].op \in Delete THEN "object" ELSE "get"
           content == IF call[c].op \in Delete THEN call[c].content ELSE record
           half == [call[c] EXCEPT !.at = at]
           new == [half EXCEPT !.content = content]
<1>1. /\ StorageTypeOK /\ Stations /\ Clean /\ call[c].at = "select"
      /\ call[c].op \in Delete \cup Read /\ call[c].op \notin Upload
  BY DEF StorageInv, Stations, SelectRecord, Delete, Upload, Read
<1>2. UNCHANGED <<contents, bucket, object, record, acked, marks>>
  BY DEF SelectRecord
<1>3. call[c] \in [at : Stop, op : Upload \cup Delete \cup Read \cup {None},
                   content : contents \cup {None}]
      /\ at \in Stop /\ content \in contents \cup {None}
  BY <1>1 DEF StorageTypeOK, Stop
<1>4. call' = [call EXCEPT ![c] = new]
  BY <1>1 DEF SelectRecord, StorageTypeOK
<1> HIDE DEF at, content
<1>5. /\ half \in [at : Stop, op : Upload \cup Delete \cup Read \cup {None},
                   content : contents \cup {None}]
      /\ half.at = at /\ half.op = call[c].op
  BY <1>3
<1> HIDE DEF half
<1>6. /\ new \in [at : Stop, op : Upload \cup Delete \cup Read \cup {None},
                  content : contents \cup {None}]
      /\ new.at = at /\ new.op = call[c].op
  BY <1>3, <1>5
<1> HIDE DEF new
<1>7. /\ call' \in [Client -> [at : Stop, op : Upload \cup Delete \cup Read \cup {None},
                               content : contents \cup {None}]]
      /\ call'[c] = new /\ \A d \in Client \ {c} : call'[d] = call[d]
  BY <1>1, <1>4, <1>6 DEF StorageTypeOK
<1>8. StorageTypeOK'
  BY <1>1, <1>2, <1>7 DEF StorageTypeOK
<1>9. /\ call[c].op \in Delete => at = "object"
      /\ call[c].op \notin Delete => at = "get" /\ call[c].op \in Read
  BY <1>1 DEF at
<1>10. Stations'
  BY <1>1, <1>2, <1>6, <1>7, <1>9 DEF Stations
<1>11. /\ Under(Upload)' = Under(Upload) /\ Under(Delete)' = Under(Delete)
       /\ c \notin Under(Upload)
  BY <1>1, <1>6, <1>7, <1>9 DEF Under
<1>12. /\ \A d \in Client : call[d].at = "row" => call'[d].at = "row"
       /\ \A d \in Client : call'[d].at = "insert" => call'[d] = call[d]
       /\ \A d \in Under(Upload) : call'[d] = call[d]
  BY <1>1, <1>6, <1>7, <1>9, <1>11 DEF Under
<1>13. Clean'
  BY <1>1, <1>2, <1>11, <1>12 DEF Clean
<1>14. QED
  BY <1>8, <1>10, <1>13 DEF StorageInv

-----------------------------------------------------------------------------
(* Failures.                                                               *)

\* A command of an upload that fails may have left its object or its row.
LEMMA FailInv ==
  ASSUME StorageInv, NEW c \in Client, Reject(c)
  PROVE  StorageInv'
<1>1. StorageTypeOK /\ Stations
  BY DEF StorageInv
<1>2. /\ call[c].at \notin {"idle", "done", "failed"} /\ To(c, "failed")
      /\ UNCHANGED <<contents, bucket, acked>>
      /\ marks' = marks \cup (IF call[c].at \in {"object", "row"} THEN {"half"} ELSE {})
      /\ Effect(c) \/ UNCHANGED <<object, record>>
  BY DEF Reject, Broken
<1>3. /\ call'[c].at = "failed" /\ Under(Upload)' = Under(Upload) \ {c}
      /\ Under(Delete)' = Under(Delete) \ {c}
      /\ \A d \in Client \ {c} : call'[d] = call[d]
  BY <1>1, <1>2, ToEffect DEF Stop
<1>4. /\ object' \in contents \cup {None} /\ record' \in contents \cup {None}
      /\ marks' \subseteq Marks
  BY <1>1, <1>2 DEF Effect, StorageTypeOK, Marks
<1>5. /\ \A d \in Client : call[d].at = "insert" => d \in Under(Upload)
      /\ \A d \in Client : call[d].at = "row" => d \in Under(Delete)
  BY <1>1 DEF Stations, Under
<1>6. ASSUME marks' = {} PROVE Clean'
  <2>1. Clean /\ marks = {} /\ call[c].at \notin {"object", "row"}
    BY <1>2, <1>6 DEF StorageInv
  <2>2. \A d \in Client : call[d].at = "row" => call'[d].at = "row"
    BY <1>3, <2>1
  <2>3. /\ \A d \in Client : call'[d].at = "insert" => d # c /\ call'[d] = call[d]
        /\ \A d \in Under(Upload)' : d \in Under(Upload) /\ d # c /\ call'[d] = call[d]
    BY <1>3 DEF Under
  <2>4. CASE UNCHANGED <<object, record>>
    BY <1>2, <1>3, <2>1, <2>2, <2>3, <2>4 DEF Clean
  <2>5. CASE call[c].at \in {"put", "insert"} /\ Effect(c)
    <3>1. c \in Under(Upload) /\ call[c].content \in contents
      BY <1>1, <2>5 DEF Stations, Under
    <3>2. Under(Delete) = {} /\ (record # None => object = record)
      BY <1>5, <2>1, <3>1 DEF Clean
    <3>3. record \in {None, call[c].content}
      BY <2>1, <3>1 DEF Clean
    <3>4. \A d \in Under(Upload) : call[d].content = call[c].content
      BY <2>1, <3>1 DEF Clean
    <3>5. CASE call[c].at = "put"
      <4>1. object' = call[c].content /\ record' = record
        BY <2>5, <3>5 DEF Effect
      <4>2. QED
        BY <1>2, <1>3, <1>5, <2>1, <2>3, <3>2, <3>3, <3>4, <4>1 DEF Clean
    <3>6. CASE call[c].at = "insert"
      <4>1. /\ object' = object /\ record' = call[c].content /\ object = call[c].content
            /\ record' # None
        BY <1>1, <2>1, <2>5, <3>1, <3>6, StorageAssumption DEF Effect, Clean, StorageTypeOK
      <4>2. QED
        BY <1>2, <1>3, <1>5, <2>1, <2>3, <3>2, <3>3, <3>4, <4>1 DEF Clean
    <3>7. QED
      BY <2>5, <3>5, <3>6
  <2>6. QED
    BY <1>2, <2>1, <2>4, <2>5 DEF Effect
<1>7. Clean'
  BY <1>6 DEF Clean
<1>8. QED
  BY <1>1, <1>2, <1>4, <1>7, StepOf DEF StorageTypeOK, Stop

-----------------------------------------------------------------------------

LEMMA StorageStepInv ==
  ASSUME StorageInv, [StorageNext]_storageVars PROVE StorageInv'
<1>1. CASE UNCHANGED storageVars
  BY <1>1 DEF storageVars, StorageInv, StorageTypeOK, Stations, Clean, Under
<1>2. ASSUME NEW c \in Client, NEW op \in Upload, NEW content \in contents,
             StartCall(c, op, content)
      PROVE  StorageInv'
  BY <1>2, BeginInv
<1>3. ASSUME NEW c \in Client, NEW op \in Delete \cup Read, StartCall(c, op, None)
      PROVE  StorageInv'
  <2>1. op \notin Upload
    BY DEF Upload, Delete, Read
  <2>2. QED
    BY <1>3, <2>1, BeginInv
<1>4. QED
  BY <1>1, <1>2, <1>3, UploadStepInv, DeleteStepInv, ReadStepInv, SelectRecordInv, FailInv
  DEF StorageNext

LEMMA StorageInvariant == StorageSpec => []StorageInv
  BY StorageInitInv, StorageStepInv, PTL DEF StorageSpec

\* Every reachable state of the service is well typed.
THEOREM StorageTypeCorrect == StorageSpec => []StorageTypeOK
<1>1. StorageInv => StorageTypeOK
  BY DEF StorageInv
<1>2. QED
  BY StorageInvariant, <1>1, PTL

\* However many uploads of a content race or fail in the middle, a record has the
\* object it describes, and an acknowledged upload its record, as long as no delete
\* overlaps an upload or ends halfway and nothing else is uploaded under the key.
THEOREM RecordsHaveObjects == StorageSpec => []ArtifactsAreWhole
<1>1. ASSUME StorageInv, marks = {}
      PROVE  /\ record # None /\ Under(Delete) = {} => object = record
             /\ acked => record # None
  <2>1. \A c \in Client : call[c].at = "row" => c \in Under(Delete)
    BY <1>1 DEF StorageInv, Stations, Under
  <2>2. QED
    BY <1>1, <2>1 DEF StorageInv, Clean
<1>2. StorageInv => ArtifactsAreWhole
  BY <1>1 DEF ArtifactsAreWhole
<1>3. QED
  BY StorageInvariant, <1>2, PTL

-----------------------------------------------------------------------------
(* MIGRATIONS                                                              *)

-----------------------------------------------------------------------------
(* The invariant.                                                          *)

Files == UNION {{r[i] : i \in DOMAIN r} : r \in Deployment}

Place == {"new", "lock", "check", "apply", "insert", "release", "done", "failed"}

MigrateTypeOK ==
  /\ files \in [Pod -> Deployment]
  /\ pod \in [Pod -> [at : Place, next : Nat \ {0}, ok : BOOLEAN]]
  /\ lockedBy \in Pod \cup {Nil}
  /\ ledger \in [FileName -> Files \cup {Nil}]
  /\ ran \in [FileName -> Nat]
  /\ schema \in [FileName -> SUBSET {f.text : f \in Files}]
  /\ faulted \in Nat

Recorded(p, i) == ledger[i] # Nil /\ ledger[i].text = files[p][i].text

\* A pod past GET_LOCK holds the lock, and finds recorded what stands before its
\* next file; the file it applies or is to record is not.
PodInv(p) ==
  /\ pod[p].at \in {"check", "apply", "insert", "release"} => lockedBy = p
  /\ pod[p].at \in {"new", "lock"} => pod[p].next = 1 /\ ~pod[p].ok
  /\ pod[p].at \in {"check", "apply", "insert"} =>
       /\ ~pod[p].ok
       /\ \A j \in 1 .. (pod[p].next - 1) : j \in DOMAIN files[p] /\ Recorded(p, j)
  /\ pod[p].at \in {"apply", "insert"} =>
       pod[p].next \in DOMAIN files[p] /\ ledger[pod[p].next] = Nil
  /\ pod[p].at = "insert" => File(p).text \in schema[pod[p].next]
  /\ pod[p].at = "done" => pod[p].ok
  /\ pod[p].at \in {"release", "done"} /\ pod[p].ok =>
       \A i \in DOMAIN files[p] : Recorded(p, i)

\* What is recorded was executed.
Honest == \A i \in FileName : ledger[i] # Nil => ledger[i].text \in schema[i]

RecordingFile(i) == \E p \in Pod : pod[p].at = "insert" /\ pod[p].next = i

\* Every run of a file is its record's, that of a pod about to record it, or was
\* followed by a failure.
Counted == \A i \in FileName :
  /\ ran[i] <= faulted + 1
  /\ ran[i] > faulted => ledger[i] # Nil \/ RecordingFile(i)

InOrder == \A i \in FileName :
  ran[i] > 0 => \A j \in FileName : j < i => ledger[j] # Nil

MigrateInv ==
  MigrateTypeOK /\ (\A p \in Pod : PodInv(p)) /\ Honest /\ Counted /\ InOrder

-----------------------------------------------------------------------------
(* Releases.                                                               *)

\* The files of a pod are numbered from one, and none of them is Nil.
LEMMA FilesOfPod ==
  ASSUME MigrateTypeOK, NEW p \in Pod
  PROVE  /\ Len(files[p]) \in Nat
         /\ DOMAIN files[p] = 1 .. Len(files[p])
         /\ DOMAIN files[p] \subseteq FileName
         /\ \A i \in DOMAIN files[p] : files[p][i] \in Files /\ files[p][i] # Nil
<1>1. files[p] \in Deployment
  BY DEF MigrateTypeOK
<1>2. files[p] \in Seq({files[p][i] : i \in DOMAIN files[p]} \ {Nil})
  BY <1>1, MigrateAssumption
<1>3. Len(files[p]) \in Nat /\ DOMAIN files[p] = 1 .. Len(files[p])
  BY <1>2
<1>4. \A i \in DOMAIN files[p] : files[p][i] # Nil
  BY <1>2, <1>3
<1>5. DOMAIN files[p] \subseteq FileName
  BY <1>1 DEF FileName
<1>6. \A i \in DOMAIN files[p] : files[p][i] \in Files
  BY <1>1 DEF Files
<1>7. QED
  BY <1>3, <1>4, <1>5, <1>6

\* Names are numbers from one on.
LEMMA NamesAreNumbers == FileName \subseteq Nat \ {0}
<1> SUFFICES ASSUME NEW r \in Deployment PROVE DOMAIN r \subseteq Nat \ {0}
  BY DEF FileName
<1>1. r \in Seq({r[i] : i \in DOMAIN r} \ {Nil})
  BY MigrateAssumption
<1>2. DOMAIN r = 1 .. Len(r) /\ Len(r) \in Nat
  BY <1>1
<1>3. QED
  BY <1>2

-----------------------------------------------------------------------------
(* Steps.                                                                  *)

\* What a step of p leaves of another pod: records stay, the schema grows, and only
\* who holds the lock adds a record.
LEMMA OthersStay ==
  ASSUME MigrateInv, NEW p \in Pod, NEW q \in Pod \ {p},
         files' = files, pod'[q] = pod[q], lockedBy = q => lockedBy' = q,
         \A i \in FileName : ledger[i] # Nil => ledger'[i] = ledger[i],
         \A i \in FileName : schema[i] \subseteq schema'[i],
         ledger' = ledger \/ lockedBy = p
  PROVE  PodInv(q)'
<1>1. PodInv(q) /\ MigrateTypeOK
  BY DEF MigrateInv
<1>2. DOMAIN files[q] \subseteq FileName
  BY <1>1, FilesOfPod
<1>3. ASSUME NEW i \in DOMAIN files[q], Recorded(q, i) PROVE Recorded(q, i)'
  BY <1>2, <1>3 DEF Recorded
<1>4. /\ pod[q].at \in {"check", "apply", "insert"} =>
           \A j \in 1 .. (pod[q].next - 1) : j \in DOMAIN files[q] /\ Recorded(q, j)'
      /\ pod[q].at \in {"release", "done"} /\ pod[q].ok =>
           \A i \in DOMAIN files[q] : Recorded(q, i)'
  BY <1>1, <1>3 DEF PodInv
<1>5. pod[q].at \in {"apply", "insert"} => ledger' = ledger
  BY <1>1 DEF PodInv
<1>6. pod[q].at = "insert" => File(q).text \in schema'[pod[q].next]
  BY <1>1, <1>2 DEF PodInv
<1>7. QED
  BY <1>1, <1>4, <1>5, <1>6 DEF PodInv, File

\* A step that moves a pod that was not inserting and leaves records and the schema
\* alone keeps the facts about them.
LEMMA FactsStay ==
  ASSUME MigrateInv, NEW p \in Pod, pod[p].at # "insert",
         \A q \in Pod \ {p} : pod'[q] = pod[q],
         UNCHANGED <<ledger, ran, schema, faulted>>
  PROVE  Honest' /\ Counted' /\ InOrder'
<1>1. \A i \in FileName : RecordingFile(i) => RecordingFile(i)'
  <2> SUFFICES ASSUME NEW i \in FileName, NEW q \in Pod,
                      pod[q].at = "insert", pod[q].next = i
               PROVE  RecordingFile(i)'
    BY DEF RecordingFile
  <2>1. pod'[q] = pod[q]
    OBVIOUS
  <2>2. QED
    BY <2>1 DEF RecordingFile
<1>2. Honest' /\ InOrder'
  BY DEF MigrateInv, Honest, InOrder
<1>3. Counted'
  BY <1>1 DEF MigrateInv, Counted
<1>4. QED
  BY <1>2, <1>3

\* A step that moves p only, to a state in which its part of the invariant holds.
LEMMA Moved ==
  ASSUME MigrateInv, NEW p \in Pod, pod[p].at # "insert",
         NEW to \in [at : Place, next : Nat \ {0}, ok : BOOLEAN],
         pod' = [pod EXCEPT ![p] = to],
         UNCHANGED <<files, ledger, ran, schema, faulted>>,
         lockedBy' \in Pod \cup {Nil}, \A q \in Pod \ {p} : lockedBy = q => lockedBy' = q,
         PodInv(p)'
  PROVE  MigrateInv'
<1>1. MigrateTypeOK'
  BY DEF MigrateInv, MigrateTypeOK
<1>2. \A q \in Pod \ {p} : pod'[q] = pod[q]
  BY DEF MigrateInv, MigrateTypeOK
<1>3. \A q \in Pod \ {p} : PodInv(q)'
  <2> TAKE q \in Pod \ {p}
  <2>1. \A i \in FileName : schema[i] \subseteq schema'[i]
    OBVIOUS
  <2>2. QED
    BY <1>2, <2>1, OthersStay
<1>4. Honest' /\ Counted' /\ InOrder'
  BY <1>2, FactsStay
<1>5. QED
  BY <1>1, <1>3, <1>4 DEF MigrateInv

\* Where a pod is after a step that only moves it.
LEMMA Went ==
  ASSUME MigrateTypeOK, NEW p \in Pod, NEW at \in Place, Go(p, at)
  PROVE  \E to \in [at : Place, next : Nat \ {0}, ok : BOOLEAN] :
           /\ pod' = [pod EXCEPT ![p] = to] /\ pod'[p] = to
           /\ to.at = at /\ to.next = pod[p].next /\ to.ok = pod[p].ok
<1> DEFINE to == [pod[p] EXCEPT !.at = at]
<1>1. pod[p] \in [at : Place, next : Nat \ {0}, ok : BOOLEAN]
  BY DEF MigrateTypeOK
<1>2. to \in [at : Place, next : Nat \ {0}, ok : BOOLEAN]
  BY <1>1
<1>3. to.at = at /\ to.next = pod[p].next /\ to.ok = pod[p].ok
  BY <1>1
<1>4. pod' = [pod EXCEPT ![p] = to] /\ pod'[p] = to
  BY DEF Go, MigrateTypeOK
<1>5. QED
  BY <1>2, <1>3, <1>4

-----------------------------------------------------------------------------
(* Connections and the lock.                                               *)

LEMMA MigrateInitInv == ASSUME MigrateInit PROVE MigrateInv
<1>1. MigrateTypeOK
  BY DEF MigrateInit, MigrateTypeOK, Place
<1>2. ASSUME NEW p \in Pod PROVE PodInv(p)
  BY DEF MigrateInit, PodInv
<1>3. Honest /\ Counted /\ InOrder
  BY DEF MigrateInit, Honest, Counted, InOrder
<1>4. QED
  BY <1>1, <1>2, <1>3 DEF MigrateInv

LEMMA BootstrapInv ==
  ASSUME MigrateInv, NEW p \in Pod, Bootstrap(p) PROVE MigrateInv'
<1>1. MigrateTypeOK /\ PodInv(p)
  BY DEF MigrateInv
<1>2. PICK to \in [at : Place, next : Nat \ {0}, ok : BOOLEAN] :
        /\ pod' = [pod EXCEPT ![p] = to] /\ pod'[p] = to
        /\ to.at = "lock" /\ to.next = pod[p].next /\ to.ok = pod[p].ok
  BY <1>1, Went DEF Bootstrap, Place
<1>3. PodInv(p)'
  BY <1>1, <1>2 DEF Bootstrap, PodInv
<1>4. QED
  BY <1>1, <1>2, <1>3, Moved DEF Bootstrap, MigrateTypeOK

LEMMA GetLockInv ==
  ASSUME MigrateInv, NEW p \in Pod, GetLock(p) PROVE MigrateInv'
<1>1. MigrateTypeOK /\ PodInv(p)
  BY DEF MigrateInv
<1>2. PICK to \in [at : Place, next : Nat \ {0}, ok : BOOLEAN] :
        /\ pod' = [pod EXCEPT ![p] = to] /\ pod'[p] = to
        /\ to.at = "check" /\ to.next = pod[p].next /\ to.ok = pod[p].ok
  BY <1>1, Went DEF GetLock, Place
<1>3. PodInv(p)'
  BY <1>1, <1>2 DEF GetLock, PodInv
<1>4. lockedBy' \in Pod \cup {Nil} /\ \A q \in Pod \ {p} : lockedBy # q
  BY MigrateAssumption DEF GetLock
<1>5. QED
  BY <1>2, <1>3, <1>4, Moved DEF GetLock

LEMMA LockTimeoutInv ==
  ASSUME MigrateInv, NEW p \in Pod, LockTimeout(p) PROVE MigrateInv'
<1>1. MigrateTypeOK /\ PodInv(p)
  BY DEF MigrateInv
<1>2. PICK to \in [at : Place, next : Nat \ {0}, ok : BOOLEAN] :
        /\ pod' = [pod EXCEPT ![p] = to] /\ pod'[p] = to
        /\ to.at = "failed" /\ to.next = pod[p].next /\ to.ok = pod[p].ok
  BY <1>1, Went DEF LockTimeout, Place
<1>3. PodInv(p)'
  BY <1>1, <1>2 DEF LockTimeout, PodInv
<1>4. QED
  BY <1>1, <1>2, <1>3, Moved DEF LockTimeout, MigrateTypeOK

LEMMA RestartInv ==
  ASSUME MigrateInv, NEW p \in Pod, Restart(p) PROVE MigrateInv'
<1> DEFINE to == [at |-> "new", next |-> 1, ok |-> FALSE]
<1>1. MigrateTypeOK /\ PodInv(p)
  BY DEF MigrateInv
<1>2. to \in [at : Place, next : Nat \ {0}, ok : BOOLEAN]
  BY DEF Place
<1>3. pod' = [pod EXCEPT ![p] = to] /\ pod'[p] = to
  BY <1>1 DEF Restart, MigrateTypeOK
<1>4. PodInv(p)'
  BY <1>1, <1>3 DEF PodInv
<1>5. QED
  BY <1>1, <1>2, <1>3, <1>4, Moved DEF Restart, MigrateTypeOK

\* Only the holder of the lock gives it back.
LEMMA Unlocked ==
  ASSUME MigrateTypeOK, NEW p \in Pod, Unlock(p)
  PROVE  lockedBy' \in Pod \cup {Nil} /\ \A q \in Pod \ {p} : lockedBy = q => lockedBy' = q
  BY DEF MigrateTypeOK, Unlock

LEMMA ReleaseLockInv ==
  ASSUME MigrateInv, NEW p \in Pod, ReleaseLock(p) PROVE MigrateInv'
<1>1. MigrateTypeOK /\ PodInv(p)
  BY DEF MigrateInv
<1> DEFINE at == IF pod[p].ok THEN "done" ELSE "failed"
<1>2. PICK to \in [at : Place, next : Nat \ {0}, ok : BOOLEAN] :
        /\ pod' = [pod EXCEPT ![p] = to] /\ pod'[p] = to
        /\ to.at = at /\ to.next = pod[p].next /\ to.ok = pod[p].ok
  BY <1>1, Went DEF ReleaseLock, Place
<1>3. PodInv(p)'
  <2>1. pod[p].ok => \A i \in DOMAIN files[p] : Recorded(p, i)'
    BY <1>1 DEF ReleaseLock, PodInv, Recorded
  <2>2. QED
    BY <1>1, <1>2, <2>1 DEF ReleaseLock, PodInv
<1>4. QED
  BY <1>1, <1>2, <1>3, Unlocked, Moved DEF ReleaseLock

-----------------------------------------------------------------------------
(* Files.                                                                  *)

LEMMA CheckFileInv ==
  ASSUME MigrateInv, NEW p \in Pod, CheckFile(p) PROVE MigrateInv'
<1> DEFINE next == pod[p].next
           row == ledger[next]
<1>1. MigrateTypeOK /\ PodInv(p) /\ pod[p].at = "check" /\ lockedBy = p
  BY DEF MigrateInv, CheckFile, PodInv
<1>2. next \in DOMAIN files[p] /\ next \in Nat \ {0}
  BY <1>1, FilesOfPod DEF CheckFile, MigrateTypeOK
<1>3. /\ UNCHANGED <<files, lockedBy, ledger, ran, schema, faulted>>
      /\ \A i : Recorded(p, i)' <=> Recorded(p, i)
  BY DEF CheckFile, Recorded
<1>4. CASE row = Nil /\ Go(p, "apply")
  <2>1. PICK to \in [at : Place, next : Nat \ {0}, ok : BOOLEAN] :
          /\ pod' = [pod EXCEPT ![p] = to] /\ pod'[p] = to
          /\ to.at = "apply" /\ to.next = pod[p].next /\ to.ok = pod[p].ok
    BY <1>1, <1>4, Went DEF Place
  <2>2. PodInv(p)'
    BY <1>1, <1>2, <1>3, <1>4, <2>1 DEF PodInv
  <2>3. QED
    BY <1>1, <1>3, <2>1, <2>2, Moved
<1>5. CASE /\ row # Nil /\ Matches(row, File(p))
           /\ pod' = [pod EXCEPT ![p].next = @ + 1]
  <2> DEFINE to == [pod[p] EXCEPT !.next = next + 1]
  <2>1. /\ to \in [at : Place, next : Nat \ {0}, ok : BOOLEAN]
        /\ to.at = pod[p].at /\ to.next = next + 1 /\ to.ok = pod[p].ok
    BY <1>1, <1>2 DEF MigrateTypeOK
  <2>2. pod' = [pod EXCEPT ![p] = to] /\ pod'[p] = to
    BY <1>1, <1>5 DEF MigrateTypeOK
  <2>3. Recorded(p, next)
    BY <1>5 DEF Recorded, Matches, File
  <2>4. \A j \in 1 .. (to.next - 1) : j \in DOMAIN files[p] /\ Recorded(p, j)
    <3> TAKE j \in 1 .. (to.next - 1)
    <3>1. j = next \/ j \in 1 .. (next - 1)
      BY <1>2, <2>1
    <3>2. QED
      BY <1>1, <1>2, <2>3, <3>1 DEF PodInv
  <2>5. PodInv(p)'
    <3> HIDE DEF to
    <3>1. QED
      BY <1>1, <1>3, <2>1, <2>2, <2>4 DEF PodInv
  <2>6. QED
    BY <1>1, <1>3, <2>1, <2>2, <2>5, Moved
<1>6. CASE row # Nil /\ ~Matches(row, File(p)) /\ Go(p, "release")
  <2>1. PICK to \in [at : Place, next : Nat \ {0}, ok : BOOLEAN] :
          /\ pod' = [pod EXCEPT ![p] = to] /\ pod'[p] = to
          /\ to.at = "release" /\ to.next = pod[p].next /\ to.ok = pod[p].ok
    BY <1>1, <1>6, Went DEF Place
  <2>2. PodInv(p)'
    BY <1>1, <1>3, <2>1 DEF PodInv
  <2>3. QED
    BY <1>1, <1>3, <2>1, <2>2, Moved
<1>7. QED
  BY <1>4, <1>5, <1>6 DEF CheckFile

LEMMA AllAppliedInv ==
  ASSUME MigrateInv, NEW p \in Pod, AllApplied(p) PROVE MigrateInv'
<1> DEFINE to == [pod[p] EXCEPT !.at = "release", !.ok = TRUE]
<1>1. MigrateTypeOK /\ PodInv(p) /\ pod[p].at = "check" /\ lockedBy = p
  BY DEF MigrateInv, AllApplied, PodInv
<1>2. pod[p] \in [at : Place, next : Nat \ {0}, ok : BOOLEAN]
  BY <1>1 DEF MigrateTypeOK
<1>3. /\ to \in [at : Place, next : Nat \ {0}, ok : BOOLEAN]
      /\ to.at = "release" /\ to.ok = TRUE
  <2> DEFINE half == [pod[p] EXCEPT !.at = "release"]
  <2>1. half \in [at : Place, next : Nat \ {0}, ok : BOOLEAN] /\ half.at = "release"
    BY <1>2 DEF Place
  <2>2. to = [half EXCEPT !.ok = TRUE]
    OBVIOUS
  <2> HIDE DEF half, to
  <2>3. QED
    BY <2>1, <2>2
<1>4. pod' = [pod EXCEPT ![p] = to] /\ pod'[p] = to
  BY <1>1 DEF AllApplied, MigrateTypeOK
<1>5. \A i \in DOMAIN files[p] : Recorded(p, i)'
  <2> TAKE i \in DOMAIN files[p]
  <2>1. i \in 1 .. (pod[p].next - 1)
    BY <1>1, <1>2, FilesOfPod DEF AllApplied
  <2>2. QED
    BY <1>1, <2>1 DEF AllApplied, PodInv, Recorded
<1>6. PodInv(p)'
  <2> HIDE DEF to
  <2>1. QED
    BY <1>1, <1>3, <1>4, <1>5 DEF AllApplied, PodInv
<1>7. QED
  BY <1>1, <1>3, <1>4, <1>6, Moved DEF AllApplied, MigrateTypeOK

\* A file that a pod applies was not recorded, and nobody else is at it; executing
\* it keeps the records honest and the order.
LEMMA Executed ==
  ASSUME MigrateInv, NEW p \in Pod, pod[p].at = "apply", Execute(p), ledger' = ledger
  PROVE  /\ ran' \in [FileName -> Nat]
         /\ schema' \in [FileName -> SUBSET {f.text : f \in Files}]
         /\ \A i \in FileName : schema[i] \subseteq schema'[i]
         /\ File(p).text \in schema'[pod[p].next]
         /\ \A i \in FileName : i # pod[p].next => ran'[i] = ran[i]
         /\ ran'[pod[p].next] <= faulted + 1
         /\ Honest' /\ InOrder'
<1> DEFINE next == pod[p].next
<1>1. MigrateTypeOK /\ PodInv(p) /\ lockedBy = p
  BY DEF MigrateInv, PodInv
<1>2. /\ next \in DOMAIN files[p] /\ next \in FileName /\ next \in Nat \ {0}
      /\ File(p) \in Files /\ ledger[next] = Nil
  BY <1>1, FilesOfPod DEF PodInv, File, MigrateTypeOK
<1>3. /\ ran' = [ran EXCEPT ![next] = @ + 1]
      /\ schema' = [schema EXCEPT ![next] = @ \cup {File(p).text}]
  BY DEF Execute
<1>4. /\ ran' \in [FileName -> Nat] /\ ran'[next] = ran[next] + 1
      /\ \A i \in FileName : i # next => ran'[i] = ran[i]
  BY <1>1, <1>2, <1>3 DEF MigrateTypeOK
<1>5. /\ schema' \in [FileName -> SUBSET {f.text : f \in Files}]
      /\ \A i \in FileName : schema[i] \subseteq schema'[i]
      /\ File(p).text \in schema'[next]
  BY <1>1, <1>2, <1>3 DEF MigrateTypeOK
<1>6. ran[next] <= faulted
  <2>1. ~RecordingFile(next)
    <3> SUFFICES ASSUME NEW q \in Pod, pod[q].at = "insert" PROVE FALSE
      BY DEF RecordingFile
    <3>1. lockedBy = q
      BY DEF MigrateInv, PodInv
    <3>2. QED
      BY <1>1, <3>1
  <2>2. QED
    BY <1>1, <1>2, <2>1 DEF MigrateInv, Counted, MigrateTypeOK
<1>7. ran'[next] <= faulted + 1
  BY <1>1, <1>2, <1>4, <1>6 DEF MigrateTypeOK
<1>8. Honest'
  BY <1>5 DEF MigrateInv, Honest
<1>9. InOrder'
  <2> SUFFICES ASSUME NEW i \in FileName, ran'[i] > 0, NEW j \in FileName, j < i
               PROVE  ledger[j] # Nil
    BY DEF InOrder
  <2>1. CASE i = next
    <3>1. j \in 1 .. (next - 1)
      BY <1>2, <2>1, NamesAreNumbers
    <3>2. QED
      BY <1>1, <3>1 DEF PodInv, Recorded
  <2>2. CASE i # next
    BY <1>4, <2>2 DEF MigrateInv, InOrder
  <2>3. QED
    BY <2>1, <2>2
<1>10. QED
  BY <1>4, <1>5, <1>7, <1>8, <1>9

LEMMA ApplyFileInv ==
  ASSUME MigrateInv, NEW p \in Pod, ApplyFile(p) PROVE MigrateInv'
<1> DEFINE next == pod[p].next
<1>1. /\ MigrateTypeOK /\ PodInv(p) /\ lockedBy = p /\ pod[p].at = "apply"
      /\ next \in DOMAIN files[p]
  BY DEF MigrateInv, ApplyFile, PodInv
<1>2. UNCHANGED <<files, lockedBy, ledger, faulted>> /\ Execute(p)
  BY DEF ApplyFile
<1>3. /\ ran' \in [FileName -> Nat]
      /\ schema' \in [FileName -> SUBSET {f.text : f \in Files}]
      /\ \A i \in FileName : schema[i] \subseteq schema'[i]
      /\ File(p).text \in schema'[next]
      /\ \A i \in FileName : i # next => ran'[i] = ran[i]
      /\ ran'[next] <= faulted + 1
      /\ Honest' /\ InOrder'
  BY <1>1, <1>2, Executed
<1>4. PICK to \in [at : Place, next : Nat \ {0}, ok : BOOLEAN] :
        /\ pod' = [pod EXCEPT ![p] = to] /\ pod'[p] = to
        /\ to.at = "insert" /\ to.next = pod[p].next /\ to.ok = pod[p].ok
  BY <1>1, Went DEF ApplyFile, Place
<1>5. \A q \in Pod \ {p} : pod'[q] = pod[q]
  BY <1>1, <1>4 DEF MigrateTypeOK
<1>6. MigrateTypeOK'
  BY <1>1, <1>2, <1>3, <1>4 DEF MigrateTypeOK
<1>7. PodInv(p)'
  <2>1. \A j \in 1 .. (next - 1) : j \in DOMAIN files[p] /\ Recorded(p, j)'
    BY <1>1, <1>2 DEF PodInv, Recorded
  <2>2. File(p)' = File(p)
    BY <1>2, <1>4 DEF File
  <2>3. QED
    BY <1>1, <1>2, <1>3, <1>4, <2>1, <2>2 DEF PodInv
<1>8. \A q \in Pod \ {p} : PodInv(q)'
  BY <1>2, <1>3, <1>5, OthersStay
<1>9. Counted'
  <2> SUFFICES ASSUME NEW i \in FileName
               PROVE  /\ ran'[i] <= faulted + 1
                      /\ ran'[i] > faulted => ledger[i] # Nil \/ RecordingFile(i)'
    BY <1>2 DEF Counted
  <2>1. CASE i = next
    BY <1>3, <1>4, <2>1 DEF RecordingFile
  <2>2. CASE i # next
    <3>1. RecordingFile(i) => RecordingFile(i)'
      <4> SUFFICES ASSUME NEW q \in Pod, pod[q].at = "insert", pod[q].next = i
                   PROVE  RecordingFile(i)'
        BY DEF RecordingFile
      <4>1. pod'[q] = pod[q]
        BY <1>1, <1>5
      <4>2. QED
        BY <4>1 DEF RecordingFile
    <3>2. QED
      BY <1>3, <2>2, <3>1 DEF MigrateInv, Counted
  <2>3. QED
    BY <2>1, <2>2
<1>10. QED
  BY <1>3, <1>6, <1>7, <1>8, <1>9 DEF MigrateInv

LEMMA InsertLedgerInv ==
  ASSUME MigrateInv, NEW p \in Pod, InsertLedger(p) PROVE MigrateInv'
<1> DEFINE next == pod[p].next
           to == [pod[p] EXCEPT !.at = "check", !.next = next + 1]
<1>1. /\ MigrateTypeOK /\ PodInv(p) /\ lockedBy = p /\ pod[p].at = "insert"
      /\ next \in DOMAIN files[p] /\ ledger[next] = Nil /\ ~pod[p].ok
      /\ File(p).text \in schema[next]
  BY DEF MigrateInv, InsertLedger, PodInv
<1>2. /\ UNCHANGED <<files, lockedBy, ran, schema, faulted>>
      /\ ledger' = [ledger EXCEPT ![next] = File(p)]
      /\ pod' = [pod EXCEPT ![p].at = "check", ![p].next = next + 1]
  BY DEF InsertLedger
<1>3. /\ next \in FileName /\ next \in Nat \ {0}
      /\ File(p) \in Files /\ File(p) # Nil
  BY <1>1, FilesOfPod DEF File, MigrateTypeOK
<1>4. /\ ledger' \in [FileName -> Files \cup {Nil}] /\ ledger'[next] = File(p)
      /\ \A i \in FileName : i # next => ledger'[i] = ledger[i]
  BY <1>1, <1>2, <1>3 DEF MigrateTypeOK
<1>5. /\ to \in [at : Place, next : Nat \ {0}, ok : BOOLEAN]
      /\ to.at = "check" /\ to.next = next + 1 /\ to.ok = pod[p].ok
  <2> DEFINE half == [pod[p] EXCEPT !.at = "check"]
  <2>1. /\ half \in [at : Place, next : Nat \ {0}, ok : BOOLEAN]
        /\ half.at = "check" /\ half.ok = pod[p].ok
    BY <1>1 DEF Place, MigrateTypeOK
  <2>2. to = [half EXCEPT !.next = next + 1] /\ next + 1 \in Nat \ {0}
    BY <1>3
  <2> HIDE DEF half, to
  <2>3. QED
    BY <2>1, <2>2
<1>6. /\ pod' \in [Pod -> [at : Place, next : Nat \ {0}, ok : BOOLEAN]]
      /\ pod'[p] = to /\ \A q \in Pod \ {p} : pod'[q] = pod[q]
  <2>1. pod' = [pod EXCEPT ![p] = to]
    BY <1>1, <1>2 DEF MigrateTypeOK
  <2> HIDE DEF to
  <2>2. QED
    BY <1>1, <1>5, <2>1 DEF MigrateTypeOK
<1> HIDE DEF to
<1>7. MigrateTypeOK'
  BY <1>1, <1>2, <1>4, <1>6 DEF MigrateTypeOK
<1>8. PodInv(p)'
  <2>1. \A j \in 1 .. (to.next - 1) : j \in DOMAIN files[p] /\ Recorded(p, j)'
    <3> TAKE j \in 1 .. (to.next - 1)
    <3>1. CASE j = next
      BY <1>1, <1>2, <1>3, <1>4, <3>1 DEF Recorded, File
    <3>2. CASE j # next
      <4>1. j \in 1 .. (next - 1)
        BY <1>3, <1>5, <3>2
      <4>2. j \in DOMAIN files[p] /\ Recorded(p, j) /\ j \in FileName
        BY <1>1, <4>1, FilesOfPod DEF PodInv
      <4>3. QED
        BY <1>2, <1>4, <3>2, <4>2 DEF Recorded
    <3>3. QED
      BY <3>1, <3>2
  <2>2. QED
    BY <1>1, <1>2, <1>5, <1>6, <2>1 DEF PodInv
<1>9. \A q \in Pod \ {p} : PodInv(q)'
  <2>1. \A i \in FileName : ledger[i] # Nil => ledger'[i] = ledger[i]
    BY <1>1, <1>4
  <2>2. QED
    BY <1>1, <1>2, <1>6, <2>1, OthersStay
<1>10. Honest' /\ InOrder'
  <2>1. \A i \in FileName : ledger[i] # Nil => ledger'[i] # Nil
    BY <1>3, <1>4
  <2>2. InOrder'
    BY <1>2, <2>1 DEF MigrateInv, InOrder
  <2>3. Honest'
    BY <1>1, <1>2, <1>4 DEF MigrateInv, Honest
  <2>4. QED
    BY <2>2, <2>3
<1>11. Counted'
  <2> SUFFICES ASSUME NEW i \in FileName, ran[i] > faulted, i # next
               PROVE  ledger'[i] # Nil \/ RecordingFile(i)'
    BY <1>2, <1>3, <1>4 DEF MigrateInv, Counted
  <2>1. CASE ledger[i] # Nil
    BY <1>4, <2>1
  <2>2. CASE RecordingFile(i)
    <3>1. PICK q \in Pod : pod[q].at = "insert" /\ pod[q].next = i
      BY <2>2 DEF RecordingFile
    <3>2. pod'[q] = pod[q]
      BY <1>6, <3>1
    <3>3. QED
      BY <3>1, <3>2 DEF RecordingFile
  <2>3. QED
    BY <2>1, <2>2 DEF MigrateInv, Counted
<1>12. QED
  BY <1>7, <1>8, <1>9, <1>10, <1>11 DEF MigrateInv

-----------------------------------------------------------------------------
(* Failures.                                                               *)

\* One failure more accounts for a file that was executed and is not recorded.
LEMMA BrokenInv ==
  ASSUME MigrateInv, NEW p \in Pod, Halfway(p), faulted' = faulted + 1,
         NEW to \in [at : Place, next : Nat \ {0}, ok : BOOLEAN],
         pod' = [pod EXCEPT ![p] = to],
         UNCHANGED <<files, ledger>>,
         lockedBy' \in Pod \cup {Nil}, \A q \in Pod \ {p} : lockedBy = q => lockedBy' = q,
         PodInv(p)'
  PROVE  MigrateInv'
<1>1. MigrateTypeOK
  BY DEF MigrateInv
<1>2. /\ ran' \in [FileName -> Nat]
      /\ schema' \in [FileName -> SUBSET {f.text : f \in Files}]
      /\ \A i \in FileName : schema[i] \subseteq schema'[i] /\ ran'[i] <= faulted + 1
      /\ Honest' /\ InOrder'
  <2>1. CASE pod[p].at = "apply" /\ Execute(p)
    BY <1>1, <2>1, Executed DEF MigrateInv, Counted
  <2>2. CASE UNCHANGED <<ran, schema>>
    BY <1>1, <2>2 DEF MigrateInv, MigrateTypeOK, Counted, Honest, InOrder
  <2>3. QED
    BY <2>1, <2>2 DEF Halfway
<1>3. MigrateTypeOK'
  BY <1>1, <1>2 DEF MigrateTypeOK
<1>4. \A q \in Pod \ {p} : pod'[q] = pod[q]
  BY <1>1 DEF MigrateTypeOK
<1>5. \A q \in Pod \ {p} : PodInv(q)'
  BY <1>2, <1>4, OthersStay
<1>6. Counted'
  BY <1>1, <1>2 DEF Counted, MigrateTypeOK
<1>7. QED
  BY <1>2, <1>3, <1>5, <1>6 DEF MigrateInv

LEMMA ThrowInv ==
  ASSUME MigrateInv, NEW p \in Pod, Throw(p) PROVE MigrateInv'
<1>1. MigrateTypeOK /\ PodInv(p) /\ lockedBy = p
  BY DEF MigrateInv, Throw, PodInv
<1>2. PICK to \in [at : Place, next : Nat \ {0}, ok : BOOLEAN] :
        /\ pod' = [pod EXCEPT ![p] = to] /\ pod'[p] = to
        /\ to.at = "release" /\ to.next = pod[p].next /\ to.ok = pod[p].ok
  BY <1>1, Went DEF Throw, Place
<1>3. PodInv(p)'
  BY <1>1, <1>2 DEF Throw, PodInv
<1>4. QED
  BY <1>1, <1>2, <1>3, BrokenInv DEF Throw, MigrateTypeOK

LEMMA PodDiesInv ==
  ASSUME MigrateInv, NEW p \in Pod, PodDies(p) PROVE MigrateInv'
<1>1. MigrateTypeOK
  BY DEF MigrateInv
<1>2. PICK to \in [at : Place, next : Nat \ {0}, ok : BOOLEAN] :
        /\ pod' = [pod EXCEPT ![p] = to] /\ pod'[p] = to
        /\ to.at = "failed" /\ to.next = pod[p].next /\ to.ok = pod[p].ok
  BY <1>1, Went DEF PodDies, Place
<1>3. PodInv(p)'
  BY <1>2 DEF PodInv
<1>4. QED
  BY <1>1, <1>2, <1>3, Unlocked, BrokenInv DEF PodDies

-----------------------------------------------------------------------------

LEMMA MigrateStepInv ==
  ASSUME MigrateInv, [MigrateNext]_migrateVars PROVE MigrateInv'
<1>1. CASE UNCHANGED migrateVars
  <2>1. UNCHANGED <<files, pod, lockedBy, ledger, ran, schema, faulted>>
    BY <1>1 DEF migrateVars
  <2>2. MigrateTypeOK'
    BY <2>1 DEF MigrateInv, MigrateTypeOK
  <2>3. \A p \in Pod : PodInv(p)'
    BY <2>1 DEF MigrateInv, PodInv, File, Recorded
  <2>4. Honest' /\ Counted' /\ InOrder'
    BY <2>1 DEF MigrateInv, Honest, Counted, InOrder, RecordingFile
  <2>5. QED
    BY <2>2, <2>3, <2>4 DEF MigrateInv
<1>2. QED
  BY <1>1, BootstrapInv, GetLockInv, LockTimeoutInv, CheckFileInv, ApplyFileInv,
     InsertLedgerInv, AllAppliedInv, ReleaseLockInv, ThrowInv, PodDiesInv, RestartInv
  DEF MigrateNext

LEMMA MigrateInvariant == MigrateSpec => []MigrateInv
  BY MigrateInitInv, MigrateStepInv, PTL DEF MigrateSpec

\* Every reachable state of runMigrations is well typed.
THEOREM MigrateTypeCorrect == MigrateSpec => []MigrateTypeOK
<1>1. MigrateInv => MigrateTypeOK
  BY DEF MigrateInv
<1>2. QED
  BY MigrateInvariant, <1>1, PTL

\* When runMigrations has come to its end in a pod, each of the pod's files is
\* recorded with its own text and was executed.
THEOREM DoneWasMigrated == MigrateSpec => []DoneIsMigrated
<1>1. ASSUME MigrateInv, NEW p \in Pod, pod[p].at = "done", NEW i \in DOMAIN files[p]
      PROVE  /\ ledger[i] # Nil /\ ledger[i].text = files[p][i].text
             /\ files[p][i].text \in schema[i]
  <2>1. Recorded(p, i)
    BY <1>1 DEF MigrateInv, PodInv
  <2>2. i \in FileName
    BY <1>1, FilesOfPod DEF MigrateInv
  <2>3. QED
    BY <1>1, <2>1, <2>2 DEF MigrateInv, Honest, Recorded
<1>2. MigrateInv => DoneIsMigrated
  BY <1>1 DEF DoneIsMigrated
<1>3. QED
  BY MigrateInvariant, <1>2, PTL

\* With the advisory lock a file is executed once, and once more at most for each
\* failure, and only after every file before it was recorded.
THEOREM FilesAreAppliedInOrder == MigrateSpec => []AppliedOnceInOrder
<1>1. MigrateInv => AppliedOnceInOrder
  BY DEF MigrateInv, MigrateTypeOK, Counted, InOrder, AppliedOnceInOrder
<1>2. QED
  BY MigrateInvariant, <1>1, PTL
=============================================================================
