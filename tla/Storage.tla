------------------------------ MODULE Storage ------------------------------
(***************************************************************************)
(* StorageService of packages/storage, and the report route of the API     *)
(* that uploads through it, for one object key: keys do not interact.  An  *)
(* artifact is an object in the bucket and a row in `stored_artifacts',    *)
(* written by two commands, between which anything may happen.  A content  *)
(* stands for its bytes and their SHA-256.  The key of a trace or a report *)
(* has the digest in it and so belongs to one content; to any other key    *)
(* anything may be uploaded.                                               *)
(***************************************************************************)
EXTENDS Naturals, FiniteSets

CONSTANTS Content,
          Client,        \* calls that may overlap
          None,
          MaxRejections  \* bound: commands that fail

ASSUME StorageAssumption == None \notin Content /\ IsFiniteSet(Content)

VARIABLES
  contents,  \* what may be uploaded under the key
  bucket,    \* the bucket exists
  object,    \* the object of the key
  record,    \* the row of the key: its sha256Checksum
  call,      \* the calls of the service
  acked,     \* history: an upload was acknowledged, and no delete has begun since
  marks,     \* history: what has happened to the key
  rejections

storageVars == <<contents, bucket, object, record, call, acked, marks, rejections>>

Upload == {"upload", "contentAddressed", "report"}
Delete == {"delete", "deleteForTenant"}
Read   == {"verify", "downloadForTenant"}

\* overlap: an upload and a delete were under way at once; half: a delete ended
\* in the middle; rewritten: another content was put under the key.
Marks == {"overlap", "half", "rewritten"}

StorageInit ==
  /\ contents \in {{c} : c \in Content} \cup {Content}
  /\ bucket = FALSE /\ object = None /\ record = None
  /\ call = [c \in Client |-> [at |-> "idle", op |-> None, content |-> None]]
  /\ acked = FALSE /\ marks = {} /\ rejections = 0

-----------------------------------------------------------------------------

Under(ops) == {c \in Client : call[c].op \in ops /\ call[c].at \notin {"idle", "done", "failed"}}

To(c, at) == call' = [call EXCEPT ![c].at = at]

First == [op \in Upload \cup Delete \cup Read |->
  CASE op \in {"upload", "report"} -> "bucket"
    [] op = "contentAddressed" -> "look"
    [] op = "delete" -> "object"
    [] OTHER -> "select"]

\* A call; the report route first reads the campaign and its runs, which decide
\* the content.
StartCall(c, op, content) ==
  /\ call[c].at \in {"idle", "done", "failed"}
  /\ op \in {"contentAddressed", "report"} => Cardinality(contents) = 1
  /\ call' = [call EXCEPT ![c] = [at |-> First[op], op |-> op, content |-> content]]
  /\ acked' = (acked /\ op \notin Delete)
  /\ marks' = marks
       \cup (IF \/ op \in Upload /\ Under(Delete) # {}
                \/ op \in Delete /\ Under(Upload) # {} THEN {"overlap"} ELSE {})
       \cup (IF op \in Upload /\ Cardinality(contents) > 1 /\ (object # None \/ Under(Upload) # {})
             THEN {"rewritten"} ELSE {})
  /\ UNCHANGED <<contents, bucket, object, record, rejections>>

Settle(c, at) ==
  /\ To(c, at)
  /\ acked' = (acked \/ (at = "done" /\ call[c].op \in Upload /\ Under(Delete) = {}))
  /\ UNCHANGED <<contents, marks, rejections>>

\* uploadContentAddressedArtifact looks for the record first.
SelectExisting(c) ==
  /\ call[c].at = "look"
  /\ Settle(c, IF record = None THEN "bucket" ELSE "done")
  /\ UNCHANGED <<bucket, object, record>>

\* HEAD, then CREATE if it failed; that somebody else created it meanwhile is
\* no error.
EnsureBucket(c) ==
  /\ call[c].at = "bucket"
  /\ bucket' = TRUE
  /\ Settle(c, "put")
  /\ UNCHANGED <<object, record>>

PutObject(c) ==
  /\ call[c].at = "put" /\ bucket
  /\ object' = call[c].content
  /\ Settle(c, "insert")
  /\ UNCHANGED <<bucket, record>>

\* The object key is unique: with a row there the INSERT fails.  The report is
\* answered all the same, without an artifact.
InsertRow(c) ==
  /\ call[c].at = "insert"
  /\ IF record = None
     THEN record' = call[c].content /\ Settle(c, "done")
     ELSE UNCHANGED record /\ Settle(c, "failed")
  /\ UNCHANGED <<bucket, object>>

DeleteObject(c) ==
  /\ call[c].at = "object"
  /\ object' = None
  /\ Settle(c, "row")
  /\ UNCHANGED <<bucket, record>>

DeleteRow(c) ==
  /\ call[c].at = "row"
  /\ record' = None
  /\ Settle(c, "done")
  /\ UNCHANGED <<bucket, object>>

\* The record that the calls for a tenant, and verify, start from: without one,
\* or with one of another tenant, they throw.
SelectRecord(c) ==
  /\ call[c].at = "select" /\ record # None
  /\ call' = [call EXCEPT ![c].at = IF call[c].op \in Delete THEN "object" ELSE "get",
                          ![c].content = IF call[c].op \in Delete THEN @ ELSE record]
  /\ UNCHANGED <<contents, bucket, object, record, acked, marks, rejections>>

Refuse(c) ==
  /\ call[c].at = "select"
  /\ Settle(c, "failed")
  /\ UNCHANGED <<bucket, object, record>>

\* verifyArtifactIntegrity compares what it gets with the record it read.
GetObject(c) ==
  /\ call[c].at = "get"
  /\ Settle(c, IF object = None \/ (call[c].op = "verify" /\ object # call[c].content)
               THEN "failed" ELSE "done")
  /\ UNCHANGED <<bucket, object, record>>

\* What the command a call waits for does, if it is executed.
Effect(c) ==
  \/ call[c].at = "put" /\ object' = call[c].content /\ UNCHANGED record
  \/ call[c].at = "insert" /\ record = None /\ record' = call[c].content /\ UNCHANGED object
  \/ call[c].at = "object" /\ object' = None /\ UNCHANGED record
  \/ call[c].at = "row" /\ record' = None /\ UNCHANGED object

Broken(c, at) ==
  /\ rejections < MaxRejections /\ rejections' = rejections + 1
  /\ call[c].at \notin {"idle", "done", "failed"}
  /\ To(c, at)
  /\ marks' = marks \cup (IF call[c].at \in {"object", "row"} THEN {"half"} ELSE {})
  /\ UNCHANGED <<contents, bucket, acked>>

\* Mutant: an upload goes on although its PUT has failed.
PutFailureIgnored(c) ==
  /\ Broken(c, IF call[c].at = "put" THEN "insert" ELSE "failed")
  /\ Effect(c) \/ UNCHANGED <<object, record>>

\* A command fails, or the process dies; the command may have been executed.
\* Nothing that was done before is undone.
Reject(c) ==
  /\ Broken(c, "failed")
  /\ Effect(c) \/ UNCHANGED <<object, record>>

-----------------------------------------------------------------------------
StorageNext == \E c \in Client :
  \/ \E op \in Upload, content \in contents : StartCall(c, op, content)
  \/ \E op \in Delete \cup Read : StartCall(c, op, None)
  \/ SelectExisting(c) \/ EnsureBucket(c) \/ PutObject(c) \/ InsertRow(c)
  \/ DeleteObject(c) \/ DeleteRow(c) \/ SelectRecord(c) \/ Refuse(c) \/ GetObject(c)
  \/ Reject(c)

StorageSpec == StorageInit /\ [][StorageNext]_storageVars

-----------------------------------------------------------------------------
(* Properties                                                              *)

\* Uploads that race or fail anywhere never leave a record without the object it
\* describes, and what was acknowledged keeps its record.  What it takes to break
\* this is a delete that overlaps an upload or fails in the middle, or an upload
\* of something else under the same key.
ArtifactsAreWhole ==
  marks = {} =>
    /\ record # None /\ Under(Delete) = {} => object = record
    /\ acked => record # None

\* uploadContentAddressedArtifact: "Re-uploading the same content is idempotent
\* (same key -> same object in MinIO)".  An acknowledged upload that no delete
\* overlapped or followed has its object.
ReuploadIsWhole ==
  (acked /\ Cardinality(contents) = 1 /\ "overlap" \notin marks) => object \in contents
=============================================================================
