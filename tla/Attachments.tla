------------------------------ MODULE Attachments ------------------------------
(* Attachment rows, the stored objects they name, and those that remove them: an   *)
(* upload that reuses the object of an equal file, the message that binds a row,    *)
(* the deletion of a message or a channel, and the collector of orphan rows.  Each   *)
(* step is one statement, one transaction or one call of the object store; uploads   *)
(* and collections of several server instances run between any two of them.          *)
EXTENDS Integers, FiniteSets

CONSTANTS
  File,       \* uploads; one stands for its row and for the storage_key it may create
  Legacy,     \* uploads made before rows had a hash
  Content,    \* what sha256 tells apart
  Post,       \* messages
  Channel,
  Collector,  \* sweeps and channel deletions that may clean up at one time
  NoFile,
  MaxPosts, MaxCrashes   \* bounds

ASSUME AttachmentsAssumption ==
  /\ Legacy \subseteq File /\ NoFile \notin File
  /\ MaxPosts \in Nat /\ MaxCrashes \in Nat

VARIABLES
  upload,     \* file -> [stage, key]: handleAttachmentUpload at work
  content,    \* file -> what it holds
  row,        \* file -> the key its row names; NoFile: there is no row
  hashed,     \* rows with a sha256
  old,        \* rows past the grace period
  object,     \* keys with bytes in the store
  channelOf,  \* post -> its channel, or "none"
  bound,      \* message_attachments: pairs of post and file
  cleanup,    \* collector -> keys it has yet to look at
  removing,   \* collector -> the key found without reference, or NoFile
  posts, crashes

filesDb == <<row, hashed, old, channelOf, bound, posts>>
filesVars == <<upload, content, row, hashed, old, object, channelOf, bound, cleanup,
               removing, posts, crashes>>

Stages == {"none", "save", "insert", "done", "failed"}
Rows == {f \in File : row[f] # NoFile}
Bound(f) == \E p \in Post : <<p, f>> \in bound
PostsIn(c) == {p \in Post : channelOf[p] = c}
FilesOf(ps) == {f \in File : \E p \in ps : <<p, f>> \in bound}

FilesInit ==
  /\ upload = [f \in File |-> [stage |-> IF f \in Legacy THEN "done" ELSE "none",
                               key |-> IF f \in Legacy THEN f ELSE NoFile]]
  /\ content \in [File -> Content]
  /\ row = [f \in File |-> IF f \in Legacy THEN f ELSE NoFile]
  /\ hashed = {} /\ old = Legacy /\ object = Legacy
  /\ channelOf = [p \in Post |-> "none"] /\ bound = {}
  /\ cleanup = [g \in Collector |-> {}] /\ removing = [g \in Collector |-> NoFile]
  /\ posts = 0 /\ crashes = 0
-----------------------------------------------------------------------------
(* Uploads                                                                   *)

To(f, stage, key) == upload' = [upload EXCEPT ![f] = [stage |-> stage, key |-> key]]

\* the file is received and hashed; the key of a row with this hash is taken over
LookForEqual(f) ==
  /\ upload[f].stage = "none"
  /\ LET equal == {e \in Rows \cap hashed : content[e] = content[f]}
     IN  IF equal = {} THEN To(f, "save", f)
         ELSE \E e \in equal : To(f, "insert", row[e])
  /\ UNCHANGED <<content, filesDb, object, cleanup, removing, crashes>>

SaveBytes(f) ==
  /\ upload[f].stage = "save"
  /\ object' = object \cup {f} /\ To(f, "insert", f)
  /\ UNCHANGED <<content, filesDb, cleanup, removing, crashes>>

InsertFileRow(f) ==
  /\ upload[f].stage = "insert" /\ To(f, "done", upload[f].key)
  /\ row' = [row EXCEPT ![f] = upload[f].key] /\ hashed' = hashed \cup {f}
  /\ UNCHANGED <<content, old, object, channelOf, bound, cleanup, removing, posts, crashes>>

UploadFails(f) ==
  /\ upload[f].stage \in {"save", "insert"} /\ crashes < MaxCrashes
  /\ crashes' = crashes + 1 /\ To(f, "failed", upload[f].key)
  /\ UNCHANGED <<content, filesDb, object, cleanup, removing>>

\* backfillSha256, row by row
HashLegacy(f) ==
  /\ f \in Rows \ hashed /\ row[f] \in object /\ hashed' = hashed \cup {f}
  /\ UNCHANGED <<upload, content, row, old, object, channelOf, bound, cleanup, removing,
                 posts, crashes>>

PassesGrace(f) ==
  /\ f \in Rows \ old /\ old' = old \cup {f}
  /\ UNCHANGED <<upload, content, row, hashed, object, channelOf, bound, cleanup,
                 removing, posts, crashes>>
-----------------------------------------------------------------------------
(* Messages                                                                  *)

\* a message is sent with attachments; a row that is gone fails the whole message
SendWith(c, fs) ==
  /\ posts < MaxPosts /\ posts' = posts + 1 /\ fs \subseteq Rows
  /\ \E p \in Post :
       /\ channelOf[p] = "none" /\ p \notin {b[1] : b \in bound}
       /\ channelOf' = [channelOf EXCEPT ![p] = c]
       /\ bound' = bound \cup {<<p, f>> : f \in fs}
  /\ UNCHANGED <<upload, content, row, hashed, old, object, cleanup, removing, crashes>>

DeletePost(p) ==
  /\ channelOf[p] # "none" /\ bound' = {b \in bound : b[1] # p}
  /\ UNCHANGED <<upload, content, row, hashed, old, object, channelOf, cleanup, removing,
                 posts, crashes>>
-----------------------------------------------------------------------------
(* Collection                                                                *)

Idle(g) == cleanup[g] = {} /\ removing[g] = NoFile

\* rows go in one statement; their keys are cleaned up after it
DropRows(g, fs) ==
  /\ row' = [f \in File |-> IF f \in fs THEN NoFile ELSE row[f]]
  /\ cleanup' = [cleanup EXCEPT ![g] = {row[f] : f \in fs}]

\* a channel goes with its messages and the rows only they were bound to
DeleteChannel(g, c) ==
  /\ Idle(g) /\ PostsIn(c) # {}
  /\ LET rest == {b \in bound : b[1] \notin PostsIn(c)}
     IN  /\ DropRows(g, {f \in FilesOf(PostsIn(c)) : f \notin {b[2] : b \in rest}})
         /\ bound' = rest
  /\ channelOf' = [p \in Post |-> IF channelOf[p] = c THEN "none" ELSE channelOf[p]]
  /\ UNCHANGED <<upload, content, hashed, old, object, removing, posts, crashes>>

\* a batch of rows past the grace period that no message refers to
Sweep(g) ==
  /\ Idle(g)
  /\ \E fs \in SUBSET {f \in Rows \cap old : ~Bound(f)} :
       fs # {} /\ DropRows(g, fs)
  /\ UNCHANGED <<upload, content, hashed, old, object, channelOf, bound, removing,
                 posts, crashes>>

\* a plausible fault: rows that share the key are not asked for
CheckNothing(g) ==
  /\ removing[g] = NoFile
  /\ \E k \in cleanup[g] :
       /\ cleanup' = [cleanup EXCEPT ![g] = @ \ {k}]
       /\ removing' = [removing EXCEPT ![g] = k]
  /\ UNCHANGED <<upload, content, filesDb, object, crashes>>

CheckKey(g) ==
  /\ removing[g] = NoFile
  /\ \E k \in cleanup[g] :
       /\ cleanup' = [cleanup EXCEPT ![g] = @ \ {k}]
       /\ removing' = IF \E f \in File : row[f] = k THEN removing
                      ELSE [removing EXCEPT ![g] = k]
  /\ UNCHANGED <<upload, content, filesDb, object, crashes>>

\* the object goes; or the store refuses, which is only logged
RemoveBytes(g) ==
  /\ removing[g] # NoFile /\ removing' = [removing EXCEPT ![g] = NoFile]
  /\ object' \in {object, object \ {removing[g]}}
  /\ UNCHANGED <<upload, content, filesDb, cleanup, crashes>>

CollectorDies(g) ==
  /\ ~Idle(g) /\ crashes < MaxCrashes /\ crashes' = crashes + 1
  /\ cleanup' = [cleanup EXCEPT ![g] = {}] /\ removing' = [removing EXCEPT ![g] = NoFile]
  /\ UNCHANGED <<upload, content, filesDb, object>>

FilesNext ==
  \/ \E f \in File : LookForEqual(f) \/ SaveBytes(f) \/ InsertFileRow(f) \/ UploadFails(f)
                       \/ HashLegacy(f) \/ PassesGrace(f)
  \/ \E c \in Channel, fs \in SUBSET File : SendWith(c, fs)
  \/ \E p \in Post : DeletePost(p)
  \/ \E g \in Collector : Sweep(g) \/ CheckKey(g) \/ RemoveBytes(g) \/ CollectorDies(g)
                            \/ \E c \in Channel : DeleteChannel(g, c)

FilesSpec == FilesInit /\ [][FilesNext]_filesVars
-----------------------------------------------------------------------------
(* Properties                                                                *)

\* Types of the rows, the stored bytes and the clean-ups under way.
FilesTypeOK ==
  /\ upload \in [File -> [stage : Stages, key : File \cup {NoFile}]]
  /\ content \in [File -> Content] /\ row \in [File -> File \cup {NoFile}]
  /\ hashed \subseteq File /\ old \subseteq File /\ object \subseteq File
  /\ channelOf \in [Post -> Channel \cup {"none"}] /\ bound \subseteq Post \X File
  /\ cleanup \in [Collector -> SUBSET File] /\ removing \in [Collector -> File \cup {NoFile}]
  /\ posts \in 0 .. MaxPosts /\ crashes \in 0 .. MaxCrashes

\* The bytes an upload stored stay as long as its row does, whatever rows share them
\* and are deleted: the reference count of attachment-gc.ts.
StoredBytesStay == \A f \in Rows : row[f] = f => f \in object

\* What a message refers to has a row, and every row names bytes of its own content.
BoundFilesHaveRows ==
  /\ \A b \in bound : b[2] \in Rows
  /\ \A f \in Rows : content[row[f]] = content[f]

\* The chain from a message over rows and keys to the stored bytes holds.
FilesAreWhole == StoredBytesStay /\ BoundFilesHaveRows

\* No row is ever without its bytes (attachment-gc.ts:87-88).
RowsHaveBytes == \A f \in Rows : row[f] \in object
=============================================================================
