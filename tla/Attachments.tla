----------------------------- MODULE Attachments -----------------------------
(***************************************************************************)
(* Files kept in object storage: the row in the database and the object in *)
(* the bucket are two stores, and no transaction covers both.  A client    *)
(* uploads straight to the bucket and confirms afterwards                  *)
(* (apps/attachments/services.py, confirm_upload); the server stores files *)
(* of its own (save_bytes); a deleted row keeps its object until the       *)
(* nightly sweep (purge_detached_objects) removes the object and then      *)
(* clears the row's key.  Reports.tla composes this with the monthly       *)
(* report, whose PDF is such a file.                                       *)
(*                                                                         *)
(* A row is an element of the sequence `files`, its identity its index.    *)
(* An uploads object is named by the key prepare_upload generated, an     *)
(* object of the server by a fresh number.  A confirmation reads, asks     *)
(* storage and inserts under READ COMMITTED with no lock, so its read and  *)
(* its insert are two steps.                                               *)
(***************************************************************************)
EXTENDS Naturals, FiniteSets, Sequences

CONSTANTS
    Uploads,      \* the keys handed out for uploads
    Unfit,        \* those whose object turns out too large, of another type or a refused signature
    Nothing,      \* no key, no contact, no report
    Clients,      \* requests that may confirm an upload at one time
    LastDay,      \* bound: the days the model runs for
    PurgeAfter,   \* days a deleted row keeps its object (ATTACHMENT_PURGE_AFTER_DAYS, scaled down)
    MaxConfirms   \* bound: rows confirmations may make of one upload

ASSUME AttachmentsAssumption ==
    /\ Unfit \subseteq Uploads /\ Nothing \notin Uploads \cup Nat /\ Uploads \cap Nat = {}
    /\ LastDay \in Nat \ {0} /\ PurgeAfter \in Nat \ {0} /\ MaxConfirms \in Nat

VARIABLES
    date,        \* the local date
    bucket,       \* the keys with an object behind them
    files,        \* the attachment table, in the order its rows were made
    uploads,      \* per key: not yet made up, its URL handed out, or its object put
    confirming,   \* per client, the key whose confirmation it has begun, or Nothing
    sweeping      \* the row whose object the sweep has just removed, or 0

attachmentVars == <<date, bucket, files, uploads, confirming, sweeping>>

(* A row of the attachment table: `server` for the category no one uploads or deletes. *)
Attachment(key, server) ==
    [key |-> key, server |-> server, deletedOn |-> 0, cleared |-> FALSE]

(* A live row whose object the sweep has not removed. *)
LiveFile(f) == files[f].deletedOn = 0 /\ ~files[f].cleared

RowsOf(key) == {f \in DOMAIN files : files[f].key = key}

(* The filter of a confirmation that may be a retry: a live row of this key. *)
Confirmed(key) == \E f \in RowsOf(key) : files[f].deletedOn = 0

(* What soft-deleting a row leaves. *)
SoftDeleted(f) == [files EXCEPT ![f].deletedOn = date]

AttachmentsInit ==
    /\ date = 1
    /\ bucket = {}
    /\ files = <<>>
    /\ uploads = [u \in Uploads |-> "none"]
    /\ confirming = [c \in Clients |-> Nothing]
    /\ sweeping = 0

-----------------------------------------------------------------------------
(* prepare_upload makes up a key and signs a URL for it; no row is written. *)
PrepareUpload(u) ==
    /\ uploads[u] = "none"
    /\ uploads' = [uploads EXCEPT ![u] = "signed"]
    /\ UNCHANGED <<date, bucket, files, confirming, sweeping>>

(* The client puts its object there, once. *)
Put(u) ==
    /\ uploads[u] = "signed"
    /\ uploads' = [uploads EXCEPT ![u] = "put"]
    /\ bucket' = bucket \cup {u}
    /\ UNCHANGED <<date, files, confirming, sweeping>>

(* A confirmation finds no live row of its key; one that does answers with that row. *)
ConfirmLooks(c, u) ==
    /\ confirming[c] = Nothing
    /\ uploads[u] # "none"
    /\ ~Confirmed(u)
    /\ Cardinality(RowsOf(u)) < MaxConfirms
    /\ confirming' = [confirming EXCEPT ![c] = u]
    /\ UNCHANGED <<date, bucket, files, uploads, sweeping>>

(* Storage knows no such object: the client is told to upload it first. *)
ConfirmFindsNothing(c) ==
    /\ confirming[c] \notin bucket \cup {Nothing}
    /\ confirming' = [confirming EXCEPT ![c] = Nothing]
    /\ UNCHANGED <<date, bucket, files, uploads, sweeping>>

(* What storage reports is not acceptable: the object is removed and the upload refused. *)
ConfirmRefuses(c) ==
    /\ confirming[c] \in bucket \cap Unfit
    /\ bucket' = bucket \ {confirming[c]}
    /\ confirming' = [confirming EXCEPT ![c] = Nothing]
    /\ UNCHANGED <<date, files, uploads, sweeping>>

(* The row is inserted; nothing in the table makes a key unique. *)
ConfirmRecords(c) ==
    /\ confirming[c] \in bucket \ Unfit
    /\ files' = Append(files, Attachment(confirming[c], FALSE))
    /\ confirming' = [confirming EXCEPT ![c] = Nothing]
    /\ UNCHANGED <<date, bucket, uploads, sweeping>>

(* perform_destroy: a report's PDF is refused, every other file is soft-deleted. *)
DeleteFile(f) ==
    /\ LiveFile(f)
    /\ ~files[f].server
    /\ files' = SoftDeleted(f)
    /\ UNCHANGED <<date, bucket, uploads, confirming, sweeping>>

AttachmentViewSet ==
    \/ \E u \in Uploads : Put(u)
    \/ \E c \in Clients, u \in Uploads : ConfirmLooks(c, u)
    \/ \E c \in Clients : ConfirmFindsNothing(c) \/ ConfirmRefuses(c) \/ ConfirmRecords(c)
    \/ \E f \in DOMAIN files : DeleteFile(f)

-----------------------------------------------------------------------------
(* Rows deleted long enough ago whose object is still due for removal. *)
Detached(f) ==
    /\ files[f].deletedOn # 0
    /\ date >= files[f].deletedOn + PurgeAfter
    /\ ~files[f].cleared

(* Mutated: the key is cleared before the object is removed. *)
SweepRemoves_ClearsFirst(f) ==
    /\ sweeping = 0
    /\ Detached(f)
    /\ files' = [files EXCEPT ![f].cleared = TRUE]
    /\ sweeping' = f
    /\ UNCHANGED <<date, bucket, uploads, confirming>>

(* The sweep removes one row's object... *)
SweepRemoves(f) ==
    /\ sweeping = 0
    /\ Detached(f)
    /\ bucket' = bucket \ {files[f].key}
    /\ sweeping' = f
    /\ UNCHANGED <<date, files, uploads, confirming>>

(* ... and then clears its key, one row at a time. *)
SweepClears ==
    /\ sweeping # 0
    /\ files' = [files EXCEPT ![sweeping].cleared = TRUE]
    /\ sweeping' = 0
    /\ UNCHANGED <<date, bucket, uploads, confirming>>

(* The worker dies between the two: the next sweep takes the row again. *)
SweepDies ==
    /\ sweeping # 0
    /\ sweeping' = 0
    /\ UNCHANGED <<date, bucket, files, uploads, confirming>>

PurgeAttachments ==
    \/ \E f \in DOMAIN files : SweepRemoves(f)
    \/ SweepClears
    \/ SweepDies

-----------------------------------------------------------------------------
(* A row whose key was cleared has no object left: "a crash halfway through *)
(* must not leave rows claiming their bytes are gone when they are still    *)
(* there".                                                                  *)
SweptMeansGone == \A f \in DOMAIN files : files[f].cleared => files[f].key \notin bucket

=============================================================================
