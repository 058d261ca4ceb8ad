----------------------------- MODULE Retention -----------------------------
(***************************************************************************)
(* What is kept of deleted accounts: the retention record of each, its     *)
(* expiry in batches, the files it covers at the object storage, and the   *)
(* legal holds that two administrators place and release                   *)
(* (data-retention.worker.ts, data-retention-legal-hold.service.ts,        *)
(* media-asset.service.ts, the triggers of migrations                      *)
(* 20260801007400_data_retention_legal_holds and                           *)
(* 20260825030000_retention_media_legal_hold_barrier).                     *)
(*                                                                         *)
(* A worker that has lost its lease finds no row with its token and        *)
(* changes nothing, so a lease is a flag here; what it has asked of the    *)
(* storage may still happen (stray).  One category of records is modelled, *)
(* that of support, disputes and safety, which has files.                  *)
(***************************************************************************)
EXTENDS Account

CONSTANTS
    Records,    \* retention records, one for each deleted account
    Media,      \* files
    Uploader,   \* the record of the account that uploaded a file
    Parties,    \* the records of the accounts whose cases a file belongs to
    Batches     \* bound: batches of other content under a record

RecordRows ==
    [phase : {"media", "content", "verify", "done"}, content : 0..Batches,
     due : BOOLEAN, leased : BOOLEAN, claimed : BOOLEAN]

MediaRows ==
    [bound : Records \cup {None}, leased : BOOLEAN, unknown : BOOLEAN, deleted : BOOLEAN,
     call : {"none", "calling", "gone", "failed"}]

ASSUME RetentionAssumption ==
    /\ Uploader \in [Media -> Records] /\ Parties \in [Media -> SUBSET Records]
    /\ \A m \in Media : Uploader[m] \in Parties[m]
    /\ Batches \in Nat \ {0}
    /\ None \notin Records /\ None \notin RecordRows /\ None \notin MediaRows

VARIABLES
    record,     \* AccountDataRetentionRecord
    placement,  \* who requested the hold that waits for a decision
    hold,       \* whether a legal hold is active
    release,    \* who requested the release that waits for a decision
    media,      \* MediaAsset
    stored,     \* the files the object storage has
    stray,      \* files with a delete call nobody waits for any more
    kept        \* what a record covered when its hold was requested

retentionVars == <<record, placement, hold, release, media, stored, stray, kept>>

RetentionTypeOK ==
    /\ record \in [Records -> RecordRows \cup {None}]
    /\ placement \in [Records -> Admins \cup {None}]
    /\ hold \in [Records -> BOOLEAN]
    /\ release \in [Records -> Admins \cup {None}]
    /\ media \in [Media -> MediaRows \cup {None}]
    /\ stored \subseteq Media
    /\ stray \subseteq Media
    /\ kept \in [Records -> [content : 0..Batches, media : SUBSET Media]]

NewRecord == [phase |-> "media", content |-> Batches, due |-> FALSE, leased |-> FALSE, claimed |-> FALSE]

NewMedia == [bound |-> None, leased |-> FALSE, unknown |-> FALSE, deleted |-> FALSE, call |-> "none"]

\* The accounts of others have been deleted before.
RetentionInit(others) ==
    /\ record = [r \in Records |-> IF r \in others THEN NewRecord ELSE None]
    /\ placement = [r \in Records |-> None]
    /\ hold = [r \in Records |-> FALSE]
    /\ release = [r \in Records |-> None]
    /\ media = [m \in Media |-> NewMedia]
    /\ stored = Media
    /\ stray = {}
    /\ kept = [r \in Records |-> [content |-> 0, media |-> {}]]

holds == <<placement, hold, release, kept>>
files == <<media, stored, stray>>

Exists(r) == record[r] # None
Open(r) == Exists(r) /\ record[r].phase # "done"

\* What stops every expiry: an active hold, or one that waits for a decision.
Barrier(r) == hold[r] \/ placement[r] # None

\* The files a hold of r is for.
Scope(r) ==
    {m \in Media : /\ media[m] # None
                   /\ \/ media[m].bound = r
                      \/ media[m].bound = None /\ Uploader[m] = r}

\* The files the expiry of r is about.
PartyMedia(r) == {m \in Media : media[m] # None /\ r \in Parties[m]}

-----------------------------------------------------------------------------
(* The expiry of a record. *)

\* The retention period ends.
Elapse(r) ==
    /\ Exists(r) /\ ~record[r].due
    /\ record' = [record EXCEPT ![r].due = TRUE]
    /\ UNCHANGED <<holds, files>>

ClaimRecord(r) ==
    /\ Open(r) /\ record[r].due /\ ~record[r].leased
    /\ ~Barrier(r)
    /\ record' = [record EXCEPT ![r].leased = TRUE]
    /\ UNCHANGED <<holds, files>>

\* The worker stops or fails, and the lease is released or expires.
LoseRecord(r) ==
    /\ Exists(r) /\ record[r].leased
    /\ record' = [record EXCEPT ![r].leased = FALSE]
    /\ UNCHANGED <<holds, files>>

Processing(r, phase) ==
    /\ Open(r) /\ record[r].leased /\ record[r].phase = phase
    /\ ~Barrier(r)

Unscheduled(r) == {m \in PartyMedia(r) : ~media[m].deleted /\ media[m].bound = None}

\* Mutant of Waiting: a file whose deletion has no known outcome is not waited for.
WaitingKnown(r) == {m \in PartyMedia(r) : ~media[m].deleted /\ ~media[m].unknown /\ media[m].bound = r}

Waiting(r) == {m \in PartyMedia(r) : ~media[m].deleted /\ media[m].bound = r}

ScheduleMedia(r) ==
    /\ Processing(r, "media")
    /\ Unscheduled(r) # {}
    /\ media' = [m \in Media |-> IF m \in Unscheduled(r) THEN [media[m] EXCEPT !.bound = r]
                                                        ELSE media[m]]
    /\ record' = [record EXCEPT ![r].leased = FALSE]
    /\ UNCHANGED <<holds, stored, stray>>

WaitForStorage(r) ==
    /\ Processing(r, "media")
    /\ Unscheduled(r) = {} /\ Waiting(r) # {}
    /\ record' = [record EXCEPT ![r].leased = FALSE]
    /\ UNCHANGED <<holds, files>>

\* The rows of the files that are gone are deleted.
DropMedia(r) ==
    /\ Processing(r, "media")
    /\ Unscheduled(r) = {} /\ Waiting(r) = {}
    /\ media' = [m \in Media |-> IF m \in PartyMedia(r) /\ media[m].bound = r THEN None ELSE media[m]]
    /\ record' = [record EXCEPT ![r].leased = FALSE, ![r].phase = "content"]
    /\ UNCHANGED <<holds, stored, stray>>

EraseContent(r) ==
    /\ Processing(r, "content")
    /\ record' = [record EXCEPT ![r].leased = FALSE, ![r].content = @ - 1,
                                ![r].phase = IF record[r].content = 1 THEN "verify" ELSE "content"]
    /\ UNCHANGED <<holds, files>>

\* It fails while a file of the account's cases is left, which may be the other party's.
VerifyExpired(r) ==
    /\ Processing(r, "verify")
    /\ PartyMedia(r) = {}
    /\ record' = [record EXCEPT ![r].leased = FALSE, ![r].phase = "done"]
    /\ UNCHANGED <<holds, files>>

-----------------------------------------------------------------------------
(* The files at the object storage. *)

\* The record a file is deleted under.
DeletedUnder(m) == IF media[m].bound = None THEN Uploader[m] ELSE media[m].bound

ClaimableMedia(m) ==
    /\ media[m] # None /\ ~media[m].deleted
    /\ Open(DeletedUnder(m)) /\ record[DeletedUnder(m)].due
    /\ ~Barrier(DeletedUnder(m))

\* A file is claimed, also when an earlier claim has expired, and the storage called.
ClaimMedia(m) ==
    /\ ClaimableMedia(m)
    /\ media' = [media EXCEPT ![m].bound = DeletedUnder(m), ![m].leased = TRUE, ![m].call = "calling"]
    /\ record' = [record EXCEPT ![DeletedUnder(m)].claimed = TRUE]
    /\ stray' = IF media[m].call = "calling" THEN stray \cup {m} ELSE stray
    /\ UNCHANGED <<holds, stored>>

Calling(m) == media[m] # None /\ media[m].call = "calling"

StorageDeletes(m) ==
    /\ Calling(m)
    /\ stored' = stored \ {m}
    /\ media' = [media EXCEPT ![m].call = "gone"]
    /\ UNCHANGED <<record, holds, stray>>

StorageDeletesLate(m) ==
    /\ m \in stray
    /\ stored' = stored \ {m}
    /\ stray' = stray \ {m}
    /\ UNCHANGED <<record, holds, media>>

\* An error, or no answer in time: the call may still be under way.
StorageFails(m) ==
    /\ Calling(m)
    /\ media' = [media EXCEPT ![m].call = "failed"]
    /\ stray' \in {stray, stray \cup {m}}
    /\ UNCHANGED <<record, holds, stored>>

RecordDeletion(m) ==
    /\ media[m] # None /\ media[m].call = "gone"
    /\ media' = [media EXCEPT ![m].deleted = TRUE, ![m].unknown = FALSE, ![m].leased = FALSE,
                              ![m].call = "none"]
    /\ UNCHANGED <<record, holds, stored, stray>>

RecordUnknown(m) ==
    /\ media[m] # None /\ media[m].call = "failed"
    /\ media' = [media EXCEPT ![m].unknown = TRUE, ![m].leased = FALSE, ![m].call = "none"]
    /\ UNCHANGED <<record, holds, stored, stray>>

\* The process stops; its lease stays until somebody claims the file again.
MediaCrash(m) ==
    /\ media[m] # None /\ media[m].call # "none"
    /\ media' = [media EXCEPT ![m].call = "none"]
    /\ stray' = IF media[m].call = "calling" THEN stray \cup {m} ELSE stray
    /\ UNCHANGED <<record, holds, stored>>

-----------------------------------------------------------------------------
(* Legal holds. *)

\* Mutant of Preservable: only what is already deleted refuses a hold.
PreservableUntilDeleted(r) == \A m \in Scope(r) : ~media[m].deleted

\* No file of r may be on its way out of the storage.
Preservable(r) ==
    /\ ~record[r].claimed
    /\ \A m \in Scope(r) : ~media[m].leased /\ ~media[m].unknown /\ ~media[m].deleted

RequestPlacement(s, r) ==
    /\ Open(r) /\ Preservable(r)
    /\ ~Barrier(r)
    /\ placement' = [placement EXCEPT ![r] = s]
    /\ record' = [record EXCEPT ![r].leased = FALSE]
    /\ kept' = [kept EXCEPT ![r] = [content |-> record[r].content, media |-> Scope(r) \cap stored]]
    /\ UNCHANGED <<hold, release, files>>

ApprovePlacement(s, r) ==
    /\ placement[r] \notin {None, s}
    /\ Open(r) /\ Preservable(r) /\ ~hold[r]
    /\ placement' = [placement EXCEPT ![r] = None]
    /\ hold' = [hold EXCEPT ![r] = TRUE]
    /\ UNCHANGED <<record, release, kept, files>>

RejectPlacement(s, r) ==
    /\ placement[r] \notin {None, s}
    /\ placement' = [placement EXCEPT ![r] = None]
    /\ record' = [record EXCEPT ![r].leased = FALSE]
    /\ UNCHANGED <<hold, release, kept, files>>

RequestRelease(s, r) ==
    /\ hold[r] /\ release[r] = None
    /\ Open(r)
    /\ release' = [release EXCEPT ![r] = s]
    /\ UNCHANGED <<record, placement, hold, kept, files>>

ApproveRelease(s, r) ==
    /\ hold[r] /\ release[r] \notin {None, s}
    /\ release' = [release EXCEPT ![r] = None]
    /\ hold' = [hold EXCEPT ![r] = FALSE]
    /\ record' = [record EXCEPT ![r].leased = FALSE]
    /\ UNCHANGED <<placement, kept, files>>

RejectRelease(s, r) ==
    /\ release[r] \notin {None, s}
    /\ release' = [release EXCEPT ![r] = None]
    /\ UNCHANGED <<record, placement, hold, kept, files>>

RetentionSteps ==
    \/ \E r \in Records :
         \/ Elapse(r) \/ ClaimRecord(r) \/ LoseRecord(r)
         \/ ScheduleMedia(r) \/ WaitForStorage(r) \/ DropMedia(r)
         \/ EraseContent(r) \/ VerifyExpired(r)
         \/ \E s \in Admins : \/ RequestPlacement(s, r) \/ ApprovePlacement(s, r) \/ RejectPlacement(s, r)
                              \/ RequestRelease(s, r) \/ ApproveRelease(s, r) \/ RejectRelease(s, r)
    \/ \E m \in Media :
         \/ ClaimMedia(m) \/ StorageDeletes(m) \/ StorageDeletesLate(m) \/ StorageFails(m)
         \/ RecordDeletion(m) \/ RecordUnknown(m) \/ MediaCrash(m)

-----------------------------------------------------------------------------
\* From the request of a legal hold until it is refused or released, nothing
\* the record covers is erased and none of its files leaves the storage,
\* whatever calls were made before (requestPlacement, decideAction,
\* processClaimedRetentionRecord, claimDueStorageDeletes).
NothingErasedUnderHold ==
    \A r \in Records : Barrier(r) =>
        /\ record[r].content = kept[r].content
        /\ kept[r].media \cap Scope(r) \subseteq stored

\* No file is left at the storage without a row, for nobody would ever delete
\* it: also when calls failed, were repeated or had no known outcome
\* (drainSafetyMediaDependencies, processStorageDeleteClaim).
FilesGoWithRows == \A m \in stored : media[m] # None

=============================================================================
