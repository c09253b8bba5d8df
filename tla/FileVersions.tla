---------------------------- MODULE FileVersions ----------------------------
(***************************************************************************)
(* The versions of a file (domain/files.ts) and the nightly scan of their  *)
(* bytes (domain/storage-integrity.ts).  Bytes go to the object store      *)
(* under a fresh key, rows to the database afterwards, in a transaction    *)
(* that numbers the version and points the file at it; uploads overlap,    *)
(* and any of them may stop in between.  Checksums are the bytes.          *)
(* Permissions and metadata are left out.                                  *)
(***************************************************************************)
EXTENDS Naturals, FiniteSets

CONSTANTS
    Uploaders,  \* users with an upload under way
    Bodies,     \* what is uploaded
    MaxKeys,    \* bound on the uploads
    ScanLimit,  \* how many versions a scan looks at, the latest
    Absent      \* null, and no object

VARIABLES
    file,        \* the File row: its current version and key, whether archived
    fileVersion, \* FileVersion rows by number
    blob,        \* the object store
    issued,      \* the number of keys issued
    uploads,     \* the call of each uploader
    scan,        \* the scan under way, and its report
    damaged,     \* history: keys whose object the store lost or changed
    unreachable  \* history: the store failed to answer the scan

filevars == <<file, fileVersion, blob, issued, uploads, scan, damaged, unreachable>>

Keys == 1 .. MaxKeys

VersionNumbers == {n \in Keys : fileVersion[n] # Absent}

(* findFirst, by version, descending; 0 if there is none. *)
Last == IF VersionNumbers = {} THEN 0
        ELSE CHOOSE n \in VersionNumbers : \A k \in VersionNumbers : n >= k

Uploading(c, step) == uploads[c] # Absent /\ uploads[c].step = step

-----------------------------------------------------------------------------

(* newStorageKey, at the start of storeUploadedFile and addFileVersion.    *)
BeginUpload(c, first, body) ==
    /\ uploads[c] = Absent /\ issued < MaxKeys
    /\ issued' = issued + 1
    /\ uploads' = [uploads EXCEPT ![c] = [step |-> "put", first |-> first, body |-> body,
                                          key |-> issued + 1, number |-> 1]]
    /\ UNCHANGED <<file, fileVersion, blob, scan, damaged, unreachable>>

UploadFile(c, body) ==
    /\ file = Absent
    /\ \A d \in Uploaders : uploads[d] = Absent  \* another call makes another file
    /\ BeginUpload(c, TRUE, body)

AddFileVersion(c, body) ==
    /\ file # Absent /\ ~file.archived
    /\ BeginUpload(c, FALSE, body)

Put(c) ==
    /\ Uploading(c, "put")
    /\ blob' = [blob EXCEPT ![uploads[c].key] = uploads[c].body]
    /\ uploads' = [uploads EXCEPT ![c].step = IF uploads[c].first THEN "create" ELSE "number"]
    /\ UNCHANGED <<file, fileVersion, issued, scan, damaged, unreachable>>

(* The store refuses, or the process ends: with nothing, part or all of    *)
(* the bytes stored, which no row will name.                               *)
StopUpload(c) ==
    /\ uploads[c] # Absent
    /\ uploads' = [uploads EXCEPT ![c] = Absent]
    /\ UNCHANGED <<file, fileVersion, blob, issued, scan, damaged, unreachable>>

(* The transaction points the file at the version it creates. *)
CreateVersion(c, n, archived) ==
    /\ fileVersion' = [fileVersion EXCEPT ![n] = [key |-> uploads[c].key,
                                                 checksum |-> uploads[c].body]]
    /\ file' = [current |-> n, key |-> uploads[c].key, archived |-> archived]

CreateFile(c) ==
    /\ Uploading(c, "create")
    /\ CreateVersion(c, 1, FALSE)
    /\ uploads' = [uploads EXCEPT ![c] = Absent]
    /\ UNCHANGED <<blob, issued, scan, damaged, unreachable>>

(* Two transactions may read the same last version ... *)
NumberVersion(c) ==
    /\ Uploading(c, "number")
    /\ uploads' = [uploads EXCEPT ![c].step = "commit", ![c].number = Last + 1]
    /\ UNCHANGED <<file, fileVersion, blob, issued, scan, damaged, unreachable>>

(* Variant: ... and the second overwrites the first. *)
CommitVersionOver(c) ==
    /\ Uploading(c, "commit")
    /\ CreateVersion(c, uploads[c].number, file.archived)
    /\ uploads' = [uploads EXCEPT ![c] = Absent]
    /\ UNCHANGED <<blob, issued, scan, damaged, unreachable>>

(* ... and the unique key refuses the second. *)
CommitVersion(c) ==
    LET n == uploads[c].number IN
    /\ Uploading(c, "commit")
    /\ IF fileVersion[n] = Absent THEN CreateVersion(c, n, file.archived)
       ELSE UNCHANGED <<file, fileVersion>>
    /\ uploads' = [uploads EXCEPT ![c] = Absent]
    /\ UNCHANGED <<blob, issued, scan, damaged, unreachable>>

(* archiveFile and restoreFile; uploads that have begun go on. *)
SetArchived(archived) ==
    /\ file # Absent /\ file.archived # archived
    /\ file' = [file EXCEPT !.archived = archived]
    /\ UNCHANGED <<fileVersion, blob, issued, uploads, scan, damaged, unreachable>>

-----------------------------------------------------------------------------
(* runStorageIntegrityScan *)

StartScan ==
    /\ scan.step = "idle"
    /\ scan' = LET latest == {n \in VersionNumbers : n + ScanLimit > Last} IN
               [step |-> "scan", left |-> latest, missing |-> {}, mismatch |-> {},
                before |-> {n \in latest : fileVersion[n].key \in damaged}]
    /\ unreachable' = FALSE
    /\ UNCHANGED <<file, fileVersion, blob, issued, uploads, damaged>>

(* verifyVersion *)
VerifyVersion(n) ==
    LET v == fileVersion[n] IN
    /\ scan.step = "scan" /\ n \in scan.left
    /\ scan' = [scan EXCEPT
                  !.left = @ \ {n},
                  !.missing = IF blob[v.key] = Absent THEN @ \cup {n} ELSE @,
                  !.mismatch = IF blob[v.key] \notin {Absent, v.checksum} THEN @ \cup {n}
                                                                          ELSE @]
    /\ UNCHANGED <<file, fileVersion, blob, issued, uploads, damaged, unreachable>>

(* An answer that is not OK, like an error, counts as a missing object.    *)
VerifyFails(n) ==
    /\ scan.step = "scan" /\ n \in scan.left
    /\ scan' = [scan EXCEPT !.left = @ \ {n}, !.missing = @ \cup {n}]
    /\ unreachable' = TRUE
    /\ UNCHANGED <<file, fileVersion, blob, issued, uploads, damaged>>

EndScan ==
    /\ scan.step = "scan" /\ scan.left = {}
    /\ scan' = [scan EXCEPT !.step = "idle"]
    /\ UNCHANGED <<file, fileVersion, blob, issued, uploads, damaged, unreachable>>

(* The store loses an object, or some of its bits. *)
Damage(k, rest) ==
    /\ damaged = {} /\ blob[k] # Absent /\ rest # blob[k]
    /\ blob' = [blob EXCEPT ![k] = rest]
    /\ damaged' = damaged \cup {k}
    /\ UNCHANGED <<file, fileVersion, issued, uploads, scan, unreachable>>

-----------------------------------------------------------------------------

Init ==
    /\ file = Absent
    /\ fileVersion = [n \in Keys |-> Absent]
    /\ blob = [k \in Keys |-> Absent]
    /\ issued = 0
    /\ uploads = [c \in Uploaders |-> Absent]
    /\ scan = [step |-> "idle", left |-> {}, missing |-> {}, mismatch |-> {}, before |-> {}]
    /\ damaged = {}
    /\ unreachable = FALSE

Next ==
    \/ \E c \in Uploaders :
        \/ \E body \in Bodies : UploadFile(c, body) \/ AddFileVersion(c, body)
        \/ Put(c) \/ StopUpload(c) \/ CreateFile(c) \/ NumberVersion(c) \/ CommitVersion(c)
    \/ \E archived \in BOOLEAN : SetArchived(archived)
    \/ StartScan \/ EndScan
    \/ \E n \in VersionNumbers : VerifyVersion(n) \/ VerifyFails(n)
    \/ \E k \in Keys, rest \in Bodies \cup {Absent} : Damage(k, rest)

Spec == Init /\ [][Next]_filevars

-----------------------------------------------------------------------------

(* "append-only ... (server-numbered max+1)" (files.ts:176-178) *)
NumberedInOrder ==
    /\ VersionNumbers = 1 .. Last
    /\ file # Absent => file.current = Last /\ file.key = fileVersion[Last].key

BytesAreThere ==
    \A n \in VersionNumbers :
        /\ fileVersion[n].key \notin damaged =>
              blob[fileVersion[n].key] = fileVersion[n].checksum
        /\ \A k \in VersionNumbers \ {n} : fileVersion[k].key # fileVersion[n].key

Reported == scan.missing \cup scan.mismatch

ScanFindsDamage ==
    /\ ~unreachable => \A n \in Reported : fileVersion[n].key \in damaged
    /\ scan.before \subseteq Reported \cup scan.left

(* However uploads overlap and stop: the versions of a file are numbered   *)
(* without gaps, the file points at the newest, every version has its own  *)
(* object with the bytes it was created with; and a scan reports the       *)
(* damage done before it began to the versions it covers, and, unless the  *)
(* store fails to answer, only damage (domain/files.ts:137-212,            *)
(* domain/storage-integrity.ts:16-58).                                     *)
VersionsAreBacked == NumberedInOrder /\ BytesAreThere /\ ScanFindsDamage

=============================================================================
