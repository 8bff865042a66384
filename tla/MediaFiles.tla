----------------------------- MODULE MediaFiles -----------------------------
(***************************************************************************)
(* The media files of a workspace: a blob at the file store and a row that *)
(* names it.  A file is uploaded before its row is written and destroyed   *)
(* before its row is deleted; a user's avatar is replaced by uploading the *)
(* new one, linking it, and deleting the one that was read at first.       *)
(***************************************************************************)
EXTENDS Naturals

CONSTANTS Uploaders,  \* concurrent requests
          Files,      \* ids of files
          NoFile

ASSUME MediaFilesAssumption == NoFile \notin Files

VARIABLES
    blobs,     \* what the store has
    filed,     \* MediaFile rows
    avatar,    \* User.avatarId
    zpc,       \* where each request stands
    zfile,     \* the file it uploads or deletes
    zold,      \* the avatar it has read
    zwhy,      \* upload, avatar or delete
    spent,     \* history: ids that were used
    halved,    \* history: rows whose deletion stopped after the blob's
    dropped    \* history: files somebody asked to delete

fileVars == <<blobs, filed, avatar, zpc, zfile, zold, zwhy, spent, halved, dropped>>
zrequest == <<zfile, zold, zwhy>>
fhistory == <<spent, halved, dropped>>

MediaInit ==
    /\ blobs = {} /\ filed = {} /\ avatar = NoFile
    /\ zpc = [z \in Uploaders |-> "idle"]
    /\ zfile = [z \in Uploaders |-> NoFile]
    /\ zold = [z \in Uploaders |-> NoFile]
    /\ zwhy = [z \in Uploaders |-> "upload"]
    /\ spent = {} /\ halved = {} /\ dropped = {}

Pass(z, pc, file, old, why) ==
    /\ zpc' = [zpc EXCEPT ![z] = pc]
    /\ zfile' = [zfile EXCEPT ![z] = file]
    /\ zold' = [zold EXCEPT ![z] = old]
    /\ zwhy' = [zwhy EXCEPT ![z] = why]
Stop(z) == Pass(z, "idle", NoFile, NoFile, "upload")
On(z, pc) == zpc' = [zpc EXCEPT ![z] = pc] /\ UNCHANGED zrequest

-----------------------------------------------------------------------------
BeginUpload(z, why, old) ==
    /\ zpc[z] = "idle"
    /\ Pass(z, "store", NoFile, old, why)
    /\ UNCHANGED <<blobs, filed, avatar, fhistory>>

UploadFile(z) == BeginUpload(z, "upload", NoFile)
UploadAiGeneratedBuffer(z) == BeginUpload(z, "upload", NoFile)

(* The avatar to be replaced is read first.                                *)
UpdateUserAvatar(z) == BeginUpload(z, "avatar", avatar)

(* uploadMany: the uploads run side by side, and when one fails the answer *)
(* is an error while the others go on.                                     *)
UploadMany(batch) ==
    /\ \A z \in batch : zpc[z] = "idle"
    /\ zpc' = [z \in Uploaders |-> IF z \in batch THEN "store" ELSE zpc[z]]
    /\ UNCHANGED <<blobs, filed, avatar, zrequest, fhistory>>

StoreBlob(z) ==
    /\ zpc[z] = "store"
    /\ \E f \in Files \ spent :
          /\ blobs' = blobs \cup {f}
          /\ spent' = spent \cup {f}
          /\ Pass(z, "file", f, zold[z], zwhy[z])
    /\ UNCHANGED <<filed, avatar, halved, dropped>>

FileBlob(z) ==
    /\ zpc[z] = "file"
    /\ filed' = filed \cup {zfile[z]}
    /\ IF zwhy[z] = "avatar" THEN On(z, "link") ELSE Stop(z)
    /\ UNCHANGED <<blobs, avatar, fhistory>>

(* Variant for the mutation runs: the avatar to be cleaned up is read when *)
(* the new one is linked already.                                          *)
LinkAndRead(z) ==
    /\ zpc[z] = "link" /\ zfile[z] \in filed
    /\ avatar' = zfile[z]
    /\ IF zold[z] = NoFile THEN Stop(z)
       ELSE Pass(z, "destroy", zfile[z], NoFile, "avatar")
    /\ UNCHANGED <<blobs, filed, fhistory>>

(* The row may be gone again, and then the key refuses.                    *)
LinkAvatar(z) ==
    /\ zpc[z] = "link" /\ zfile[z] \in filed
    /\ avatar' = zfile[z]
    /\ IF zold[z] = NoFile THEN Stop(z)
       ELSE Pass(z, "destroy", zold[z], NoFile, "avatar")
    /\ UNCHANGED <<blobs, filed, fhistory>>

(* deleteFile: the row is read, the blob destroyed, the row deleted; the   *)
(* avatar is no longer the user's when its row goes.                       *)
BeginDelete(z, f) ==
    /\ zpc[z] = "idle" /\ f \in filed
    /\ dropped' = dropped \cup {f}
    /\ Pass(z, "destroy", f, NoFile, "delete")
    /\ UNCHANGED <<blobs, filed, avatar, spent, halved>>

DestroyBlob(z) ==
    /\ zpc[z] = "destroy" /\ zfile[z] \in filed
    /\ blobs' = blobs \ {zfile[z]}
    /\ On(z, "unfile")
    /\ UNCHANGED <<filed, avatar, fhistory>>

Unfile(z) ==
    /\ zpc[z] = "unfile"
    /\ filed' = filed \ {zfile[z]}
    /\ avatar' = IF avatar = zfile[z] THEN NoFile ELSE avatar
    /\ Stop(z)
    /\ UNCHANGED <<blobs, fhistory>>

(* A call to the store or the database fails, or the process dies.         *)
UploaderFails(z) ==
    /\ zpc[z] # "idle"
    /\ halved' = IF zpc[z] = "unfile" THEN halved \cup {zfile[z]} ELSE halved
    /\ Stop(z)
    /\ UNCHANGED <<blobs, filed, avatar, spent, dropped>>

UploaderSteps(z) ==
    \/ UploadFile(z) \/ UploadAiGeneratedBuffer(z) \/ UpdateUserAvatar(z)
    \/ StoreBlob(z) \/ FileBlob(z) \/ LinkAvatar(z)
    \/ \E f \in Files : BeginDelete(z, f)
    \/ DestroyBlob(z) \/ Unfile(z) \/ UploaderFails(z)

MediaNext ==
    \/ \E z \in Uploaders : UploaderSteps(z)
    \/ \E batch \in SUBSET Uploaders \ {{}} : UploadMany(batch)

MediaSpec == MediaInit /\ [][MediaNext]_fileVars

-----------------------------------------------------------------------------
(* A row names a blob, unless its deletion is between the two or stopped   *)
(* there.                                                                  *)
RowsHaveBlobs ==
    \A f \in filed : \/ f \in blobs \cup halved
                     \/ \E z \in Uploaders : zpc[z] = "unfile" /\ zfile[z] = f

(* The avatar can be shown, whoever else is replacing it, unless somebody  *)
(* asked to delete that very file.                                         *)
AvatarShown == avatar \in dropped \cup {NoFile} \/ avatar \in filed \cap blobs

FilesKept == RowsHaveBlobs /\ AvatarShown
==============================================================================
