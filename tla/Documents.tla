----------------------------- MODULE Documents ------------------------------
(***************************************************************************)
(* Files kept with a DD254 form, a wiki post or a travel report: a blob in *)
(* storage and a row that holds its key.  The owner's id and the file name *)
(* make the key, so all files here share one key; only a DD254 gets its id *)
(* with the upload and so one file.  Uploads are numbered: blob is the one *)
(* whose content is stored under the key, 0 for none, files those that     *)
(* have a row.                                                             *)
(*                                                                         *)
(* A request may stop half way in the behaviours with "stop" in mix.       *)
(***************************************************************************)
EXTENDS Handlers

CONSTANT MaxFiles  \* bound on the uploads

ASSUME DocumentsAssumption == MaxFiles \in Nat \ {0}

VARIABLES blob, files, sent, owner

documentVars == <<blob, files, sent, owner>>

Owners == {"dd254", "wiki", "travel"}
Owner == CHOOSE o \in Owners : o \in mix

DocumentsOK ==
  /\ blob \in 0..sent /\ sent \in 0..MaxFiles
  /\ files \subseteq 1..sent
  /\ owner \in {"none", "there", "gone"}
  /\ files # {} => owner = "there"

DocumentsInit ==
  blob = 0 /\ files = {} /\ sent = 0 /\ owner = "none"

-----------------------------------------------------------------------------
(* A wiki post or travel report is there before its files are; for a DD254 *)
(* the owner is the tenant.                                                *)
CreateOwner ==
  /\ owner = "none"
  /\ owner' = "there"
  /\ UNCHANGED <<mix, req, blob, files, sent>>

UploadFile(r) ==
  /\ owner = "there"
  /\ Begin(r, [op |-> "upload", at |-> "scan", file |-> sent + 1])
  /\ sent' = sent + 1
  /\ UNCHANGED <<mix, blob, files, owner>>

UploadForm(r) == Owner = "dd254" /\ sent = 0 /\ UploadFile(r)
UploadToPost(r) == Owner = "wiki" /\ sent < MaxFiles /\ UploadFile(r)
UploadToReport(r) == Owner = "travel" /\ sent < MaxFiles /\ UploadFile(r)

(* Only the answer that the stream is clean lets it pass: the scanner may  *)
(* find something, fail or not be there.                                   *)
Scan(r) ==
  /\ At(r, "upload", "scan")
  /\ GoTo(r, "store") \/ Done(r)
  /\ UNCHANGED <<mix, blob, files, sent, owner>>

(* The blob is stored, or the storage refuses it.                          *)
StoreBlob(r) ==
  /\ At(r, "upload", "store")
  /\ \/ blob' = req[r].file /\ GoTo(r, "insert")
     \/ UNCHANGED blob /\ Done(r)
  /\ UNCHANGED <<mix, files, sent, owner>>

(* Mutant: the failed insert leaves the blob.                              *)
AfterFailureNothing == "none"

(* Travel uploads clean up nothing.                                        *)
AfterFailure == IF Owner = "travel" THEN "none" ELSE "clean"

Fail(r) == IF AfterFailure = "none" THEN Done(r) ELSE GoTo(r, AfterFailure)

(* The row refers to its owner.  Carried out or not, it may be reported as *)
(* failed.                                                                 *)
InsertFile(r) ==
  /\ At(r, "upload", "insert")
  /\ \/ /\ owner = "there" /\ files' = files \cup {req[r].file}
        /\ Done(r) \/ (Faults /\ Fail(r))
     \/ /\ owner = "gone" \/ Faults
        /\ Fail(r) /\ UNCHANGED files
  /\ UNCHANGED <<mix, blob, sent, owner>>

-----------------------------------------------------------------------------
(* Mutant: the blob first.                                                 *)
DeleteFileBlobFirst(r, f) ==
  /\ f \in files
  /\ Begin(r, [op |-> "discard", at |-> "clean", file |-> f])
  /\ blob' = 0
  /\ UNCHANGED <<mix, files, sent, owner>>

(* The row, then the blob under its key.                                   *)
DeleteFile(r, f) ==
  /\ f \in files
  /\ Begin(r, [op |-> "discard", at |-> "clean", file |-> f])
  /\ files' = files \ {f}
  /\ UNCHANGED <<mix, blob, sent, owner>>

AdminDeleteFile(r, f) == Owner = "wiki" /\ DeleteFile(r, f)
DeleteUpload(r, f) == Owner = "travel" /\ DeleteFile(r, f)

(* Whatever is stored under the key; an error is ignored or logged.        *)
RemoveBlob(r) ==
  /\ req[r].op \in {"upload", "discard"} /\ req[r].at = "clean"
  /\ blob' = 0 \/ (Faults /\ UNCHANGED blob)
  /\ Done(r)
  /\ UNCHANGED <<mix, files, sent, owner>>

(* wiki.AdminDelete: the rows go with the post, the blobs stay.            *)
DeletePost ==
  /\ Owner = "wiki" /\ owner = "there"
  /\ owner' = "gone"
  /\ files' = {}
  /\ UNCHANGED <<mix, req, blob, sent>>

DocumentsNext ==
  \/ \E r \in Requests :
       \/ UploadForm(r) \/ UploadToPost(r) \/ UploadToReport(r)
       \/ Scan(r) \/ StoreBlob(r) \/ InsertFile(r)
       \/ \E f \in files : AdminDeleteFile(r, f) \/ DeleteUpload(r, f)
       \/ RemoveBlob(r)
       \/ "stop" \in mix /\ Abandon(r) /\ UNCHANGED documentVars
  \/ CreateOwner \/ DeletePost

(* The files alone.                                                        *)
DocumentsSpec ==
  /\ HandlersInit /\ DocumentsInit
  /\ [][DocumentsNext]_<<mix, req, documentVars>>

-----------------------------------------------------------------------------
(* A row loses its content only to another file of the same name, stored   *)
(* or deleted (a DD254 has none), or to the clean-up after its own insert, *)
(* which was carried out but reported as failed (dd254/handler.go:242).    *)
ContentLostOnlyBy ==
  [][\A f \in files \cap files' :
       blob = f /\ blob' # f =>
         \E r \in Requests :
           /\ Moves(r)
           /\ IF req[r].file = f THEN At(r, "upload", "clean")
              ELSE Owner # "dd254"]_<<mix, req, documentVars>>

(* A blob no row refers to, with no request left to see to it.             *)
Orphan ==
  /\ blob # 0 /\ blob \notin files
  /\ \A r \in Requests : req[r] # Idle => req[r].file # blob

(* It is left by a deleted post, a request that stopped, a travel upload   *)
(* whose insert failed or a clean-up that failed.                          *)
OrphanLeftOnlyBy ==
  [][~Orphan /\ Orphan' =>
       \/ "stop" \in mix
       \/ owner = "there" /\ owner' = "gone"
       \/ \E r \in Requests :
            Moves(r) /\ req[r].at = (IF Owner = "travel" /\ req[r].op = "upload"
                                      THEN "insert" ELSE "clean")]_<<mix, req, documentVars>>
=============================================================================
