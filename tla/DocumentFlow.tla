---------------------------- MODULE DocumentFlow ----------------------------
(***************************************************************************)
(* The handlers that write documents and uploaded versions: createDocument *)
(* and finalizeVersion of modules/documents/documents.service.ts, and      *)
(* archivePersonDocument of modules/people/people.service.ts.              *)
(***************************************************************************)
EXTENDS SignatureStore

\* The column version defaults to 1, before there is any version.
CreateDocument(w, d) ==
  /\ At(w, "idle")
  /\ d \notin DOMAIN documents
  /\ documents' = Put(documents, d, [version |-> 1, status |-> "DRAFT", archived |-> FALSE])
  /\ versions' = Put(versions, d, <<>>)
  /\ UNCHANGED <<signatureTables, job>>

-----------------------------------------------------------------------------
(* finalizeVersion: document, latest version, then a transaction. *)

StartUpload(w, d) ==
  /\ d \in DOMAIN documents
  /\ ~documents[d].archived
  /\ Cardinality(DOMAIN versions[d]) < VersionBound
  /\ Begin(w, [NoJob EXCEPT !.step = "latestUpload", !.document = d])
  /\ UNCHANGED <<documentTables, signatureTables>>

ReadLatestUpload(w) ==
  LET j == job[w] IN
  /\ At(w, "latestUpload")
  /\ Continue(w, [j EXCEPT !.step = "commitUpload", !.number = NextVersion(j.document)])
  /\ UNCHANGED <<documentTables, signatureTables>>

CommitUpload(w) ==
  LET j == job[w] IN
  /\ At(w, "commitUpload")
  /\ \/ VersionFree(j.document, j.number) /\ WriteVersion(j.document, j.number, Upload)
     \/ ~VersionFree(j.document, j.number) /\ UNCHANGED documentTables
  /\ Finish(w)
  /\ UNCHANGED signatureTables

-----------------------------------------------------------------------------
(* archivePersonDocument: the document with its count of signature         *)
(* requests, then the update. No code sets legalHold.                      *)

NoRequest(d) == \A r \in DOMAIN signatureRequests : signatureRequests[r].document # d

StartArchive(w, d) ==
  /\ d \in DOMAIN documents
  /\ ~documents[d].archived
  /\ NoRequest(d)
  /\ Begin(w, [NoJob EXCEPT !.step = "archive", !.document = d])
  /\ UNCHANGED <<documentTables, signatureTables>>

Archive(w) ==
  /\ At(w, "archive")
  /\ documents' = [documents EXCEPT ![job[w].document].status = "ARCHIVED",
                                    ![job[w].document].archived = TRUE]
  /\ Finish(w)
  /\ UNCHANGED <<versions, signatureTables>>

-----------------------------------------------------------------------------

DocumentStart(w) ==
  \E d \in Documents : CreateDocument(w, d) \/ StartUpload(w, d) \/ StartArchive(w, d)

DocumentContinue(w) == ReadLatestUpload(w) \/ CommitUpload(w) \/ Archive(w)
==============================================================================
