------------------------------ MODULE FileAsset ------------------------------
(***************************************************************************)
(* The File context: one file asset, the chunked uploads of its contents   *)
(* and the versions made of them (src/file/service.ts).                    *)
(*                                                                         *)
(* A command is one step, as in Organization.  The owner is looked up when *)
(* the asset is created; digests only make the code refuse more.           *)
(***************************************************************************)
EXTENDS Integers, FiniteSets, Functions

CONSTANTS
  Upload, Version, Access,  \* ids of uploads and versions; principals with a permission
  Index,     \* numbers of chunks
  NoUpload,  \* the upload of a version that is not there
  MaxSize,   \* bound on the size an upload declares
  MaxEpoch   \* bound on the lifecycle epoch

FileAssumption ==
  /\ IsFiniteSet(Index) /\ MaxSize \in Nat /\ MaxEpoch \in Nat
  /\ NoUpload \notin Upload

\* A chunk of size 0 is one that has not been accepted; `openedIn` is
\* history, the lifecycle epoch in which the upload was started.
UploadState ==
  [status: {"ABSENT", "OPEN", "FINALIZED"}, expected: 0 .. MaxSize, chunkSize: 0 .. MaxSize,
   chunks: [Index -> 0 .. MaxSize], openedIn: 0 .. MaxEpoch]

VARIABLE file  \* the snapshot of FileAsset

TypeOK ==
  file \in [status: {"ABSENT", "DRAFT", "AVAILABLE", "QUARANTINED", "ARCHIVED"},
            lifecycleEpoch: 0 .. MaxEpoch + 1, uploads: [Upload -> UploadState],
            versions: [Version -> Upload \cup {NoUpload}], access: SUBSET Access]

NotStarted ==
  [status |-> "ABSENT", expected |-> 0, chunkSize |-> 0,
   chunks |-> [i \in Index |-> 0], openedIn |-> 0]

Init ==
  file = [status |-> "ABSENT", lifecycleEpoch |-> 0, uploads |-> [u \in Upload |-> NotStarted],
          versions |-> [v \in Version |-> NoUpload], access |-> {}]

-----------------------------------------------------------------------------

Loadable == file.status \notin {"ABSENT", "ARCHIVED"}

upload(u, status) == file.uploads[u].status = status

\* The bytes accepted so far.
accepted(u) == FoldFunction(LAMBDA size, sum : size + sum, 0, file.uploads[u].chunks)

CreateFileAsset ==
  /\ file.status = "ABSENT"
  /\ file' = [file EXCEPT !.status = "DRAFT"]

\* Defect: a quarantined asset takes new uploads.
StartUploadQuarantined(u, expected, chunkSize) ==
  /\ Loadable
  /\ upload(u, "ABSENT")
  /\ file' = [file EXCEPT !.uploads[u] =
       [NotStarted EXCEPT !.status = "OPEN", !.expected = expected, !.chunkSize = chunkSize,
                          !.openedIn = file.lifecycleEpoch]]

StartUpload(u, expected, chunkSize) ==
  /\ Loadable /\ file.status # "QUARANTINED"
  /\ upload(u, "ABSENT")
  /\ file' = [file EXCEPT !.uploads[u] =
       [NotStarted EXCEPT !.status = "OPEN", !.expected = expected, !.chunkSize = chunkSize,
                          !.openedIn = file.lifecycleEpoch]]

\* Chunks come in any order, each once; also while in quarantine.
AppendChunk(u, i, size) ==
  /\ Loadable /\ upload(u, "OPEN")
  /\ file.uploads[u].chunks[i] = 0
  /\ size <= file.uploads[u].chunkSize
  /\ accepted(u) + size <= file.uploads[u].expected
  /\ file' = [file EXCEPT !.uploads[u].chunks[i] = size]

\* The asset becomes available, whatever it was before.
FinalizeUpload(u) ==
  /\ Loadable /\ upload(u, "OPEN")
  /\ accepted(u) = file.uploads[u].expected
  /\ file' = [file EXCEPT !.uploads[u].status = "FINALIZED", !.status = "AVAILABLE"]

CreateVersion(v, u) ==
  /\ Loadable /\ upload(u, "FINALIZED")
  /\ file.versions[v] = NoUpload
  /\ file' = [file EXCEPT !.versions[v] = u]

GrantFileAccess(a) ==
  /\ Loadable /\ a \notin file.access
  /\ file' = [file EXCEPT !.access = @ \cup {a}]

RevokeFileAccess(a) ==
  /\ Loadable /\ a \in file.access
  /\ file' = [file EXCEPT !.access = @ \ {a}]

QuarantineFile ==
  /\ Loadable /\ file.status # "QUARANTINED"
  /\ file.lifecycleEpoch < MaxEpoch
  /\ file' = [file EXCEPT !.status = "QUARANTINED", !.lifecycleEpoch = @ + 1]

\* Defect: an archived asset is archived again.
ArchiveFileAgain ==
  /\ file.status # "ABSENT"
  /\ file' = [file EXCEPT !.status = "ARCHIVED", !.lifecycleEpoch = @ + 1]

ArchiveFile ==
  /\ Loadable
  /\ file' = [file EXCEPT !.status = "ARCHIVED", !.lifecycleEpoch = @ + 1]

Next ==
  \/ CreateFileAsset
  \/ \E u \in Upload :
       \/ \E expected \in 0 .. MaxSize, chunkSize \in 1 .. MaxSize : StartUpload(u, expected, chunkSize)
       \/ \E i \in Index, size \in 1 .. MaxSize : AppendChunk(u, i, size)
       \/ FinalizeUpload(u)
       \/ \E v \in Version : CreateVersion(v, u)
  \/ \E a \in Access : GrantFileAccess(a) \/ RevokeFileAccess(a)
  \/ QuarantineFile
  \/ ArchiveFile

-----------------------------------------------------------------------------
(* Properties *)

\* Contents are whole: chunks never exceed what the upload declared and fill
\* it exactly once it is final, versions are made of final uploads, and an
\* asset is available only with one.  A quarantine blocks new uploads: what
\* can still end it is an upload that was under way when it was imposed
\* (docs/file-context.md: "advances the lifecycle epoch and blocks new uploads").
UploadsComplete ==
  /\ \A u \in Upload :
       /\ accepted(u) <= file.uploads[u].expected
       /\ upload(u, "FINALIZED") => accepted(u) = file.uploads[u].expected
  /\ \A v \in Version : file.versions[v] # NoUpload => upload(file.versions[v], "FINALIZED")
  /\ file.status = "AVAILABLE" => \E u \in Upload : upload(u, "FINALIZED")
  /\ file.status = "QUARANTINED" =>
       \A u \in Upload : ~upload(u, "ABSENT") => file.uploads[u].openedIn < file.lifecycleEpoch
=============================================================================
