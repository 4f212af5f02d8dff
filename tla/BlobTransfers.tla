--------------------------- MODULE BlobTransfers ---------------------------
(***************************************************************************)
(* One call of the client that transfers a list of blobs: uploadBlobs() or *)
(* one of the forms of downloadBlobs().  The two are independent; together *)
(* they are what the rest of the library uses of the CAS.                  *)
(***************************************************************************)
EXTENDS UploadBlobs

CONSTANTS
    Lists, Modes,       \* of DownloadBlobs
    Digests, MaxLength  \* bound: the digests asked for, and how many

ASSUME DownloadAssumption ==
    /\ Modes \subseteq {"data", "directory", "outputs"}
    /\ Lists \subseteq Seq(Digests)
    /\ MaxLength \in Nat

\* Lists with the same digest twice included.
ListsOfDigests == UNION {[1 .. n -> Digests] : n \in 0 .. MaxLength}

VARIABLES
    op,  \* "upload" or "download"
    \* DownloadBlobs
    mode, request_list, ranges, rpc, range, next,
    batch_results, download_results, written, dest

D == INSTANCE DownloadBlobs WITH ends <- ranges, pc <- rpc, batch <- range, d <- next

downloadvars == <<mode, request_list, ranges, rpc, range, next,
                  batch_results, download_results, written, dest>>
blobvars == <<op, vars, downloadvars>>

BlobsTypeOK ==
    /\ op \in {"upload", "download"}
    /\ TypeOK
    /\ D!TypeOK

\* The call that is not made has one initial state.
NoUpload ==
    /\ throw_on_error = FALSE
    /\ source = [i \in Requests |-> "data"]
    /\ contents = [i \in Requests |-> "intact"]
    /\ ends = << >>

NoDownload ==
    /\ mode = CHOOSE m \in Modes : TRUE
    /\ request_list = << >>
    /\ ranges = << >>

BlobsInit ==
    /\ \/ op = "upload" /\ NoDownload
       \/ op = "download" /\ NoUpload
    /\ Init
    /\ D!Init

Upload ==
    /\ op = "upload"
    /\ Next
    /\ UNCHANGED <<op, downloadvars>>

Download ==
    /\ op = "download"
    /\ D!Next
    /\ UNCHANGED <<op, vars>>

BlobsNext == Upload \/ Download

BlobsSpec == BlobsInit /\ [][BlobsNext]_blobvars

(***************************************************************************)
(* Properties, with those of UploadBlobs.                                  *)
(***************************************************************************)
\* The map that downloadBlobs() returns has an entry for every digest, also
\* for those of a batch that broke off.
EveryDigestHasAStatus == D!EveryDigestHasAStatus

\* An entry that downloadBlobs() reports as OK has the blob, unless the digest
\* was asked for twice, and its statuses agree with its calls of write_blob().
OkMeansIntact == D!OkMeansIntact
=============================================================================
