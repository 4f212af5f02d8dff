------------------------- MODULE ByteStreamTransfer -------------------------
(***************************************************************************)
(* One blob, transferred by one call of the client through the ByteStream  *)
(* API: upload(string), upload(fd), fetchString() or download(fd).  The    *)
(* call makes one retrier, whose state the two directions share here.      *)
(* Whichever of the four it is, it implements AtomicTransfer.              *)
(***************************************************************************)
EXTENDS ByteStreamUpload

CONSTANTS Copies, OldFiles  \* of ByteStreamDownload

ASSUME TransferAssumption ==
    /\ Blob \in Copies
    /\ Copies \subseteq Seq(Int)
    /\ << >> \in OldFiles
    /\ OldFiles \subseteq Seq(Int)

VARIABLES
    op,   \* the direction: "upload" or "download"
    rpc,  \* where the lambda of a download is
    \* ByteStreamDownload
    dest, stream, honest, downloaded_data, result, file, bytesDownloaded, digestContext

D == INSTANCE ByteStreamDownload WITH lpc <- rpc

uploadvars == <<source, data, fdpos, lpc, offset, sent, finished, inflight, stored>>
downloadvars == <<rpc, dest, stream, honest, downloaded_data, result, file,
                  bytesDownloaded, digestContext>>
transfervars == <<op, rvars, uploadvars, downloadvars>>

TransferTypeOK ==
    /\ op \in {"upload", "download"}
    /\ TypeOK
    /\ D!TypeOK

\* The direction that is not called has one initial state.
NoUpload == source = "string" /\ data = Blob /\ fdpos = 0 /\ stored = FALSE
NoDownload == dest = "string" /\ file = << >>

TransferInit ==
    /\ \/ op = "upload" /\ NoDownload
       \/ op = "download" /\ NoUpload
    /\ Init
    /\ D!Init

UploadClient ==
    /\ op = "upload"
    /\ Client
    /\ UNCHANGED <<op, downloadvars>>

Server ==
    /\ op = "upload"
    /\ ServerCommits
    /\ UNCHANGED <<op, downloadvars>>

DownloadClient ==
    /\ op = "download"
    /\ D!Next
    /\ UNCHANGED <<op, uploadvars>>

TransferNext == UploadClient \/ Server \/ DownloadClient

\* The client's thread runs on; every stream that it reads gives data or ends.
\* The server owes nothing else.
TransferSpec ==
    /\ TransferInit
    /\ [][TransferNext]_transfervars
    /\ WF_transfervars(UploadClient)
    /\ WF_transfervars(DownloadClient)

(***************************************************************************)
(* Properties.                                                             *)
(***************************************************************************)
A == INSTANCE AtomicTransfer
       WITH delivered <- (IF op = "upload" THEN stored ELSE D!Delivered),
            outcome <- (IF op = "upload" THEN Outcome ELSE D!Outcome)

\* Every call of upload(), fetchString() or download() ends, and without an
\* exception only if the server, the string or the file has exactly the blob:
\* broken and retried streams, resumed downloads, damaged copies and files
\* that changed since they were hashed included.
TransferIsAtomic == A!Spec

\* A resumed download neither skips nor repeats bytes (read_offset), and verifies
\* exactly what is in the file.
ResumeIsExact == D!ResumeIsExact
=============================================================================
