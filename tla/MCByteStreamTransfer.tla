------------------------ MODULE MCByteStreamTransfer ------------------------
(* A blob of three bytes in chunks of two, so that a stream has at least two *)
(* messages.  The caller's data is the blob, or a file truncated, extended   *)
(* or overwritten since its digest was computed; the copies on the server    *)
(* are the blob, one with a wrong byte, one too short, one too long.         *)
EXTENDS ByteStreamTransfer

MCBlob == <<1, 2, 3>>
MCSourceData == {<<1, 2, 3>>, <<1, 2>>, <<1, 2, 3, 4, 5, 6>>, <<1, 9, 3>>}
MCCopies == {<<1, 2, 3>>, <<1, 9, 3>>, <<1, 2>>, <<1, 2, 3, 4>>}
MCOldFiles == {<< >>, <<7>>, <<7, 7, 7, 7>>}
=============================================================================
