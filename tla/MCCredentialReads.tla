------------------------- MODULE MCCredentialReads -------------------------
(***************************************************************************)
(* Blobs of up to three bytes, positions up to two past the largest        *)
(* offset, buffers shorter and longer than the blob, and every seek that   *)
(* lands before the start, in the blob, past it and past u64.              *)
(***************************************************************************)
EXTENDS CredentialReads, SequencesExt

MCBlob == BoundedSeq(Byte, 3)
MCOffset == -6..6
=============================================================================
