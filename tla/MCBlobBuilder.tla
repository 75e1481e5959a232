--------------------------- MODULE MCBlobBuilder ---------------------------
(***************************************************************************)
(* Up to four calls, in any order and with a thread dying at any point:    *)
(* two credentials and two icons of one, two or four bytes, in a blob      *)
(* whose offsets are below four: icons fit, just fit, or have an offset or *)
(* a length that wraps.                                                    *)
(***************************************************************************)
EXTENDS BlobBuilder

MCIcon == {<< "a" >>, << "b", "a" >>, << "a", "b", "b", "a" >>}
=============================================================================
