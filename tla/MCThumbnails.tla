---------------------------- MODULE MCThumbnails ----------------------------
(* An instance of Thumbnails: an upload of up to two files, of which one   *)
(* is no video, and a create request that wants one of them.               *)
EXTENDS Thumbnails

CONSTANTS r1, f1, f2, u1
=============================================================================
