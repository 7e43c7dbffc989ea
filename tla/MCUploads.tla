------------------------------ MODULE MCUploads ------------------------------
(* Instances of Uploads for TLC.                                             *)
EXTENDS Uploads, TLC

(* Uploads differ in nothing but what happens to them.                       *)
Alike == Permutations(Uploads)
=============================================================================
