---------------------------- MODULE MCDeployment ----------------------------
(* A database on a new machine, one from before the release that resets the  *)
(* categories, and one that is at the head; images with and without all files. *)
EXTENDS Deployment

Revisions == {0, 11, HeadRevision}

\* backend/data of the repository: the customs file of the entrypoint is not in it.
Repository == {"hs_codes", "international_shipping_rates"}

\* It is put there sooner or later.
AddedLater == {Repository, Files}

=============================================================================
