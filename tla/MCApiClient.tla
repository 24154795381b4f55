---------------------------- MODULE MCApiClient ----------------------------
(* An instance of ApiClient with a version on each side of every threshold. *)
EXTENDS ApiClient

MCVersions == {35, 61, 62, 70}
=============================================================================
