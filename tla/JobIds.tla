------------------------------- MODULE JobIds -------------------------------
(* The job identifiers shared by the modules about stored jobs.  uuid4      *)
(* never draws one twice.                                                  *)

CONSTANT Jobs
=============================================================================
