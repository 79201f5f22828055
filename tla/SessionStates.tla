--------------------------- MODULE SessionStates ---------------------------
(***************************************************************************)
(* The states of a session record (models.py) and the groups the code      *)
(* tests for.  DRAINING is only ever given to the local copy of            *)
(* delete_instance and no row holds it; ABSENT stands for a missing row.   *)
(***************************************************************************)
Persisted == {"RESERVED", "STARTING", "PENDING_CAPACITY", "READY",
              "FAILED", "DELETED"}
States    == Persisted \union {"ABSENT"}

\* States from which instance_active goes on to create the session.
Startable  == {"RESERVED", "STARTING"}
\* States in which bootstrap_token answers.
Serving    == {"PENDING_CAPACITY", "READY"}
\* States whose record is restored with its reservations at start-up.
LiveStates == Startable \union Serving
\* States from which admit_build writes a new record, and in which
\* delete_instance and abort_build have nothing to do.
Admittable == {"ABSENT", "DELETED"}
=============================================================================
