-------------------------- MODULE MCGcsEnrollment --------------------------
(* Small instances of GcsEnrollment for TLC. *)
EXTENDS GcsEnrollment, TLC

\* The keys of the tables for the indices that are enrolled.
MCRecords == {Root(d) : d \in Devices}
               \cup {Path(d, q) : d \in Devices, q \in EnrolledRange}

\* The two UAVs run the same program with the same configuration.
Swap == Permutations(Devices)
=============================================================================
