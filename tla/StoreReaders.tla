---------------------------- MODULE StoreReaders ----------------------------
(* An auditor who verifies and a consumer who pages, at the same store. *)
EXTENDS Verification, Queries

RInit == VInit /\ PInit

RNext ==
    \/ VNext /\ UNCHANGED consumer
    \/ GetPage /\ UNCHANGED verifier

RSpec == RInit /\ [][RNext]_<<vars, verifier, consumer>>
=============================================================================
