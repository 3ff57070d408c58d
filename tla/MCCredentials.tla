---------------------------- MODULE MCCredentials ----------------------------
(* Instances of Credentials for TLC. *)
EXTENDS Credentials

CONSTANTS alice, bob

TwoAccounts == {alice, bob}
==============================================================================
