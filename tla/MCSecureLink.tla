---------------------------- MODULE MCSecureLink ----------------------------
(***************************************************************************)
(* SecureLink on small instances.  The ephemeral keys are interchangeable. *)
(***************************************************************************)
EXTENDS SecureLink, TLC

SecretSymmetry == Permutations(Secrets)
=============================================================================
