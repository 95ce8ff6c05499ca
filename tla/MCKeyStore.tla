----------------------------- MODULE MCKeyStore -----------------------------
(* Small instances of KeyStore for TLC. *)
EXTENDS KeyStore

=============================================================================
