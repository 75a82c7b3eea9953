------------------------------ MODULE MCSignIn ------------------------------
(* Two requests at a time sign in to one account.  The lock is set by the    *)
(* second failure, so that a failure can be in flight when it is; the clock  *)
(* reaches past the longest lock and the refill of both buckets.             *)
EXTENDS SignIn
=============================================================================
