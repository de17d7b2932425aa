---------------------------- MODULE MCOnboarding ----------------------------
(* Onboarding for TLC: two join tasks at a time. *)
EXTENDS Onboarding
=============================================================================
