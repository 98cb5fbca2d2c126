---------------------------- MODULE MCProviders ----------------------------
(* A small instance of Providers: two listeners, a list of two entries.      *)
EXTENDS Providers

TwoListeners == {"uvb", "price"}
=============================================================================
