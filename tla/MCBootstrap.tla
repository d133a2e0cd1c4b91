---------------------------- MODULE MCBootstrap ----------------------------
(* Two packages, in the order discovery found them. *)
EXTENDS Bootstrap

TwoPackages == <<"a", "b">>

=============================================================================
