------------------------------- MODULE MCHost -------------------------------
(***************************************************************************)
(* Scripts for Host: the server's and the monitored server's provisioning, *)
(* repeated.                                                               *)
(***************************************************************************)
EXTENDS Host, TLC

MCPrograms ==
  [enable1 |-> <<"response">>, enable2 |-> <<"response">>, enable3 |-> <<"response">>,
   monitored1 |-> <<"suricata", "fim">>, monitored2 |-> <<"suricata", "fim">>]

MCCasts ==
  {{"harden1", "harden2", "harden3"}, {"harden1", "enable1"},
   {"enable1", "enable2", "enable3"}, {"monitored1", "monitored2"}}
=============================================================================
