------------------------------- MODULE MCHost --------------------------------
EXTENDS Host, TLC

(* TCP, UDP and ICMP; whole packets (with DF or not), a first fragment and *)
(* others; headers without options, with some and with the most; two ports.*)
SomePackets ==
  [protocol : {1, 6, 17}, fragment : {0, 16384, 8192, 8193, 1, 8191}, ihl : {5, 6, 15}, port : {80, 6}]

(* All clients dial one server.                                            *)
OneServer == [c \in Clients |-> "10.0.0.1:80"] @@ [s \in Servers |-> "8080"]
=============================================================================
