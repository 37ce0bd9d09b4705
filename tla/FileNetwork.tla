---------------------------- MODULE FileNetwork ----------------------------
(***************************************************************************)
(* The wire between the UDP file sender and receiver of spo/lab2: data     *)
(* packets one way, acknowledgements the other.                            *)
(*                                                                         *)
(* A transfer is one run of the client program. Its file is cut into       *)
(* Total[t] packets of up to 128 bytes; the bytes of a packet are          *)
(* represented by the transfer they come from. An endpoint is the address  *)
(* and port the receiver sees, under which it files what it receives.      *)
(***************************************************************************)
EXTENDS Integers

CONSTANTS
  Transfer,        \* runs of the client program
  Endpoint,        \* "address:port" keys
  EndpointOf,      \* the endpoint the operating system gave each run
  Total,           \* packets in each run's file; 0 for an empty file
  Timely           \* TRUE: nothing is lost, repeated or late on the network

ASSUME EndpointAssumption == EndpointOf \in [Transfer -> Endpoint]
ASSUME TotalAssumption == Total \in [Transfer -> Nat]
ASSUME TimelyAssumption == Timely \in BOOLEAN

VARIABLES
  toReceiver,      \* data packets in flight
  toSender         \* acknowledgements in flight

network == <<toReceiver, toSender>>

\* The packets of a transfer are numbered from 0.
Slots(t) == 0 .. Total[t] - 1

\* total_packets is Total[transfer], data_size is never 0 and the checksum is
\* that of the packet: a packet damaged on the way is dropped by the receiver,
\* and counts as one that never arrives.
Packet == UNION {[transfer : {t}, seq : Slots(t)] : t \in Transfer}

Ack == [to : Endpoint, seq : Nat]

\* What is left in flight once a datagram is received. Unless the network is
\* timely a datagram may be received late, any number of times or never.
AfterReceiving(message, inFlight) ==
  IF Timely THEN inFlight \ {message} ELSE inFlight
=============================================================================
