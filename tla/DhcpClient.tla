----------------------------- MODULE DhcpClient -----------------------------
(***************************************************************************)
(* spo/lab3/client: one run of the client program. It binds port 68 of its *)
(* host, draws a MAC, broadcasts DISCOVER, waits for one datagram, sends   *)
(* REQUEST, waits for one datagram and exits. Every receive has a time-out *)
(* and no step is retried.                                                 *)
(***************************************************************************)
EXTENDS DhcpNetwork

CONSTANTS
  Client,          \* runs of the client program
  HostOf           \* the host each of them runs on

ASSUME HostOfAssumption == HostOf \in [Client -> Host]

VARIABLES
  cpc,             \* where each client is
  mac,             \* the MAC generateMac() will have drawn when it starts
  clientAddr,      \* sin_addr of the member clientAddr
  granted          \* history: the server incarnation whose ACK it accepted

client == <<cpc, mac, clientAddr, granted>>

\* "offer" and "ack" are the two receives, "bound" and "failed" the two ways
\* start() ends.
ClientState == {"new", "offer", "ack", "bound", "failed"}

Running(c) == cpc[c] \in {"offer", "ack"}

ClientInit ==
  /\ cpc = [c \in Client |-> "new"]
  /\ mac \in [Client -> Mac]
  /\ clientAddr = [c \in Client |-> INADDR_ANY]
  /\ granted = [c \in Client |-> 0]

PortTaken(c) == \E other \in Client : HostOf[other] = HostOf[c] /\ Running(other)

ClientPacket(c, type, yiaddr) ==
  [host |-> HostOf[c], type |-> type, xid |-> Xid, chaddr |-> mac[c], yiaddr |-> yiaddr]

\* The constructor succeeds and start() sends the DISCOVER.
Start(c) ==
  /\ cpc[c] = "new"
  /\ ~PortTaken(c)
  /\ toServer' = toServer \cup {ClientPacket(c, "DISCOVER", INADDR_ANY)}
  /\ cpc' = [cpc EXCEPT ![c] = "offer"]
  /\ UNCHANGED <<mac, clientAddr, granted, toClient>>

\* The constructor throws: another client holds port 68 of this host.
BindFails(c) ==
  /\ cpc[c] = "new"
  /\ PortTaken(c)
  /\ cpc' = [cpc EXCEPT ![c] = "failed"]
  /\ UNCHANGED <<mac, clientAddr, granted, network>>

\* receivePacket takes whatever reaches port 68 of the host.
Receive(c, packet) ==
  /\ packet \in toClient
  /\ packet.host = HostOf[c]
  /\ toClient' = AfterReceiving(packet, toClient)

Valid(c, packet, type) ==
  packet.type = type /\ packet.chaddr = mac[c] /\ packet.xid = Xid

\* Faulty variant: sendRequest without its setIp.
HandleOfferNoSetIp(c, packet) ==
  /\ cpc[c] = "offer"
  /\ Receive(c, packet)
  /\ Valid(c, packet, "OFFER")
  /\ toServer' = toServer \cup {ClientPacket(c, "REQUEST", INADDR_ANY)}
  /\ cpc' = [cpc EXCEPT ![c] = "ack"]
  /\ UNCHANGED <<mac, clientAddr, granted>>

\* handleOffer and, for a valid offer, sendRequest for the offered address.
HandleOffer(c, packet) ==
  /\ cpc[c] = "offer"
  /\ Receive(c, packet)
  /\ \/ /\ Valid(c, packet, "OFFER")
        /\ toServer' = toServer \cup {ClientPacket(c, "REQUEST", InetAddr(GetIp(packet)))}
        /\ cpc' = [cpc EXCEPT ![c] = "ack"]
     \/ /\ ~Valid(c, packet, "OFFER")
        /\ cpc' = [cpc EXCEPT ![c] = "failed"]
        /\ UNCHANGED toServer
  /\ UNCHANGED <<mac, clientAddr, granted>>

\* handleAck: a valid ACK's address becomes the client's, whatever it is.
HandleAck(c, packet) ==
  /\ cpc[c] = "ack"
  /\ Receive(c, packet)
  /\ \/ /\ Valid(c, packet, "ACK")
        /\ cpc' = [cpc EXCEPT ![c] = "bound"]
        /\ clientAddr' = [clientAddr EXCEPT ![c] = InetAddr(GetIp(packet))]
        /\ granted' = [granted EXCEPT ![c] = packet.incarnation]
     \/ /\ ~Valid(c, packet, "ACK")
        /\ cpc' = [cpc EXCEPT ![c] = "failed"]
        /\ UNCHANGED <<clientAddr, granted>>
  /\ UNCHANGED <<mac, toServer>>

\* Something on the way to or from the client's host is still in flight.
InFlight(c) == \E packet \in toServer \cup toClient : packet.host = HostOf[c]

\* Faulty variant: only the second receive has a time-out.
ReceiveFailsOnce(c) ==
  /\ cpc[c] = "ack"
  /\ cpc' = [cpc EXCEPT ![c] = "failed"]
  /\ UNCHANGED <<mac, clientAddr, granted, network>>

\* recvfrom returns an error: the 5 s time-out, or a signal.
ReceiveFails(c) ==
  /\ Running(c)
  /\ Reliable => ~InFlight(c)
  /\ cpc' = [cpc EXCEPT ![c] = "failed"]
  /\ UNCHANGED <<mac, clientAddr, granted, network>>
=============================================================================
