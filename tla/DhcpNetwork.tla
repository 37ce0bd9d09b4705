---------------------------- MODULE DhcpNetwork ----------------------------
(***************************************************************************)
(* The wire between the DHCP clients and the server of spo/lab3: the       *)
(* packets the two programs build, the textual conversions an address goes *)
(* through on its way into a packet, and the UDP datagrams in flight.      *)
(*                                                                         *)
(* An address is its last octet: the pool is 172.18.0.<octet>, 0 stands    *)
(* for 0.0.0.0 and 255 for 255.255.255.255.                                *)
(***************************************************************************)
EXTENDS Integers

CONSTANTS
  Host,            \* machines on the segment; a reply goes to a host, port 68
  Mac,             \* hardware addresses generateMac() may draw
  Xid,             \* what the unseeded rand() returns in every client process
  IP_RANGE_START, IP_RANGE_END,   \* last octets of the pool's first and last address
  Reliable         \* TRUE: every datagram is received, once and in time

ASSUME PoolAssumption ==
  /\ IP_RANGE_START \in 1 .. 254
  /\ IP_RANGE_END \in IP_RANGE_START .. 254

ASSUME MacAssumption == Mac # {}

ASSUME ReliableAssumption == Reliable \in BOOLEAN

VARIABLES
  toServer,        \* datagrams in flight to port 67
  toClient         \* datagrams in flight to port 68 of some host

network == <<toServer, toClient>>

INADDR_ANY  == 0
INADDR_NONE == 255

\* The pool the server's constructor fills.
ipPool == IP_RANGE_START .. IP_RANGE_END

Address == ipPool \cup {INADDR_ANY, INADDR_NONE}

\* The empty std::string where an address is expected.
NoIp == -1

\* DhcpPacket::setIp goes through inet_addr, which answers INADDR_NONE for
\* a string that is no address, the empty one included.
InetAddr(ip) == IF ip = NoIp THEN INADDR_NONE ELSE ip

\* DhcpPacket::getIp is inet_ntoa(yiaddr): dotted text, whatever yiaddr is.
GetIp(packet) == packet.yiaddr

\* DhcpPacket::getMessageType: the value of option 53, and DISCOVER if there is
\* no magic cookie or no such option, as in a request of BOOTP.
NoType == "none"
GetMessageType(options) == IF options = NoType THEN "DISCOVER" ELSE options

\* `host' is the client's end of the exchange: the source of a request and
\* the destination of its reply, `type' what the server makes of the options.
Request == [host : Host, type : {"DISCOVER", "REQUEST", "OTHER"},
            xid : {Xid}, chaddr : Mac, yiaddr : Address]

\* `incarnation' is a history field: which run of the server program replied.
Reply == [host : Host, type : {"OFFER", "ACK"}, xid : {Xid}, chaddr : Mac,
          yiaddr : Address, incarnation : Nat]

\* What is left in flight once a datagram is received. A datagram of an
\* unreliable network is never used up: it may be received late, again or, if
\* nobody happens to receive it, never. That is loss, a sendto that failed and
\* was only logged, duplication and reordering in one.
AfterReceiving(packet, inFlight) ==
  IF Reliable THEN inFlight \ {packet} ELSE inFlight
=============================================================================
