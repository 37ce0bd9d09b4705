-------------------------------- MODULE Dhcp --------------------------------
(***************************************************************************)
(* The DHCP laboratory (spo/lab3) as a system: client runs on several      *)
(* hosts, the server, the network between them and server restarts.        *)
(***************************************************************************)
EXTENDS DhcpServer, DhcpClient

CONSTANT Stranger          \* hosts with other programs that talk to port 67

ASSUME StrangerAssumption == Stranger \subseteq Host

vars == <<toServer, toClient, allocatedIps, incarnation, cpc, mac, clientAddr, granted>>

Init ==
  /\ toServer = {}
  /\ toClient = {}
  /\ ServerInit
  /\ ClientInit

\* Another program sends the server a datagram, from a hardware address that
\* may be anybody's: one of a type it does not serve (a DHCPRELEASE, say), or
\* one without a type. A stranger has one datagram or reply under way at a time.
Stray ==
  \E h \in Stranger :
    /\ \A packet \in toServer \cup toClient : packet.host # h
    /\ \E m \in Mac, options \in {NoType, "OTHER"} :
         toServer' = toServer \cup {[host |-> h, type |-> GetMessageType(options), xid |-> Xid,
                                     chaddr |-> m, yiaddr |-> INADDR_ANY]}
    /\ UNCHANGED <<toClient, server, client>>

ServerStep ==
  \/ \E packet \in toServer : ServerReceive(packet) /\ UNCHANGED client
  \/ ServerRestart /\ UNCHANGED client

ClientStep(c) ==
  /\ \/ Start(c)
     \/ BindFails(c)
     \/ \E packet \in toClient : HandleOffer(c, packet) \/ HandleAck(c, packet)
     \/ ReceiveFails(c)
  /\ UNCHANGED server

Next ==
  \/ ServerStep
  \/ \E c \in Client : ClientStep(c)
  \/ Stray

Spec == Init /\ [][Next]_vars

-----------------------------------------------------------------------------
(* Safety *)

\* One type invariant for the whole system. It also says that no packet ever
\* carries the empty address handlePacket tests for.
TypeOK ==
  /\ toServer \subseteq Request
  /\ toClient \subseteq Reply
  /\ allocatedIps \in [Mac -> ipPool \cup {NoIp}]
  /\ incarnation \in 0 .. MaxRestarts
  /\ cpc \in [Client -> ClientState]
  /\ mac \in [Client -> Mac]
  /\ clientAddr \in [Client -> Address]
  /\ granted \in [Client -> Nat]

\* Clients that ended with an address of the pool.
Holders == {c \in Client : cpc[c] = "bound" /\ clientAddr[c] \in ipPool}

\* Two machines never use one address on the word of the same run of the
\* server: allocateIp, confirmIp and the clients' checks together, whatever is
\* lost, duplicated, reordered or late on the network.
UniqueAddress ==
  \A c, d \in Holders :
    /\ granted[c] = granted[d]
    /\ clientAddr[c] = clientAddr[d]
    => mac[c] = mac[d]

\* Every address somebody was told of, by an OFFER or ACK still in flight or
\* by the ACK a client accepted: <<server run, MAC, address>>.
Claims ==
  {<<r.incarnation, r.chaddr, r.yiaddr>> : r \in {q \in toClient : q.yiaddr \in ipPool}}
  \cup {<<granted[c], mac[c], clientAddr[c]>> : c \in Holders}

\* What the running server told anybody, it still has in its table: a client
\* that asks again gets the same address, however late its packet is.
ClaimsBacked ==
  \A claim \in Claims :
    /\ claim[1] <= incarnation
    /\ claim[1] = incarnation => allocatedIps[claim[2]] = claim[3]

\* The pool has nothing for the MAC.
Refused(m) == allocatedIps[m] = NoIp /\ Available = {}

\* Until the server is restarted, a client that followed the protocol is
\* turned away (handleDiscover's or handleRequest's setIp("")) only for want
\* of addresses, and then the pool stays exhausted: no valid REQUEST is ever
\* answered with "Invalid REQUEST".
RefusalMeansExhausted ==
  incarnation = 0 =>
    \A c \in Client : cpc[c] = "bound" /\ clientAddr[c] \notin ipPool => Refused(mac[c])

-----------------------------------------------------------------------------
(* The inductive invariant of the proofs: what makes the three properties  *)
(* above survive every step.                                               *)

\* The table never has one address under two MACs.
Injective ==
  \A m, n \in Mac : allocatedIps[m] = allocatedIps[n] /\ allocatedIps[m] # NoIp => m = n

\* Within one run of the server, what was claimed pairs MACs and addresses.
ClaimsAgree ==
  \A x, y \in Claims : x[1] = y[1] => (x[2] = y[2] <=> x[3] = y[3])

\* Before the first restart a REQUEST asks for what the table has for its MAC,
\* and the packets without an address belong to MACs that were turned away.
RefusalsAgree ==
  incarnation = 0 =>
    /\ \A packet \in toServer : packet.type = "REQUEST" =>
         \/ packet.yiaddr \in ipPool /\ allocatedIps[packet.chaddr] = packet.yiaddr
         \/ packet.yiaddr \notin ipPool /\ Refused(packet.chaddr)
    /\ \A packet \in toClient : packet.yiaddr \notin ipPool => Refused(packet.chaddr)

\* Everything the proof carries from state to state.
IInv ==
  /\ TypeOK
  /\ Injective
  /\ ClaimsBacked
  /\ ClaimsAgree
  /\ RefusalsAgree
  /\ RefusalMeansExhausted

-----------------------------------------------------------------------------
(* The promise kept: the server and its clients implement a registry of    *)
(* leases that are never withdrawn.                                        *)

Held == {<<mac[c], clientAddr[c]>> : c \in {h \in Holders : granted[h] = incarnation}}

Registry == INSTANCE LeaseRegistry WITH
  Machine <- Mac, Pool <- ipPool, NoAddress <- NoIp, assigned <- allocatedIps, held <- Held

\* Every step assigns a free address to a MAC that has none, lets a client
\* take the address its MAC was assigned, forgets everything (a restart), or
\* is invisible: no packet, in any order, withdraws or reassigns an address.
ImplementsRegistry == Registry!Spec

-----------------------------------------------------------------------------
(* Liveness *)

\* The server is one loop over the socket's first-in first-out queue, so no
\* datagram that reaches it waits for ever, and on a reliable network all
\* do; recvfrom has a time-out at the client.
\* Nothing makes a user start a client or the network lose a packet.
Fairness ==
  /\ Reliable => \A packet \in Request : WF_vars(ServerReceive(packet) /\ UNCHANGED client)
  /\ \A c \in Client : WF_vars(Running(c) /\ ClientStep(c))

FairSpec == Spec /\ Fairness

\* Every client that was started ends, whatever the network does: each of its
\* two receives is answered or times out.
ClientTerminates == \A c \in Client : Running(c) ~> ~Running(c)

\* Without loss or restarts, and with a pool that has an address for every
\* MAC, a client that was started gets one: the exchange is not disturbed by
\* the others, by an earlier run on its host or by stray packets.
ClientIsServed == \A c \in Client : cpc[c] = "offer" ~> c \in Holders

-----------------------------------------------------------------------------
(* What the program's texts say of it, and the code keeps only as long as  *)
(* the pool suffices and the server lives                                  *)

\* server.cpp: "No response sent for MAC ... (no IP available)". An exhausted
\* pool, or a REQUEST that is refused, means that no reply is sent.
NoReplyWithoutAddress == \A packet \in toClient : packet.yiaddr \in ipPool

\* server.hpp: DEFAULT_LEASE_TIME, "24 hours in seconds", which every OFFER
\* and ACK carries. The model has no clock: everything it does fits into one
\* lease, so no two machines may ever hold the same address.
LeaseIsExclusive ==
  \A c, d \in Holders : clientAddr[c] = clientAddr[d] => mac[c] = mac[d]
=============================================================================
