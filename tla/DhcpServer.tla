----------------------------- MODULE DhcpServer -----------------------------
(***************************************************************************)
(* spo/lab3/server: the address pool (class IpPool) and the packet handler *)
(* of class DHCPServer. The server is one thread that receives a datagram, *)
(* handles it to the end and receives the next one, so a handler is one    *)
(* action. Nothing is persistent: a restarted server has an empty table.   *)
(***************************************************************************)
EXTENDS DhcpNetwork

CONSTANT MaxRestarts       \* bound on restarts of the server program

ASSUME RestartAssumption == MaxRestarts \in Nat

VARIABLES
  allocatedIps,    \* the table MAC -> address; NoIp where there is no entry
  incarnation      \* how often the server program has been restarted

server == <<allocatedIps, incarnation>>

ServerInit ==
  /\ allocatedIps = [mac \in Mac |-> NoIp]
  /\ incarnation = 0

\* Faulty variant: the pool's last address is left out.
IsIpInPoolShort(ip) == ip \in IP_RANGE_START .. IP_RANGE_END - 1

IsIpInPool(ip) == ip \in ipPool

\* Faulty variant: the table is not searched.
IsIpAvailableUnchecked(ip) == IsIpInPool(ip)

\* No entry of the table has the address.
IsIpAvailable(ip) ==
  /\ \A mac \in Mac : allocatedIps[mac] # ip
  /\ IsIpInPool(ip)

Available == {ip \in ipPool : IsIpAvailable(ip)}

\* Faulty variant: a known MAC is not looked up first.
AllocateIpAfresh(mac, ip) ==
  \/ /\ ip \in Available
     /\ \A other \in Available : ip <= other
     /\ allocatedIps' = [allocatedIps EXCEPT ![mac] = ip]
  \/ Available = {} /\ ip = NoIp /\ UNCHANGED allocatedIps

\* Faulty variant: an exhausted pool takes an address from another MAC.
AllocateIpEvicting(mac, ip) ==
  \/ /\ allocatedIps[mac] # NoIp
     /\ ip = allocatedIps[mac]
     /\ UNCHANGED allocatedIps
  \/ /\ allocatedIps[mac] = NoIp
     /\ \E other \in Mac :
          /\ ip = IF Available # {} THEN CHOOSE a \in Available : TRUE ELSE allocatedIps[other]
          /\ allocatedIps' = [m \in Mac |-> IF m = mac THEN ip
                                          ELSE IF allocatedIps[m] = ip THEN NoIp
                                          ELSE allocatedIps[m]]

\* allocateIp(mac) returns ip: the entry of a known MAC, else the first free
\* address of the pool, else the empty string.
AllocateIp(mac, ip) ==
  \/ /\ allocatedIps[mac] # NoIp
     /\ ip = allocatedIps[mac]
     /\ UNCHANGED allocatedIps
  \/ /\ allocatedIps[mac] = NoIp
     /\ ip \in Available
     /\ \A other \in Available : ip <= other
     /\ allocatedIps' = [allocatedIps EXCEPT ![mac] = ip]
  \/ /\ allocatedIps[mac] = NoIp
     /\ Available = {}
     /\ ip = NoIp
     /\ UNCHANGED allocatedIps

\* Faulty variant: the table is not consulted.
ConfirmIpUnchecked(mac, ip) == IsIpInPool(ip)

ConfirmIp(mac, ip) ==
  /\ allocatedIps[mac] # NoIp
  /\ allocatedIps[mac] = ip
  /\ IsIpInPool(ip)

\* Faulty variant: an empty address is sent as it is.
RespondUnconverted(packet, type, ip) ==
  toClient' = toClient \cup
    {[host |-> packet.host, type |-> type, xid |-> packet.xid,
      chaddr |-> packet.chaddr, yiaddr |-> ip, incarnation |-> incarnation]}

\* To port 68 of the host the packet came from; a sendto that fails is logged,
\* and is a datagram that gets lost.
SendPacket(response) == toClient' = toClient \cup {response}

\* The response a handler builds, and the end of handlePacket: it is sent
\* unless its address prints as an empty string.
Respond(packet, type, ip) ==
  LET response == [host |-> packet.host, type |-> type, xid |-> packet.xid,
                   chaddr |-> packet.chaddr, yiaddr |-> InetAddr(ip),
                   incarnation |-> incarnation]
  IN  \/ GetIp(response) # NoIp /\ SendPacket(response)
      \/ GetIp(response) = NoIp /\ UNCHANGED toClient

HandleDiscover(packet) ==
  /\ packet.type = "DISCOVER"
  /\ \E ip \in ipPool \cup {NoIp} :
       /\ AllocateIp(packet.chaddr, ip)
       /\ Respond(packet, "OFFER", ip)

\* A request is only ever confirmed; one that is not in the pool or not in
\* the table is answered by an ACK whose address was cleared.
HandleRequest(packet) ==
  /\ packet.type = "REQUEST"
  /\ LET ip == GetIp(packet)
     IN  Respond(packet, "ACK",
                 IF IsIpInPool(ip) /\ ConfirmIp(packet.chaddr, ip) THEN ip ELSE NoIp)
  /\ UNCHANGED allocatedIps

\* A packet that does not deserialize, or of another type, is only logged.
IgnorePacket(packet) ==
  /\ packet.type \notin {"DISCOVER", "REQUEST"}
  /\ UNCHANGED <<allocatedIps, toClient>>

\* One turn of the loop in start().
ServerReceive(packet) ==
  /\ packet \in toServer
  /\ toServer' = AfterReceiving(packet, toServer)
  /\ HandleDiscover(packet) \/ HandleRequest(packet) \/ IgnorePacket(packet)
  /\ UNCHANGED incarnation

\* The server process dies and is started again: the constructor builds an
\* empty table.
ServerRestart ==
  /\ incarnation < MaxRestarts
  /\ incarnation' = incarnation + 1
  /\ allocatedIps' = [mac \in Mac |-> NoIp]
  /\ UNCHANGED network
=============================================================================
