----------------------------- MODULE DhcpProofs -----------------------------
(***************************************************************************)
(* Proofs about Dhcp for every set of clients, hosts and MACs, every pool  *)
(* and every number of restarts, on a reliable and an unreliable network.  *)
(* The last sections are about how clients end: on a network that loses    *)
(* nothing, with a pool that suffices, every client that ends has been     *)
(* served; on any network a client receives twice at most.                 *)
(***************************************************************************)
EXTENDS Dhcp, FiniteSetTheorems, TLAPS

\* The three special addresses are outside the pool.
LEMMA PoolFacts ==
  /\ NoIp \notin ipPool
  /\ INADDR_NONE \notin ipPool
  /\ INADDR_ANY \notin ipPool
  /\ NoIp \notin Address
  /\ ipPool \subseteq Address
  /\ ipPool \subseteq Int
BY PoolAssumption DEF NoIp, INADDR_NONE, INADDR_ANY, ipPool, Address

\* What setIp makes of an address or of the empty string.
LEMMA InetAddrFacts ==
  ASSUME NEW ip \in Address \cup {NoIp}
  PROVE  /\ InetAddr(ip) \in Address
         /\ ip \in Address => InetAddr(ip) = ip
         /\ InetAddr(ip) \in ipPool <=> ip \in ipPool
BY PoolFacts DEF InetAddr, Address

\* The emptiness test of handlePacket never holds: the reply is always sent.
LEMMA RespondEffect ==
  ASSUME NEW packet \in Request, NEW type \in {"OFFER", "ACK"},
         NEW ip \in ipPool \cup {NoIp}, incarnation \in Nat, Respond(packet, type, ip)
  PROVE  \E reply \in Reply :
           /\ toClient' = toClient \cup {reply}
           /\ reply.host = packet.host /\ reply.type = type
           /\ reply.xid = Xid /\ reply.chaddr = packet.chaddr
           /\ reply.incarnation = incarnation
           /\ reply.yiaddr = InetAddr(ip)
<1> DEFINE reply == [host |-> packet.host, type |-> type, xid |-> packet.xid,
                     chaddr |-> packet.chaddr, yiaddr |-> InetAddr(ip),
                     incarnation |-> incarnation]
<1>1. InetAddr(ip) \in Address
  BY PoolFacts, InetAddrFacts
<1>2. reply \in Reply
  BY <1>1 DEF Request, Reply
<1>3. toClient' = toClient \cup {reply}
  BY <1>1, PoolFacts DEF Respond, SendPacket, GetIp
<1>4. packet.xid = Xid
  BY DEF Request
<1> QED
  BY <1>2, <1>3, <1>4

\* What a client puts on the wire is a request.
LEMMA ClientPacketType ==
  ASSUME TypeOK, NEW c \in Client, NEW type \in {"DISCOVER", "REQUEST"}, NEW ip \in Address
  PROVE  ClientPacket(c, type, ip) \in Request
BY HostOfAssumption DEF TypeOK, ClientPacket, Request

\* The table stays a table when an address is allocated.
LEMMA AllocateType ==
  ASSUME TypeOK, NEW m \in Mac, NEW ip \in ipPool \cup {NoIp}, AllocateIp(m, ip)
  PROVE  allocatedIps' \in [Mac -> ipPool \cup {NoIp}]
BY DEF TypeOK, AllocateIp

-----------------------------------------------------------------------------
(* Types *)

\* The initial state has its types.
LEMMA TypeInit == Init => TypeOK
BY RestartAssumption
DEF Init, ServerInit, ClientInit, TypeOK, ClientState, Address

\* The types survive handlePacket of any packet.
LEMMA TypeServerReceive ==
  ASSUME TypeOK, NEW packet \in toServer, ServerReceive(packet), UNCHANGED client
  PROVE  TypeOK'
<1>1. packet \in Request /\ packet.chaddr \in Mac /\ packet.yiaddr \in Address
  BY DEF TypeOK, Request
<1>2. toServer' \subseteq Request
  BY DEF TypeOK, ServerReceive, AfterReceiving
<1>3. incarnation' = incarnation /\ incarnation \in Nat
  BY RestartAssumption DEF TypeOK, ServerReceive
<1>4. CASE HandleDiscover(packet)
  <2>1. PICK ip \in ipPool \cup {NoIp} :
          AllocateIp(packet.chaddr, ip) /\ Respond(packet, "OFFER", ip)
    BY <1>4 DEF HandleDiscover
  <2>2. toClient' \subseteq Reply
    BY <2>1, <1>1, <1>3, RespondEffect DEF TypeOK
  <2>3. allocatedIps' \in [Mac -> ipPool \cup {NoIp}]
    BY <2>1, <1>1, AllocateType
  <2> QED
    BY <2>2, <2>3, <1>2, <1>3 DEF TypeOK, client
<1>5. CASE HandleRequest(packet)
  <2>1. PICK ip \in ipPool \cup {NoIp} : Respond(packet, "ACK", ip)
    BY <1>5 DEF HandleRequest, IsIpInPool
  <2>2. toClient' \subseteq Reply
    BY <2>1, <1>1, <1>3, RespondEffect DEF TypeOK
  <2> QED
    BY <2>2, <1>2, <1>3, <1>5 DEF TypeOK, client, HandleRequest
<1>6. CASE IgnorePacket(packet)
  BY <1>6, <1>2, <1>3 DEF TypeOK, client, IgnorePacket
<1> QED
  BY <1>4, <1>5, <1>6 DEF ServerReceive

\* ... a restart of the server,
LEMMA TypeServerRestart ==
  ASSUME TypeOK, ServerRestart, UNCHANGED client
  PROVE  TypeOK'
<1>1. incarnation' \in 0 .. MaxRestarts
  BY RestartAssumption DEF TypeOK, ServerRestart
<1>2. allocatedIps' \in [Mac -> ipPool \cup {NoIp}]
  BY DEF ServerRestart
<1> QED
  BY <1>1, <1>2 DEF TypeOK, ServerRestart, client, network

\* ... every step of a client,
LEMMA TypeClientStep ==
  ASSUME TypeOK, NEW c \in Client, ClientStep(c)
  PROVE  TypeOK'
<1> USE DEF TypeOK, server
<1>1. CASE Start(c)
  <2>1. ClientPacket(c, "DISCOVER", INADDR_ANY) \in Request
    BY ClientPacketType DEF Address
  <2> QED
    BY <1>1, <2>1 DEF Start, ClientStep, ClientState
<1>2. CASE BindFails(c)
  BY <1>2 DEF BindFails, ClientStep, ClientState, network
<1>3. ASSUME NEW packet \in toClient, HandleOffer(c, packet)
      PROVE  TypeOK'
  <2>1. InetAddr(GetIp(packet)) \in Address
    BY InetAddrFacts DEF Reply, GetIp
  <2>2. ClientPacket(c, "REQUEST", InetAddr(GetIp(packet))) \in Request
    BY <2>1, ClientPacketType
  <2>3. toServer' \subseteq Request
    BY <1>3, <2>2 DEF HandleOffer
  <2>4. toClient' \subseteq Reply
    BY <1>3 DEF HandleOffer, Receive, AfterReceiving
  <2> QED
    BY <1>3, <2>3, <2>4 DEF HandleOffer, ClientStep, ClientState
<1>4. ASSUME NEW packet \in toClient, HandleAck(c, packet)
      PROVE  TypeOK'
  <2>1. InetAddr(GetIp(packet)) \in Address /\ packet.incarnation \in Nat
    BY InetAddrFacts DEF Reply, GetIp
  <2>2. toClient' \subseteq Reply
    BY <1>4 DEF HandleAck, Receive, AfterReceiving
  <2> QED
    BY <1>4, <2>1, <2>2 DEF HandleAck, ClientStep, ClientState
<1>5. CASE ReceiveFails(c)
  BY <1>5 DEF ReceiveFails, ClientStep, ClientState, network
<1> QED
  BY <1>1, <1>2, <1>3, <1>4, <1>5 DEF ClientStep

\* ... and packets of other programs.
LEMMA TypeStray ==
  ASSUME TypeOK, Stray
  PROVE  TypeOK'
<1>1. toServer' \subseteq Request
  BY StrangerAssumption DEF TypeOK, Stray, Request, Address, GetMessageType, NoType
<1> QED
  BY <1>1 DEF TypeOK, Stray, server, client

\* No step of the system leaves the types.
LEMMA TypeNext == TypeOK /\ [Next]_vars => TypeOK'
<1> SUFFICES ASSUME TypeOK, [Next]_vars
             PROVE  TypeOK'
  OBVIOUS
<1>1. CASE UNCHANGED vars
  BY <1>1 DEF TypeOK, vars
<1>2. CASE Next
  BY <1>2, TypeServerReceive, TypeServerRestart, TypeClientStep, TypeStray
  DEF Next, ServerStep
<1> QED
  BY <1>1, <1>2

\* Every packet built and every variable stays within its type; in particular
\* no packet carries the empty address handlePacket looks for.
THEOREM TypeCorrect == Spec => []TypeOK
BY TypeInit, TypeNext, PTL DEF Spec

-----------------------------------------------------------------------------
(* The table *)

\* Entries are only ever added, each for an address nobody has; an exhausted
\* table does not change at all.
Extends(m) ==
  /\ allocatedIps' \in [Mac -> ipPool \cup {NoIp}]
  /\ \A n \in Mac : allocatedIps[n] # NoIp => allocatedIps'[n] = allocatedIps[n]
  /\ \A n \in Mac \ {m} : allocatedIps'[n] = allocatedIps[n]
  /\ allocatedIps[m] = NoIp /\ allocatedIps'[m] # NoIp => allocatedIps'[m] \in Available

\* The table has only grown, by what allocateIp gives; it gives nothing when it is full.
LEMMA AllocateEffect ==
  ASSUME TypeOK, NEW m \in Mac, NEW ip \in ipPool \cup {NoIp}, AllocateIp(m, ip)
  PROVE  /\ Extends(m)
         /\ ip # NoIp => allocatedIps'[m] = ip
         /\ ip = NoIp => Refused(m) /\ UNCHANGED allocatedIps
<1>1. allocatedIps' \in [Mac -> ipPool \cup {NoIp}]
  BY AllocateType
<1>2. Available \subseteq ipPool
  BY DEF Available
<1> QED
  BY <1>1, <1>2, PoolFacts DEF TypeOK, AllocateIp, Extends, Refused

\* A table that does not change extends itself.
LEMMA UnchangedExtends ==
  ASSUME TypeOK, NEW m \in Mac, UNCHANGED allocatedIps
  PROVE  Extends(m)
BY DEF TypeOK, Extends

\* Only a free address is given away: an injective table stays injective.
LEMMA InjectiveExtends ==
  ASSUME Injective, NEW m \in Mac, Extends(m)
  PROVE  Injective'
BY DEF Injective, Extends, Available, IsIpAvailable

\* A MAC that was turned away stays turned away.
LEMMA RefusedStable ==
  ASSUME TypeOK, NEW m \in Mac, Extends(m), NEW n \in Mac, Refused(n)
  PROVE  Refused(n)'
<1>1. \A ip \in ipPool : \E k \in Mac : allocatedIps[k] = ip
  BY DEF Refused, Available, IsIpAvailable, IsIpInPool
<1>2. \A k \in Mac : allocatedIps'[k] = allocatedIps[k]
  BY DEF Extends, Refused
<1>3. Available' = {}
  BY <1>1, <1>2 DEF Available, IsIpAvailable
<1> QED
  BY <1>2, <1>3 DEF Refused

-----------------------------------------------------------------------------
(* Claims *)

\* Every claim names a start of the server, a MAC and an address of the pool.
LEMMA ClaimType ==
  ASSUME TypeOK, NEW x \in Claims
  PROVE  x[1] \in Nat /\ x[2] \in Mac /\ x[3] \in ipPool
BY DEF TypeOK, Claims, Holders, Reply

\* A step of the running server or of a client makes no claim the table does
\* not back, so the claims stay backed and go on agreeing.
LEMMA ClaimsKept ==
  ASSUME TypeOK, TypeOK', ClaimsBacked, ClaimsAgree, Injective',
         incarnation' = incarnation,
         \A n \in Mac : allocatedIps[n] # NoIp => allocatedIps'[n] = allocatedIps[n],
         \A x \in Claims' : x \in Claims \/ (x[1] = incarnation /\ allocatedIps'[x[2]] = x[3])
  PROVE  ClaimsBacked' /\ ClaimsAgree'
<1>1. ASSUME NEW x \in Claims'
      PROVE  /\ x[1] \in Nat /\ x[2] \in Mac /\ x[3] \in ipPool
             /\ x[1] <= incarnation'
             /\ x[1] = incarnation => allocatedIps'[x[2]] = x[3]
  <2>1. x[1] \in Nat /\ x[2] \in Mac /\ x[3] \in ipPool
    BY DEF TypeOK, Claims, Holders, Reply
  <2> QED
    BY <2>1, PoolFacts DEF ClaimsBacked, TypeOK
<1>2. ClaimsBacked'
  BY <1>1 DEF ClaimsBacked
<1>3. ASSUME NEW x \in Claims', NEW y \in Claims', x[1] = y[1]
      PROVE  x[2] = y[2] <=> x[3] = y[3]
  <2>1. CASE x[1] = incarnation
    <3>1. /\ x[2] \in Mac /\ x[3] \in ipPool /\ allocatedIps'[x[2]] = x[3]
          /\ y[2] \in Mac /\ y[3] \in ipPool /\ allocatedIps'[y[2]] = y[3]
      BY <1>1, <1>3, <2>1
    <3>2. x[3] # NoIp
      BY <3>1, PoolFacts
    <3>3. x[3] = y[3] => x[2] = y[2]
      BY <3>1, <3>2 DEF Injective
    <3> QED
      BY <3>1, <3>3
  <2>2. CASE x[1] # incarnation
    BY <1>3, <2>2 DEF ClaimsAgree
  <2> QED
    BY <2>1, <2>2
<1> QED
  BY <1>2, <1>3 DEF ClaimsAgree

-----------------------------------------------------------------------------
(* The inductive invariant *)

\* Before the first step there are no claims and the table is empty.
LEMMA InvInit == Init => IInv
<1> SUFFICES ASSUME Init
             PROVE  IInv
  OBVIOUS
<1>1. Claims = {}
  BY DEF Init, ClientInit, Claims, Holders
<1> QED
  BY <1>1, TypeInit
  DEF IInv, Init, ServerInit, ClientInit, Injective, ClaimsBacked, ClaimsAgree,
      RefusalsAgree, RefusalMeansExhausted

\* What one turn of the server's loop does to the table and to the replies in
\* flight.
LEMMA ServerReceiveEffect ==
  ASSUME IInv, NEW packet \in toServer, ServerReceive(packet)
  PROVE  /\ packet.chaddr \in Mac
         /\ Extends(packet.chaddr)
         /\ \A r \in toClient' : r \in toClient \/
              /\ r.chaddr = packet.chaddr
              /\ r.incarnation = incarnation
              /\ r.yiaddr \in ipPool => allocatedIps'[packet.chaddr] = r.yiaddr
              /\ incarnation = 0 /\ r.yiaddr \notin ipPool => Refused(packet.chaddr)
<1>1. packet \in Request /\ packet.chaddr \in Mac /\ packet.yiaddr \in Address
  BY DEF IInv, TypeOK, Request
<1>2. incarnation \in Nat /\ TypeOK
  BY RestartAssumption DEF IInv, TypeOK
<1>3. CASE HandleDiscover(packet)
  <2>1. PICK ip \in ipPool \cup {NoIp} :
          AllocateIp(packet.chaddr, ip) /\ Respond(packet, "OFFER", ip)
    BY <1>3 DEF HandleDiscover
  <2>2. PICK reply \in Reply :
          /\ toClient' = toClient \cup {reply}
          /\ reply.chaddr = packet.chaddr
          /\ reply.incarnation = incarnation
          /\ reply.yiaddr = InetAddr(ip)
    BY <1>1, <1>2, <2>1, RespondEffect
  <2>3. /\ InetAddr(ip) \in ipPool => ip = InetAddr(ip) /\ ip # NoIp
        /\ InetAddr(ip) \notin ipPool => ip = NoIp
    BY InetAddrFacts, PoolFacts
  <2>4. /\ Extends(packet.chaddr)
        /\ ip # NoIp => allocatedIps'[packet.chaddr] = ip
        /\ ip = NoIp => Refused(packet.chaddr)
    BY <1>1, <1>2, <2>1, AllocateEffect
  <2> QED
    BY <1>1, <2>2, <2>3, <2>4
<1>4. CASE HandleRequest(packet)
  <2> DEFINE confirmed == packet.yiaddr \in ipPool /\ allocatedIps[packet.chaddr] = packet.yiaddr
             ip == IF confirmed THEN packet.yiaddr ELSE NoIp
  <2>1. IsIpInPool(GetIp(packet)) /\ ConfirmIp(packet.chaddr, GetIp(packet)) <=> confirmed
    BY PoolFacts DEF IsIpInPool, GetIp, ConfirmIp
  <2>2. ip \in ipPool \cup {NoIp} /\ Respond(packet, "ACK", ip)
    BY <1>4, <2>1 DEF HandleRequest, GetIp
  <2> HIDE DEF ip
  <2>3. PICK reply \in Reply :
          /\ toClient' = toClient \cup {reply}
          /\ reply.chaddr = packet.chaddr
          /\ reply.incarnation = incarnation
          /\ reply.yiaddr = InetAddr(ip)
    BY <1>1, <1>2, <2>2, RespondEffect
  <2>4. InetAddr(ip) \in ipPool => confirmed /\ packet.yiaddr = InetAddr(ip)
    BY <2>2, InetAddrFacts, PoolFacts DEF ip
  <2>5. InetAddr(ip) \notin ipPool => ~confirmed
    BY <2>2, InetAddrFacts, PoolFacts DEF ip
  <2>6. incarnation = 0 => confirmed \/ Refused(packet.chaddr)
    BY <1>4 DEF HandleRequest, IInv, RefusalsAgree
  <2>7. UNCHANGED allocatedIps
    BY <1>4 DEF HandleRequest
  <2>8. Extends(packet.chaddr)
    BY <1>1, <1>2, <2>7, UnchangedExtends
  <2> QED
    BY <1>1, <2>3, <2>4, <2>5, <2>6, <2>7, <2>8
<1>5. CASE IgnorePacket(packet)
  BY <1>1, <1>2, <1>5, UnchangedExtends DEF IgnorePacket
<1> QED
  BY <1>3, <1>4, <1>5 DEF ServerReceive

\* The invariant survives handlePacket of any packet.
LEMMA InvServerReceive ==
  ASSUME IInv, NEW packet \in toServer, ServerReceive(packet), UNCHANGED client
  PROVE  IInv'
<1> DEFINE m == packet.chaddr
<1>1. /\ m \in Mac
      /\ Extends(m)
      /\ \A r \in toClient' : r \in toClient \/
           /\ r.chaddr = m
           /\ r.incarnation = incarnation
           /\ r.yiaddr \in ipPool => allocatedIps'[m] = r.yiaddr
           /\ incarnation = 0 /\ r.yiaddr \notin ipPool => Refused(m)
  BY ServerReceiveEffect
<1>2. TypeOK /\ TypeOK'
  BY TypeServerReceive DEF IInv
<1> HIDE DEF m
<1>3. incarnation' = incarnation /\ toServer' \subseteq toServer
  BY DEF ServerReceive, AfterReceiving
<1>4. Injective'
  BY <1>1, InjectiveExtends DEF IInv
<1>5. \A x \in Claims' : x \in Claims \/ (x[1] = incarnation /\ allocatedIps'[x[2]] = x[3])
  BY <1>1 DEF Claims, Holders, client
<1>6. \A n \in Mac : allocatedIps[n] # NoIp => allocatedIps'[n] = allocatedIps[n]
  BY <1>1 DEF Extends
<1>7. ClaimsBacked' /\ ClaimsAgree'
  BY <1>2, <1>3, <1>4, <1>5, <1>6, ClaimsKept DEF IInv
<1>8. \A n \in Mac : Refused(n) => Refused(n)'
  BY <1>1, <1>2, RefusedStable
<1>9. RefusalsAgree'
  <2> SUFFICES ASSUME incarnation = 0
               PROVE  RefusalsAgree'
    BY <1>3 DEF RefusalsAgree
  <2>1. ASSUME NEW p \in toServer', p.type = "REQUEST"
        PROVE  \/ p.yiaddr \in ipPool /\ allocatedIps'[p.chaddr] = p.yiaddr
               \/ p.yiaddr \notin ipPool /\ Refused(p.chaddr)'
    <3>1. p \in toServer /\ p.chaddr \in Mac
      BY <1>2, <1>3 DEF TypeOK, Request
    <3> QED
      BY <2>1, <3>1, <1>6, <1>8, PoolFacts DEF IInv, RefusalsAgree
  <2>2. ASSUME NEW p \in toClient', p.yiaddr \notin ipPool
        PROVE  Refused(p.chaddr)'
    <3>1. p.chaddr \in Mac
      BY <1>2 DEF TypeOK, Reply
    <3> QED
      BY <2>2, <3>1, <1>1, <1>8 DEF IInv, RefusalsAgree
  <2> QED
    BY <2>1, <2>2 DEF RefusalsAgree
<1>10. RefusalMeansExhausted'
  BY <1>2, <1>3, <1>8 DEF IInv, RefusalMeansExhausted, TypeOK, client
<1> QED
  BY <1>2, <1>4, <1>7, <1>9, <1>10 DEF IInv

\* It survives a restart, which empties the table and starts a new incarnation.
LEMMA InvServerRestart ==
  ASSUME IInv, ServerRestart, UNCHANGED client
  PROVE  IInv'
<1>1. TypeOK /\ TypeOK'
  BY TypeServerRestart DEF IInv
<1>2. incarnation' = incarnation + 1 /\ incarnation \in Nat
  BY <1>1, RestartAssumption DEF TypeOK, ServerRestart
<1>3. Injective'
  BY DEF Injective, ServerRestart
<1>4. Claims' = Claims
  BY DEF ServerRestart, Claims, Holders, client, network
<1>5. ClaimsBacked'
  <2>1. \A x \in Claims : x[1] \in Nat /\ x[1] <= incarnation
    BY <1>1, ClaimType DEF IInv, ClaimsBacked
  <2> QED
    BY <1>2, <1>4, <2>1 DEF ClaimsBacked
<1>6. ClaimsAgree'
  BY <1>4 DEF IInv, ClaimsAgree
<1>7. RefusalsAgree' /\ RefusalMeansExhausted'
  BY <1>2 DEF RefusalsAgree, RefusalMeansExhausted
<1> QED
  BY <1>1, <1>3, <1>5, <1>6, <1>7 DEF IInv

\* A client step leaves the table alone, so what is left to show is that it
\* makes no new claim, and that what it sends and what it ends with agree with
\* the table when nothing was restarted.
LEMMA ClientKeeps ==
  ASSUME IInv, TypeOK', UNCHANGED server, \A x \in Claims' : x \in Claims,
         incarnation = 0 => \A p \in toServer' : p.type = "REQUEST" =>
           \/ p.yiaddr \in ipPool /\ allocatedIps[p.chaddr] = p.yiaddr
           \/ p.yiaddr \notin ipPool /\ Refused(p.chaddr),
         toClient' \subseteq toClient,
         incarnation = 0 =>
           \A c \in Client : cpc'[c] = "bound" /\ clientAddr'[c] \notin ipPool => Refused(mac'[c])
  PROVE  IInv'
<1>1. Injective'
  BY DEF IInv, Injective, server
<1>2. ClaimsBacked' /\ ClaimsAgree'
  <2>1. \A x \in Claims' : x \in Claims \/ (x[1] = incarnation /\ allocatedIps'[x[2]] = x[3])
    OBVIOUS
  <2> QED
    BY <1>1, <2>1, ClaimsKept DEF IInv, server
<1>3. \A n : Refused(n)' <=> Refused(n)
  BY DEF Refused, Available, IsIpAvailable, server
<1>4. RefusalsAgree'
  <2> SUFFICES ASSUME incarnation = 0
               PROVE  RefusalsAgree'
    BY DEF RefusalsAgree, server
  <2>1. \A p \in toClient' : p.yiaddr \notin ipPool => Refused(p.chaddr)'
    BY <1>3 DEF IInv, RefusalsAgree
  <2>2. \A p \in toServer' : p.type = "REQUEST" =>
          \/ p.yiaddr \in ipPool /\ allocatedIps'[p.chaddr] = p.yiaddr
          \/ p.yiaddr \notin ipPool /\ Refused(p.chaddr)'
    BY <1>3 DEF server
  <2> QED
    BY <2>1, <2>2 DEF RefusalsAgree
<1>5. RefusalMeansExhausted'
  BY <1>3 DEF RefusalMeansExhausted, server
<1> QED
  BY <1>1, <1>2, <1>4, <1>5 DEF IInv

\* What a client sends, other than a REQUEST, and a client that gives up
\* concern nobody.
LEMMA QuietClient ==
  ASSUME IInv, TypeOK', NEW c \in Client, UNCHANGED server, UNCHANGED <<mac, clientAddr, granted>>,
         NEW state \in ClientState \ {"bound"}, cpc' = [cpc EXCEPT ![c] = state],
         toClient' \subseteq toClient,
         \A p \in toServer' : p \in toServer \/ p.type # "REQUEST"
  PROVE  IInv'
<1>1. \A d \in Client : cpc'[d] = "bound" => cpc[d] = "bound"
  BY DEF IInv, TypeOK
<1>2. \A x \in Claims' : x \in Claims
  BY <1>1 DEF Claims, Holders
<1>3. incarnation = 0 => \A p \in toServer' : p.type = "REQUEST" =>
        \/ p.yiaddr \in ipPool /\ allocatedIps[p.chaddr] = p.yiaddr
        \/ p.yiaddr \notin ipPool /\ Refused(p.chaddr)
  BY DEF IInv, RefusalsAgree
<1>4. incarnation = 0 =>
        \A d \in Client : cpc'[d] = "bound" /\ clientAddr'[d] \notin ipPool => Refused(mac'[d])
  BY <1>1 DEF IInv, RefusalMeansExhausted
<1> QED
  BY <1>2, <1>3, <1>4, ClientKeeps

\* The client's steps: it takes an OFFER or gives up,
LEMMA InvHandleOffer ==
  ASSUME IInv, TypeOK', UNCHANGED server, NEW c \in Client,
         NEW packet \in toClient, HandleOffer(c, packet)
  PROVE  IInv'
<1>1. toClient' \subseteq toClient
  BY DEF HandleOffer, Receive, AfterReceiving
<1>2. CASE ~Valid(c, packet, "OFFER")
  BY <1>1, <1>2, QuietClient DEF HandleOffer, ClientState
<1>3. CASE Valid(c, packet, "OFFER")
  <2> DEFINE request == ClientPacket(c, "REQUEST", InetAddr(GetIp(packet)))
  <2>1. /\ packet.yiaddr \in Address
        /\ packet.incarnation \in Nat
        /\ packet.chaddr = mac[c]
    BY <1>3 DEF IInv, TypeOK, Reply, Valid
  <2>2. request.yiaddr = packet.yiaddr /\ request.chaddr = mac[c]
    BY <2>1, InetAddrFacts DEF ClientPacket, GetIp
  <2>3. toServer' = toServer \cup {request} /\ cpc' = [cpc EXCEPT ![c] = "ack"]
    BY <1>3 DEF HandleOffer
  <2> HIDE DEF request
  <2>4. incarnation = 0 =>
          \/ packet.yiaddr \in ipPool /\ allocatedIps[mac[c]] = packet.yiaddr
          \/ packet.yiaddr \notin ipPool /\ Refused(mac[c])
    <3> SUFFICES ASSUME incarnation = 0, packet.yiaddr \in ipPool
                 PROVE  allocatedIps[mac[c]] = packet.yiaddr
      BY <2>1 DEF IInv, RefusalsAgree
    <3>1. <<packet.incarnation, packet.chaddr, packet.yiaddr>> \in Claims
      BY DEF Claims
    <3> QED
      BY <2>1, <3>1 DEF IInv, ClaimsBacked
  <2>5. incarnation = 0 => \A p \in toServer' : p.type = "REQUEST" =>
          \/ p.yiaddr \in ipPool /\ allocatedIps[p.chaddr] = p.yiaddr
          \/ p.yiaddr \notin ipPool /\ Refused(p.chaddr)
    BY <2>2, <2>3, <2>4 DEF IInv, RefusalsAgree
  <2>6. \A d \in Client : cpc'[d] = "bound" => cpc[d] = "bound"
    BY <2>3 DEF IInv, TypeOK
  <2>7. \A x \in Claims' : x \in Claims
    BY <1>1, <2>6 DEF Claims, Holders, HandleOffer
  <2>8. incarnation = 0 =>
          \A d \in Client : cpc'[d] = "bound" /\ clientAddr'[d] \notin ipPool => Refused(mac'[d])
    BY <2>6 DEF IInv, RefusalMeansExhausted, HandleOffer
  <2> QED
    BY <1>1, <2>5, <2>7, <2>8, ClientKeeps
<1> QED
  BY <1>2, <1>3

\* ... it takes an ACK or gives up,
LEMMA InvHandleAck ==
  ASSUME IInv, TypeOK', UNCHANGED server, NEW c \in Client,
         NEW packet \in toClient, HandleAck(c, packet)
  PROVE  IInv'
<1>1. toClient' \subseteq toClient /\ toServer' = toServer
  BY DEF HandleAck, Receive, AfterReceiving
<1>2. CASE ~Valid(c, packet, "ACK")
  BY <1>1, <1>2, QuietClient DEF HandleAck, ClientState
<1>3. CASE Valid(c, packet, "ACK")
  <2>1. packet.yiaddr \in Address /\ packet.chaddr = mac[c]
    BY <1>3 DEF IInv, TypeOK, Reply, Valid
  <2>2. /\ cpc' = [cpc EXCEPT ![c] = "bound"]
        /\ clientAddr' = [clientAddr EXCEPT ![c] = packet.yiaddr]
        /\ granted' = [granted EXCEPT ![c] = packet.incarnation]
        /\ mac' = mac
    BY <1>3, <2>1, InetAddrFacts DEF HandleAck, GetIp
  <2>3. ASSUME NEW x \in Claims'
        PROVE  x \in Claims
    <3>1. CASE \E r \in toClient' : r.yiaddr \in ipPool /\ x = <<r.incarnation, r.chaddr, r.yiaddr>>
      BY <1>1, <3>1 DEF Claims
    <3>2. ASSUME NEW d \in Client, d \in Holders', x = <<granted'[d], mac'[d], clientAddr'[d]>>
          PROVE  x \in Claims
      <4>1. CASE d = c
        <5>1. x = <<packet.incarnation, packet.chaddr, packet.yiaddr>> /\ packet.yiaddr \in ipPool
          BY <2>1, <2>2, <3>2, <4>1 DEF Holders, IInv, TypeOK
        <5> QED
          BY <5>1 DEF Claims
      <4>2. CASE d # c
        BY <2>2, <3>2, <4>2 DEF Claims, Holders, IInv, TypeOK
      <4> QED
        BY <4>1, <4>2
    <3> QED
      BY <3>1, <3>2 DEF Claims, Holders
  <2>4. incarnation = 0 => \A p \in toServer' : p.type = "REQUEST" =>
          \/ p.yiaddr \in ipPool /\ allocatedIps[p.chaddr] = p.yiaddr
          \/ p.yiaddr \notin ipPool /\ Refused(p.chaddr)
    BY <1>1 DEF IInv, RefusalsAgree
  <2>5. incarnation = 0 =>
          \A d \in Client : cpc'[d] = "bound" /\ clientAddr'[d] \notin ipPool => Refused(mac'[d])
    BY <2>1, <2>2 DEF IInv, TypeOK, RefusalsAgree, RefusalMeansExhausted
  <2> QED
    BY <1>1, <2>3, <2>4, <2>5, ClientKeeps
<1> QED
  BY <1>2, <1>3

\* ... and all of them.
LEMMA InvClientStep ==
  ASSUME IInv, NEW c \in Client, ClientStep(c)
  PROVE  IInv'
<1>1. TypeOK' /\ UNCHANGED server
  BY TypeClientStep DEF IInv, ClientStep
<1>2. CASE Start(c)
  <2>1. \A p \in toServer' : p \in toServer \/ p.type # "REQUEST"
    BY <1>2 DEF Start, ClientPacket
  <2> QED
    BY <1>1, <1>2, <2>1, QuietClient DEF Start, ClientState
<1>3. CASE BindFails(c)
  BY <1>1, <1>3, QuietClient DEF BindFails, ClientState, network
<1>4. CASE ReceiveFails(c)
  BY <1>1, <1>4, QuietClient DEF ReceiveFails, ClientState, network
<1> QED
  BY <1>1, <1>2, <1>3, <1>4, InvHandleOffer, InvHandleAck DEF ClientStep

\* Packets of other programs claim nothing.
LEMMA InvStray ==
  ASSUME IInv, Stray
  PROVE  IInv'
<1>1. TypeOK' /\ UNCHANGED server /\ UNCHANGED client /\ UNCHANGED toClient
  BY TypeStray DEF IInv, Stray
<1>2. \A p \in toServer' : p \in toServer \/ p.type # "REQUEST"
  BY DEF Stray, GetMessageType, NoType
<1>3. \A x \in Claims' : x \in Claims
  BY <1>1 DEF Claims, Holders, client
<1>4. incarnation = 0 => \A p \in toServer' : p.type = "REQUEST" =>
        \/ p.yiaddr \in ipPool /\ allocatedIps[p.chaddr] = p.yiaddr
        \/ p.yiaddr \notin ipPool /\ Refused(p.chaddr)
  BY <1>2 DEF IInv, RefusalsAgree
<1>5. incarnation = 0 =>
        \A d \in Client : cpc'[d] = "bound" /\ clientAddr'[d] \notin ipPool => Refused(mac'[d])
  BY <1>1 DEF IInv, RefusalMeansExhausted, client
<1> QED
  BY <1>1, <1>3, <1>4, <1>5, ClientKeeps

\* Nothing happens.
LEMMA InvStutter ==
  ASSUME IInv, UNCHANGED vars
  PROVE  IInv'
BY DEF vars, IInv, TypeOK, Injective, ClaimsBacked, ClaimsAgree, Claims, Holders,
       RefusalsAgree, RefusalMeansExhausted, Refused, Available, IsIpAvailable

\* The invariant is inductive.
LEMMA InvNext == IInv /\ [Next]_vars => IInv'
BY InvServerReceive, InvServerRestart, InvClientStep, InvStray, InvStutter
DEF Next, ServerStep

\* The table, the packets in flight and the clients always agree.
THEOREM InvCorrect == Spec => []IInv
BY InvInit, InvNext, PTL DEF Spec

-----------------------------------------------------------------------------
(* The properties *)

\* No two machines ever use one address on the word of one run of the server,
\* whatever happens to the packets.
THEOREM UniqueAddressCorrect == Spec => []UniqueAddress
<1>1. IInv => UniqueAddress
  <2> SUFFICES ASSUME IInv, NEW c \in Holders, NEW d \in Holders,
                      granted[c] = granted[d], clientAddr[c] = clientAddr[d]
               PROVE  mac[c] = mac[d]
    BY DEF UniqueAddress
  <2> DEFINE x == <<granted[c], mac[c], clientAddr[c]>>
             y == <<granted[d], mac[d], clientAddr[d]>>
  <2>1. x \in Claims /\ y \in Claims
    BY DEF Claims
  <2>2. x[1] = y[1] => (x[2] = y[2] <=> x[3] = y[3])
    BY <2>1 DEF IInv, ClaimsAgree
  <2> QED
    BY <2>2
<1> QED
  BY <1>1, InvCorrect, PTL

\* What the running server told anybody is still in its table.
THEOREM ClaimsBackedCorrect == Spec => []ClaimsBacked
<1>1. IInv => ClaimsBacked
  BY DEF IInv
<1> QED
  BY <1>1, InvCorrect, PTL

\* Until the first restart, handleDiscover and handleRequest turn a client
\* away only when the pool is exhausted.
THEOREM RefusalCorrect == Spec => []RefusalMeansExhausted
<1>1. IInv => RefusalMeansExhausted
  BY DEF IInv
<1> QED
  BY <1>1, InvCorrect, PTL

-----------------------------------------------------------------------------
(* The refinement *)

\* The refinement: an initial state is an empty registry.
LEMMA RefineInit == Init => Registry!Init
BY DEF Init, ServerInit, ClientInit, Registry!Init, Registry!Empty, Held, Holders

\* A packet the server receives allocates an address or changes nothing.
LEMMA RefineServerReceive ==
  ASSUME IInv, NEW packet \in toServer, ServerReceive(packet), UNCHANGED client
  PROVE  Registry!Next \/ UNCHANGED Registry!registry
<1>1. Held' = Held
  BY DEF Held, Holders, ServerReceive, client
<1>2. packet.chaddr \in Mac /\ TypeOK
  BY DEF IInv, TypeOK, Request
<1>3. CASE HandleDiscover(packet)
  <2>1. PICK ip \in ipPool \cup {NoIp} : AllocateIp(packet.chaddr, ip)
    BY <1>3 DEF HandleDiscover
  <2>2. CASE UNCHANGED allocatedIps
    BY <1>1, <2>2 DEF Registry!registry
  <2>3. CASE /\ allocatedIps[packet.chaddr] = NoIp
             /\ ip \in Available
             /\ allocatedIps' = [allocatedIps EXCEPT ![packet.chaddr] = ip]
    <3>1. ip \in ipPool /\ \A other \in Mac : allocatedIps[other] # ip
      BY <2>3 DEF Available, IsIpAvailable
    <3>2. Registry!Assign(packet.chaddr, ip)
      BY <1>1, <2>3, <3>1 DEF Registry!Assign
    <3> QED
      BY <1>2, <3>1, <3>2 DEF Registry!Next
  <2> QED
    BY <2>1, <2>2, <2>3 DEF AllocateIp
<1>4. CASE HandleRequest(packet) \/ IgnorePacket(packet)
  BY <1>1, <1>4 DEF HandleRequest, IgnorePacket, Registry!registry
<1> QED
  BY <1>3, <1>4 DEF ServerReceive

\* A restart of the server forgets the registry.
LEMMA RefineServerRestart ==
  ASSUME IInv, ServerRestart, UNCHANGED client
  PROVE  Registry!Next
<1>1. \A h \in Holders : granted[h] \in Nat /\ granted[h] <= incarnation
  <2> SUFFICES ASSUME NEW h \in Holders
               PROVE  granted[h] \in Nat /\ granted[h] <= incarnation
    OBVIOUS
  <2>1. <<granted[h], mac[h], clientAddr[h]>> \in Claims
    BY DEF Claims
  <2> QED
    BY <2>1 DEF IInv, ClaimsBacked, TypeOK, Holders
<1>2. Holders' = Holders /\ granted' = granted
  BY DEF Holders, client
<1>3. incarnation' = incarnation + 1 /\ incarnation \in Nat
  BY RestartAssumption DEF IInv, TypeOK, ServerRestart
<1>4. Held' = {}
  BY <1>1, <1>2, <1>3 DEF Held
<1>5. Registry!Forget
  BY <1>4 DEF Registry!Forget, Registry!Empty, ServerRestart
<1> QED
  BY <1>5 DEF Registry!Next

\* A client that does not end with an address leaves the registry alone.
LEMMA RefineQuietClient ==
  ASSUME IInv, UNCHANGED server, NEW c \in Client, cpc[c] # "bound",
         UNCHANGED <<mac, clientAddr, granted>>,
         NEW state \in ClientState \ {"bound"}, cpc' = [cpc EXCEPT ![c] = state]
  PROVE  UNCHANGED Registry!registry
<1>1. \A d \in Client : cpc'[d] = "bound" <=> cpc[d] = "bound"
  BY DEF IInv, TypeOK
<1>2. Held' = Held
  BY <1>1 DEF Held, Holders, server
<1> QED
  BY <1>2 DEF Registry!registry, server

\* An ACK taken is a lease of an address that is in the table.
LEMMA RefineHandleAck ==
  ASSUME IInv, UNCHANGED server, NEW c \in Client, NEW packet \in toClient, HandleAck(c, packet)
  PROVE  Registry!Next \/ UNCHANGED Registry!registry
<1>1. CASE ~Valid(c, packet, "ACK")
  BY <1>1, RefineQuietClient DEF HandleAck, ClientState
<1>2. CASE Valid(c, packet, "ACK")
  <2> DEFINE lease == <<mac[c], packet.yiaddr>>
             current == packet.yiaddr \in ipPool /\ packet.incarnation = incarnation
  <2>1. packet.yiaddr \in Address /\ packet.chaddr = mac[c] /\ mac[c] \in Mac
    BY <1>2 DEF IInv, TypeOK, Reply, Valid
  <2>2. /\ cpc[c] = "ack"
        /\ cpc' = [cpc EXCEPT ![c] = "bound"]
        /\ clientAddr' = [clientAddr EXCEPT ![c] = packet.yiaddr]
        /\ granted' = [granted EXCEPT ![c] = packet.incarnation]
        /\ mac' = mac
    BY <1>2, <2>1, InetAddrFacts DEF HandleAck, GetIp
  <2>3. Held' = Held \cup (IF current THEN {lease} ELSE {})
    <3>1. \A d \in Client \ {c} :
            /\ d \in Holders' <=> d \in Holders
            /\ granted'[d] = granted[d] /\ mac'[d] = mac[d] /\ clientAddr'[d] = clientAddr[d]
      BY <2>2 DEF Holders, IInv, TypeOK
    <3>2. c \notin Holders /\ (c \in Holders' <=> packet.yiaddr \in ipPool)
      BY <2>2 DEF Holders, IInv, TypeOK
    <3>3. granted'[c] = packet.incarnation /\ mac'[c] = mac[c] /\ clientAddr'[c] = packet.yiaddr
      BY <2>2 DEF IInv, TypeOK
    <3>4. Holders \subseteq Client /\ Holders' \subseteq Client /\ incarnation' = incarnation
      BY DEF Holders, server
    <3> QED
      BY <3>1, <3>2, <3>3, <3>4 DEF Held
  <2>4. CASE current
    <3>1. <<packet.incarnation, packet.chaddr, packet.yiaddr>> \in Claims
      BY <2>4 DEF Claims
    <3>2. allocatedIps[mac[c]] = packet.yiaddr /\ packet.yiaddr # NoIp
      BY <2>1, <2>4, <3>1, PoolFacts DEF IInv, ClaimsBacked
    <3>3. Registry!Hold(mac[c])
      BY <2>3, <2>4, <3>2 DEF Registry!Hold, server
    <3> QED
      BY <2>1, <3>3 DEF Registry!Next
  <2>5. CASE ~current
    BY <2>3, <2>5 DEF Registry!registry, server
  <2> QED
    BY <2>4, <2>5
<1> QED
  BY <1>1, <1>2

\* All steps of a client.
LEMMA RefineClientStep ==
  ASSUME IInv, NEW c \in Client, ClientStep(c)
  PROVE  Registry!Next \/ UNCHANGED Registry!registry
<1>1. UNCHANGED server
  BY DEF ClientStep
<1>2. CASE Start(c) \/ BindFails(c) \/ ReceiveFails(c)
  BY <1>1, <1>2, RefineQuietClient DEF Start, BindFails, ReceiveFails, Running, ClientState
<1>3. ASSUME NEW packet \in toClient, HandleOffer(c, packet)
      PROVE  UNCHANGED Registry!registry
  BY <1>1, <1>3, RefineQuietClient DEF HandleOffer, ClientState
<1> QED
  BY <1>1, <1>2, <1>3, RefineHandleAck DEF ClientStep

\* Every step is a step of the registry or a stutter.
LEMMA RefineNext == IInv /\ [Next]_vars => [Registry!Next]_(Registry!registry)
<1> SUFFICES ASSUME IInv, [Next]_vars
             PROVE  Registry!Next \/ UNCHANGED Registry!registry
  BY DEF Registry!registry
<1>1. CASE Stray \/ UNCHANGED vars
  BY <1>1 DEF Stray, vars, server, client, Held, Holders, Registry!registry
<1> QED
  BY <1>1, RefineServerReceive, RefineServerRestart, RefineClientStep DEF Next, ServerStep

\* The server and its clients implement a registry of leases that are never
\* withdrawn, only forgotten together when the server restarts.
THEOREM RegistryCorrect == Spec => ImplementsRegistry
BY RefineInit, RefineNext, InvCorrect, PTL DEF Spec, ImplementsRegistry, Registry!Spec

\* What the registry alone promises, in the server's terms: an address is one
\* machine's, and what is held was assigned and is kept.
RegistryKept ==
  /\ allocatedIps \in [Mac -> ipPool \cup {NoIp}]
  /\ Injective
  /\ \A lease \in Held : \E m \in Mac :
       allocatedIps[m] # NoIp /\ lease = <<m, allocatedIps[m]>>

\* Every behaviour of the abstract registry keeps it, so that the refinement says
\* something of the server.
THEOREM RegistryKeeps == Registry!Spec => []RegistryKept
<1>1. Registry!Init => RegistryKept
  BY DEF Registry!Init, Registry!Empty, RegistryKept, Injective
<1>2. RegistryKept /\ [Registry!Next]_(Registry!registry) => RegistryKept'
  <2> SUFFICES ASSUME RegistryKept, [Registry!Next]_(Registry!registry)
               PROVE  RegistryKept'
    OBVIOUS
  <2>1. ASSUME NEW m \in Mac, NEW a \in ipPool, Registry!Assign(m, a)
        PROVE  RegistryKept'
    BY <2>1, PoolFacts DEF Registry!Assign, RegistryKept, Injective
  <2>2. ASSUME NEW m \in Mac, Registry!Hold(m)
        PROVE  RegistryKept'
    BY <2>2 DEF Registry!Hold, RegistryKept, Injective
  <2>3. CASE Registry!Forget
    BY <2>3 DEF Registry!Forget, Registry!Empty, RegistryKept, Injective
  <2>4. CASE UNCHANGED Registry!registry
    BY <2>4 DEF Registry!registry, RegistryKept, Injective
  <2> QED
    BY <2>1, <2>2, <2>3, <2>4 DEF Registry!Next
<1> QED
  BY <1>1, <1>2, PTL DEF Registry!Spec

-----------------------------------------------------------------------------
(* What a server that is never restarted promises: the two properties that *)
(* DhcpLease.cfg and DhcpExhausted.cfg refute in general.                  *)

\* Without restarts every claim is one of the only run of the server.
LEMMA HoldersOfFirst ==
  ASSUME MaxRestarts = 0, IInv, NEW c \in Holders
  PROVE  granted[c] = incarnation /\ incarnation = 0
<1>1. <<granted[c], mac[c], clientAddr[c]>> \in Claims
  BY DEF Claims
<1>2. granted[c] <= incarnation /\ granted[c] \in Nat
  BY <1>1 DEF IInv, ClaimsBacked, TypeOK, Holders
<1>3. incarnation = 0
  BY DEF IInv, TypeOK
<1> QED
  BY <1>2, <1>3

\* The lease of an address is exclusive as long as the server lives that
\* granted it.
THEOREM LeaseCorrect ==
  ASSUME MaxRestarts = 0
  PROVE  Spec => []LeaseIsExclusive
<1>1. IInv /\ UniqueAddress => LeaseIsExclusive
  BY HoldersOfFirst DEF UniqueAddress, LeaseIsExclusive
<1> QED
  BY <1>1, InvCorrect, UniqueAddressCorrect, PTL

\* The pool has an address for every MAC.
PoolSuffices == IsFiniteSet(Mac) /\ Cardinality(Mac) <= Cardinality(ipPool)

\* Every address that is taken is some other MAC's: were the pool exhausted
\* before all MACs have one, two addresses would have to be one MAC's.
LEMMA NobodyRefused ==
  ASSUME PoolSuffices, TypeOK, NEW m \in Mac
  PROVE  ~Refused(m)
<1> SUFFICES ASSUME Refused(m)
             PROVE  FALSE
  OBVIOUS
<1> DEFINE Others == Mac \ {m}
           owner == [ip \in ipPool |-> CHOOSE k \in Others : allocatedIps[k] = ip]
<1>1. \A ip \in ipPool : \E k \in Others : allocatedIps[k] = ip
  <2> SUFFICES ASSUME NEW ip \in ipPool
               PROVE  \E k \in Others : allocatedIps[k] = ip
    OBVIOUS
  <2>1. ip \notin Available
    BY DEF Refused
  <2>2. PICK k \in Mac : allocatedIps[k] = ip
    BY <2>1 DEF Available, IsIpAvailable, IsIpInPool, ipPool
  <2>3. k # m
    BY <2>2, PoolFacts DEF Refused
  <2> QED
    BY <2>2, <2>3
<1>2. IsFiniteSet(ipPool)
  BY PoolAssumption, FS_Interval DEF ipPool
<1>3. IsFiniteSet(Others) /\ Cardinality(Others) = Cardinality(Mac) - 1
  BY FS_RemoveElement DEF PoolSuffices
<1>4. /\ Cardinality(Mac) \in Nat /\ Cardinality(ipPool) \in Nat
      /\ Cardinality(Mac) <= Cardinality(ipPool)
  BY <1>2, FS_CardinalityType DEF PoolSuffices
<1>5. Cardinality(Others) < Cardinality(ipPool)
  BY <1>3, <1>4
<1>6. owner \in [ipPool -> Others] /\ \A ip \in ipPool : allocatedIps[owner[ip]] = ip
  BY <1>1
<1> HIDE DEF owner, Others
<1>7. PICK x \in ipPool, y \in ipPool : x # y /\ owner[x] = owner[y]
  BY <1>2, <1>3, <1>5, <1>6, FS_PigeonHole
<1> QED
  BY <1>6, <1>7

\* As long as the server is not restarted, a pool with an address for every
\* MAC never runs out: no client is ever answered with 255.255.255.255, however
\* many clients and other programs ask, and in which order.
THEOREM PoolCorrect ==
  ASSUME MaxRestarts = 0, PoolSuffices
  PROVE  Spec => []NoReplyWithoutAddress
<1>1. IInv => NoReplyWithoutAddress
  <2> SUFFICES ASSUME IInv, NEW packet \in toClient, packet.yiaddr \notin ipPool
               PROVE  FALSE
    BY DEF NoReplyWithoutAddress
  <2>1. incarnation = 0 /\ packet.chaddr \in Mac
    BY DEF IInv, TypeOK, Reply
  <2>2. Refused(packet.chaddr)
    BY <2>1 DEF IInv, RefusalsAgree
  <2> QED
    BY <2>1, <2>2, NobodyRefused DEF IInv
<1> QED
  BY <1>1, InvCorrect, PTL

-----------------------------------------------------------------------------
(* Who is served when nothing is lost *)

\* Every datagram is received, the server lives, the pool has an address for
\* every MAC, and the other programs run on other hosts than the clients.
GoodService ==
  /\ Reliable
  /\ MaxRestarts = 0
  /\ PoolSuffices
  /\ \A c \in Client : HostOf[c] \notin Stranger

\* What a running client has sent last, and what it waits for.
Asks(c) == IF cpc[c] = "offer" THEN "DISCOVER" ELSE "REQUEST"
Awaits(c) == IF cpc[c] = "offer" THEN "OFFER" ELSE "ACK"

\* A packet of a client's host is the request of the client that runs there or
\* the reply it waits for. Nothing is left of an earlier client.
PacketsOfRunning ==
  /\ \A packet \in toServer : packet.host \notin Stranger =>
       \E c \in Client : Running(c) /\ packet = ClientPacket(c, Asks(c), packet.yiaddr)
  /\ \A packet \in toClient : packet.host \notin Stranger =>
       \E c \in Client :
         Running(c) /\ packet.host = HostOf[c] /\ Valid(c, packet, Awaits(c))

\* One client runs on a host, and one packet is on its way to or from it.
OneOnItsWay ==
  /\ \A c, d \in Client : Running(c) /\ Running(d) /\ HostOf[c] = HostOf[d] => c = d
  /\ \A c \in Client : Running(c) => InFlight(c)
  /\ \A p, q \in toServer : p.host = q.host /\ p.host \notin Stranger => p = q
  /\ \A p, q \in toClient : p.host = q.host /\ p.host \notin Stranger => p = q
  /\ \A p \in toServer, q \in toClient : p.host = q.host => p.host \in Stranger

ExchangeInv == PacketsOfRunning /\ OneOnItsWay

\* How far the exchange of a client has come: DISCOVER sent, OFFER sent,
\* REQUEST sent, ACK sent, over.
Answered(c) == \E packet \in toClient : packet.host = HostOf[c]
Stage(c) ==
  IF cpc[c] = "new" THEN 0
  ELSE IF ~Running(c) THEN 5
  ELSE (IF cpc[c] = "offer" THEN 1 ELSE 3) + (IF Answered(c) THEN 1 ELSE 0)

\* A client that runs ends only with an address of the pool.
EndsServed == \A c \in Client : Running(c) => Running(c)' \/ (c \in Holders)'

\* Every step of a running client, and every time the server receives a packet
\* of it, brings its exchange further, and no step of another takes it back.
ExchangeMovesOn ==
  \A c \in Client : Running(c) =>
    /\ Stage(c) <= Stage(c)'
    /\ ClientStep(c) => Stage(c) < Stage(c)'
    /\ \A packet \in toServer :
         packet.host = HostOf[c] /\ ServerReceive(packet) /\ UNCHANGED client
           => Stage(c) < Stage(c)'

\* No packet is under way before the first step.
LEMMA ExchangeInit == Init => ExchangeInv
BY DEF Init, ClientInit, ExchangeInv, PacketsOfRunning, OneOnItsWay, Running

\* The server receives a packet of a running client and answers it with what
\* the client waits for.
LEMMA RequestAnswered ==
  ASSUME GoodService, TypeOK, ExchangeInv,
         NEW packet \in toServer, packet.host \notin Stranger, ServerReceive(packet)
  PROVE  \E c \in Client, reply \in Reply :
           /\ Running(c) /\ packet.host = HostOf[c]
           /\ toServer' = toServer \ {packet}
           /\ toClient' = toClient \cup {reply}
           /\ reply.host = HostOf[c] /\ Valid(c, reply, Awaits(c))
<1>1. PICK c \in Client : Running(c) /\ packet = ClientPacket(c, Asks(c), packet.yiaddr)
  BY DEF ExchangeInv, PacketsOfRunning
<1>2. packet.host = HostOf[c] /\ packet.chaddr = mac[c] /\ packet.type = Asks(c)
  BY <1>1 DEF ClientPacket
<1>3. packet \in Request /\ incarnation \in Nat
  BY RestartAssumption DEF TypeOK
<1>4. toServer' = toServer \ {packet}
  BY DEF GoodService, ServerReceive, AfterReceiving
<1>5. PICK ip \in ipPool \cup {NoIp} : Respond(packet, Awaits(c), ip)
  BY <1>1, <1>2 DEF ServerReceive, HandleDiscover, HandleRequest, IgnorePacket,
                    IsIpInPool, Asks, Awaits
<1>6. Awaits(c) \in {"OFFER", "ACK"}
  BY DEF Awaits
<1>7. PICK reply \in Reply :
        /\ toClient' = toClient \cup {reply}
        /\ reply.host = packet.host /\ reply.type = Awaits(c)
        /\ reply.xid = Xid /\ reply.chaddr = packet.chaddr
  BY <1>3, <1>5, <1>6, RespondEffect
<1> QED
  BY <1>1, <1>2, <1>4, <1>7 DEF Valid

\* What the server does for another program stays with that program's host.
LEMMA StrangerAnswered ==
  ASSUME GoodService, TypeOK, NEW packet \in toServer, ServerReceive(packet)
  PROVE  /\ toServer' = toServer \ {packet}
         /\ toClient \subseteq toClient'
         /\ \A reply \in toClient' : reply \in toClient \/ reply.host = packet.host
<1>1. packet \in Request /\ incarnation \in Nat
  BY RestartAssumption DEF TypeOK
<1>2. CASE UNCHANGED toClient
  BY <1>2 DEF GoodService, ServerReceive, AfterReceiving
<1>3. CASE \E type \in {"OFFER", "ACK"}, ip \in ipPool \cup {NoIp} : Respond(packet, type, ip)
  BY <1>1, <1>3, RespondEffect DEF GoodService, ServerReceive, AfterReceiving
<1> QED
  BY <1>2, <1>3 DEF ServerReceive, HandleDiscover, HandleRequest, IgnorePacket, IsIpInPool

\* What holds for a client in two states that agree on it.
LEMMA ClientUnmoved ==
  ASSUME NEW c \in Client, cpc'[c] = cpc[c], mac' = mac
  PROVE  /\ Running(c)' <=> Running(c)
         /\ Asks(c)' = Asks(c) /\ Awaits(c)' = Awaits(c)
         /\ \A ip : ClientPacket(c, Asks(c), ip)' = ClientPacket(c, Asks(c), ip)
         /\ \A packet : Valid(c, packet, Awaits(c))' <=> Valid(c, packet, Awaits(c))
BY DEF Running, Asks, Awaits, ClientPacket, Valid

\* A step that only other programs' packets, and clients that do not run, take
\* part in.
LEMMA ExchangesUntouched ==
  ASSUME GoodService, ExchangeInv, mac' = mac,
         \A c \in Client : Running(c)' <=> Running(c),
         \A c \in Client : Running(c) => cpc'[c] = cpc[c],
         \A packet : packet.host \notin Stranger =>
           /\ packet \in toServer' <=> packet \in toServer
           /\ packet \in toClient' <=> packet \in toClient
  PROVE  ExchangeInv'
<1>1. PacketsOfRunning'
  <2>1. ASSUME NEW packet \in toServer', packet.host \notin Stranger
        PROVE  \E c \in Client : (Running(c) /\ packet = ClientPacket(c, Asks(c), packet.yiaddr))'
    <3>1. PICK c \in Client : Running(c) /\ packet = ClientPacket(c, Asks(c), packet.yiaddr)
      BY <2>1 DEF ExchangeInv, PacketsOfRunning
    <3> QED
      BY <3>1, ClientUnmoved
  <2>2. ASSUME NEW packet \in toClient', packet.host \notin Stranger
        PROVE  \E c \in Client :
                 (Running(c) /\ packet.host = HostOf[c] /\ Valid(c, packet, Awaits(c)))'
    <3>1. PICK c \in Client :
            Running(c) /\ packet.host = HostOf[c] /\ Valid(c, packet, Awaits(c))
      BY <2>2 DEF ExchangeInv, PacketsOfRunning
    <3> QED
      BY <3>1, ClientUnmoved
  <2> QED
    BY <2>1, <2>2 DEF PacketsOfRunning
<1>2. ASSUME NEW c \in Client, Running(c)'
      PROVE  InFlight(c)'
  <2>1. HostOf[c] \notin Stranger /\ InFlight(c)
    BY <1>2 DEF GoodService, ExchangeInv, OneOnItsWay
  <2> QED
    BY <2>1 DEF InFlight
<1>3. OneOnItsWay'
  BY <1>2 DEF ExchangeInv, OneOnItsWay
<1> QED
  BY <1>1, <1>3 DEF ExchangeInv

\* The DISCOVER or REQUEST of a client gives place to its OFFER or ACK.
LEMMA ExchangeReceived ==
  ASSUME GoodService, TypeOK, ExchangeInv, UNCHANGED client,
         NEW packet \in toServer, ServerReceive(packet)
  PROVE  ExchangeInv'
<1>1. mac' = mac /\ \A c \in Client : cpc'[c] = cpc[c]
  BY DEF client
<1>2. CASE packet.host \in Stranger
  <2>1. /\ \A c \in Client : Running(c)' <=> Running(c)
        /\ \A p : p.host \notin Stranger =>
             /\ p \in toServer' <=> p \in toServer
             /\ p \in toClient' <=> p \in toClient
    BY <1>1, <1>2, StrangerAnswered, ClientUnmoved
  <2> QED
    BY <1>1, <2>1, ExchangesUntouched
<1>3. CASE packet.host \notin Stranger
  <2>1. PICK c \in Client, reply \in Reply :
          /\ Running(c) /\ packet.host = HostOf[c]
          /\ toServer' = toServer \ {packet}
          /\ toClient' = toClient \cup {reply}
          /\ reply.host = HostOf[c] /\ Valid(c, reply, Awaits(c))
    BY <1>3, RequestAnswered
  <2>2. PacketsOfRunning'
    <3>1. ASSUME NEW p \in toServer', p.host \notin Stranger
          PROVE  \E d \in Client : (Running(d) /\ p = ClientPacket(d, Asks(d), p.yiaddr))'
      <4>1. PICK d \in Client : Running(d) /\ p = ClientPacket(d, Asks(d), p.yiaddr)
        BY <2>1, <3>1 DEF ExchangeInv, PacketsOfRunning
      <4> QED
        BY <1>1, <4>1, ClientUnmoved
    <3>2. ASSUME NEW p \in toClient', p.host \notin Stranger
          PROVE  \E d \in Client : (Running(d) /\ p.host = HostOf[d] /\ Valid(d, p, Awaits(d)))'
      <4>1. PICK d \in Client : Running(d) /\ p.host = HostOf[d] /\ Valid(d, p, Awaits(d))
        BY <2>1, <3>2 DEF ExchangeInv, PacketsOfRunning
      <4> QED
        BY <1>1, <4>1, ClientUnmoved
    <3> QED
      BY <3>1, <3>2 DEF PacketsOfRunning
  <2>3. ASSUME NEW d \in Client, Running(d)'
        PROVE  InFlight(d)'
    <3>1. PICK p \in toServer \cup toClient : p.host = HostOf[d]
      BY <1>1, <2>3, ClientUnmoved DEF ExchangeInv, OneOnItsWay, InFlight
    <3> QED
      BY <2>1, <3>1 DEF InFlight
  <2>4. OneOnItsWay'
    BY <1>1, <1>3, <2>1, <2>3, ClientUnmoved DEF ExchangeInv, OneOnItsWay
  <2> QED
    BY <2>2, <2>4 DEF ExchangeInv
<1> QED
  BY <1>2, <1>3

\* Only one client changes, and what is on other hosts' ways does not.
OnlyAtHost(c) ==
  /\ mac' = mac
  /\ \A d \in Client \ {c} : cpc'[d] = cpc[d]
  /\ \A packet : packet.host # HostOf[c] =>
       /\ packet \in toServer' <=> packet \in toServer
       /\ packet \in toClient' <=> packet \in toClient

\* Nothing is on its way to or from the host of a client that may start.
LEMMA PortFree ==
  ASSUME GoodService, ExchangeInv, NEW c \in Client, ~PortTaken(c)
  PROVE  \A packet \in toServer \cup toClient : packet.host # HostOf[c]
<1> SUFFICES ASSUME NEW packet \in toServer \cup toClient, packet.host = HostOf[c]
             PROVE  FALSE
  OBVIOUS
<1>1. packet.host \notin Stranger
  BY DEF GoodService
<1>2. CASE packet \in toServer
  <2>1. PICK d \in Client : Running(d) /\ packet = ClientPacket(d, Asks(d), packet.yiaddr)
    BY <1>1, <1>2 DEF ExchangeInv, PacketsOfRunning
  <2>2. packet.host = HostOf[d]
    BY <2>1 DEF ClientPacket
  <2> QED
    BY <2>1, <2>2 DEF PortTaken
<1>3. CASE packet \in toClient
  BY <1>1, <1>3 DEF ExchangeInv, PacketsOfRunning, PortTaken
<1> QED
  BY <1>2, <1>3

\* The invariant after a step of one client, if it holds on the client's host.
LEMMA ExchangeOfOne ==
  ASSUME GoodService, ExchangeInv, NEW c \in Client, OnlyAtHost(c),
         \A d \in Client \ {c} : Running(d) => HostOf[d] # HostOf[c],
         \A p \in toServer' : p.host = HostOf[c] =>
           Running(c)' /\ p = ClientPacket(c, Asks(c), p.yiaddr)',
         \A p \in toClient' : p.host # HostOf[c],
         \A p, q \in toServer' : p.host = HostOf[c] /\ q.host = HostOf[c] => p = q,
         Running(c)' => InFlight(c)'
  PROVE  ExchangeInv'
<1>1. \A d \in Client \ {c} : Running(d)' <=> Running(d)
  BY ClientUnmoved DEF OnlyAtHost
<1>2. ASSUME NEW p \in toServer', p.host \notin Stranger
      PROVE  \E d \in Client : (Running(d) /\ p = ClientPacket(d, Asks(d), p.yiaddr))'
  <2>1. CASE p.host = HostOf[c]
    BY <1>2, <2>1
  <2>2. CASE p.host # HostOf[c]
    <3>1. PICK d \in Client : Running(d) /\ p = ClientPacket(d, Asks(d), p.yiaddr)
      BY <1>2, <2>2 DEF ExchangeInv, PacketsOfRunning, OnlyAtHost
    <3>2. p.host = HostOf[d]
      BY <3>1 DEF ClientPacket
    <3>3. d # c
      BY <2>2, <3>2
    <3> QED
      BY <3>1, <3>3, ClientUnmoved DEF OnlyAtHost
  <2> QED
    BY <2>1, <2>2
<1>3. ASSUME NEW p \in toClient', p.host \notin Stranger
      PROVE  \E d \in Client : (Running(d) /\ p.host = HostOf[d] /\ Valid(d, p, Awaits(d)))'
  <2>1. p.host # HostOf[c]
    OBVIOUS
  <2>2. PICK d \in Client : Running(d) /\ p.host = HostOf[d] /\ Valid(d, p, Awaits(d))
    BY <1>3, <2>1 DEF ExchangeInv, PacketsOfRunning, OnlyAtHost
  <2>3. d # c
    BY <2>1, <2>2
  <2> QED
    BY <2>2, <2>3, ClientUnmoved DEF OnlyAtHost
<1>4. PacketsOfRunning'
  BY <1>2, <1>3 DEF PacketsOfRunning
<1>5. ASSUME NEW d \in Client, Running(d)'
      PROVE  InFlight(d)'
  <2>1. CASE d = c
    BY <1>5, <2>1
  <2>2. CASE d # c
    <3>1. HostOf[d] # HostOf[c]
      BY <1>1, <1>5, <2>2
    <3>2. PICK p \in toServer \cup toClient : p.host = HostOf[d]
      BY <1>1, <1>5, <2>2 DEF ExchangeInv, OneOnItsWay, InFlight
    <3>3. p \in toServer' \cup toClient'
      BY <3>1, <3>2 DEF OnlyAtHost
    <3> QED
      BY <3>2, <3>3 DEF InFlight
  <2> QED
    BY <2>1, <2>2
<1>6. /\ \A d, e \in Client : Running(d)' /\ Running(e)' /\ HostOf[d] = HostOf[e] => d = e
      /\ \A p, q \in toServer' : p.host = q.host /\ p.host \notin Stranger => p = q
      /\ \A p, q \in toClient' : p.host = q.host /\ p.host \notin Stranger => p = q
      /\ \A p \in toServer', q \in toClient' : p.host = q.host => p.host \in Stranger
  BY <1>1 DEF ExchangeInv, OneOnItsWay, OnlyAtHost
<1>7. OneOnItsWay'
  BY <1>5, <1>6 DEF OneOnItsWay
<1> QED
  BY <1>4, <1>7 DEF ExchangeInv

\* The only packet that a running client can receive is the one it waits for.
LEMMA ReplyAwaited ==
  ASSUME GoodService, ExchangeInv, NEW c \in Client, Running(c),
         NEW packet \in toClient, packet.host = HostOf[c]
  PROVE  /\ Valid(c, packet, Awaits(c))
         /\ \A p \in toServer : p.host # HostOf[c]
         /\ \A p \in toClient : p.host = HostOf[c] => p = packet
         /\ \A d \in Client \ {c} : Running(d) => HostOf[d] # HostOf[c]
<1>1. packet.host \notin Stranger
  BY DEF GoodService
<1>2. PICK d \in Client : Running(d) /\ packet.host = HostOf[d] /\ Valid(d, packet, Awaits(d))
  BY <1>1 DEF ExchangeInv, PacketsOfRunning
<1>3. d = c
  BY <1>2 DEF ExchangeInv, OneOnItsWay
<1> QED
  BY <1>1, <1>2, <1>3 DEF ExchangeInv, OneOnItsWay

\* While its packet is under way a running client does not time out.
LEMMA NoTimeout ==
  ASSUME GoodService, ExchangeInv, NEW c \in Client
  PROVE  ~ReceiveFails(c)
BY DEF GoodService, ExchangeInv, OneOnItsWay, ReceiveFails

\* A client that starts finds its host idle and sends the first packet.
LEMMA ExchangeStarted ==
  ASSUME GoodService, TypeOK, ExchangeInv, NEW c \in Client, Start(c)
  PROVE  ExchangeInv'
<1>0. PICK discover : discover = ClientPacket(c, "DISCOVER", INADDR_ANY)
  OBVIOUS
<1>1. \A p \in toServer \cup toClient : p.host # HostOf[c]
  BY PortFree DEF Start
<1>2. /\ toServer' = toServer \cup {discover} /\ toClient' = toClient
      /\ mac' = mac /\ cpc' = [cpc EXCEPT ![c] = "offer"]
  BY <1>0 DEF Start
<1>3. cpc'[c] = "offer" /\ \A d \in Client \ {c} : cpc'[d] = cpc[d]
  BY <1>2 DEF TypeOK
<1>4. discover.host = HostOf[c]
  BY <1>0 DEF ClientPacket
<1>5. discover = ClientPacket(c, Asks(c), discover.yiaddr)' /\ Running(c)'
  BY <1>0, <1>2, <1>3 DEF ClientPacket, Asks, Running
<1>6. OnlyAtHost(c)
  BY <1>2, <1>3, <1>4 DEF OnlyAtHost
<1>7. \A p \in toServer' : p.host = HostOf[c] => p = discover
  BY <1>1, <1>2
<1>8. \A p \in toClient' : p.host # HostOf[c]
  BY <1>1, <1>2
<1>9. InFlight(c)'
  BY <1>2, <1>4 DEF InFlight
<1>10. \A d \in Client \ {c} : Running(d) => HostOf[d] # HostOf[c]
  BY DEF Start, PortTaken
<1>11. \A p \in toServer' : p.host = HostOf[c] =>
         Running(c)' /\ p = ClientPacket(c, Asks(c), p.yiaddr)'
  BY <1>5, <1>7
<1> QED
  BY <1>6, <1>7, <1>8, <1>9, <1>10, <1>11, ExchangeOfOne

\* A client whose port is taken does not start, and sends nothing.
LEMMA ExchangeRefused ==
  ASSUME GoodService, TypeOK, ExchangeInv, NEW c \in Client, BindFails(c)
  PROVE  ExchangeInv'
<1>1. /\ cpc[c] = "new" /\ cpc' = [cpc EXCEPT ![c] = "failed"]
      /\ mac' = mac /\ toServer' = toServer /\ toClient' = toClient
  BY DEF BindFails, network
<1>2. \A d \in Client : (Running(d)' <=> Running(d)) /\ (Running(d) => cpc'[d] = cpc[d])
  BY <1>1 DEF TypeOK, Running
<1> QED
  BY <1>1, <1>2, ExchangesUntouched

\* A client that receives its OFFER sends the REQUEST in its place.
LEMMA ExchangeOffered ==
  ASSUME GoodService, TypeOK, ExchangeInv,
         NEW c \in Client, NEW packet \in toClient, HandleOffer(c, packet)
  PROVE  ExchangeInv' /\ cpc'[c] = "ack" /\ \A p \in toClient' : p.host # HostOf[c]
<1>0. PICK request : request = ClientPacket(c, "REQUEST", InetAddr(GetIp(packet)))
  OBVIOUS
<1>1. Running(c) /\ cpc[c] = "offer" /\ packet.host = HostOf[c]
  BY DEF HandleOffer, Receive, Running
<1>2. /\ Valid(c, packet, "OFFER")
      /\ \A p \in toServer : p.host # HostOf[c]
      /\ \A p \in toClient : p.host = HostOf[c] => p = packet
      /\ \A d \in Client \ {c} : Running(d) => HostOf[d] # HostOf[c]
  BY <1>1, ReplyAwaited DEF Awaits
<1>3. /\ toServer' = toServer \cup {request} /\ toClient' = toClient \ {packet}
      /\ mac' = mac /\ cpc' = [cpc EXCEPT ![c] = "ack"]
  BY <1>0, <1>2 DEF HandleOffer, Receive, AfterReceiving, GoodService
<1>4. cpc'[c] = "ack" /\ \A d \in Client \ {c} : cpc'[d] = cpc[d]
  BY <1>3 DEF TypeOK
<1>5. request.host = HostOf[c]
  BY <1>0 DEF ClientPacket
<1>6. request = ClientPacket(c, Asks(c), request.yiaddr)' /\ Running(c)'
  BY <1>0, <1>3, <1>4 DEF ClientPacket, Asks, Running
<1>7. OnlyAtHost(c)
  BY <1>1, <1>3, <1>4, <1>5 DEF OnlyAtHost
<1>8. \A p \in toServer' : p.host = HostOf[c] => p = request
  BY <1>2, <1>3
<1>9. \A p \in toClient' : p.host # HostOf[c]
  BY <1>2, <1>3
<1>10. InFlight(c)'
  BY <1>3, <1>5 DEF InFlight
<1>11. \A p \in toServer' : p.host = HostOf[c] =>
         Running(c)' /\ p = ClientPacket(c, Asks(c), p.yiaddr)'
  BY <1>6, <1>8
<1>12. ExchangeInv'
  BY <1>2, <1>7, <1>8, <1>9, <1>10, <1>11, ExchangeOfOne
<1> QED
  BY <1>4, <1>9, <1>12

\* A client that receives its ACK ends, and its packet is gone.
LEMMA ExchangeEnded ==
  ASSUME GoodService, TypeOK, ExchangeInv, NoReplyWithoutAddress,
         NEW c \in Client, NEW packet \in toClient, HandleAck(c, packet)
  PROVE  ExchangeInv' /\ (c \in Holders)' /\ \A d \in Client \ {c} : cpc'[d] = cpc[d]
<1>1. Running(c) /\ cpc[c] = "ack" /\ packet.host = HostOf[c]
  BY DEF HandleAck, Receive, Running
<1>2. /\ Valid(c, packet, "ACK")
      /\ \A p \in toServer : p.host # HostOf[c]
      /\ \A p \in toClient : p.host = HostOf[c] => p = packet
      /\ \A d \in Client \ {c} : Running(d) => HostOf[d] # HostOf[c]
  BY <1>1, ReplyAwaited DEF Awaits
<1>3. /\ toServer' = toServer /\ toClient' = toClient \ {packet}
      /\ mac' = mac /\ cpc' = [cpc EXCEPT ![c] = "bound"]
      /\ clientAddr' = [clientAddr EXCEPT ![c] = InetAddr(GetIp(packet))]
  BY <1>2 DEF HandleAck, Receive, AfterReceiving, GoodService
<1>4. cpc'[c] = "bound" /\ \A d \in Client \ {c} : cpc'[d] = cpc[d]
  BY <1>3 DEF TypeOK
<1>5. packet.yiaddr \in ipPool /\ packet.yiaddr \in Address
  BY PoolFacts DEF NoReplyWithoutAddress
<1>6. clientAddr'[c] \in ipPool
  BY <1>3, <1>5, InetAddrFacts DEF TypeOK, GetIp
<1>7. (c \in Holders)'
  BY <1>4, <1>6, PoolFacts DEF Holders, ipPool
<1>8. OnlyAtHost(c)
  BY <1>1, <1>3, <1>4 DEF OnlyAtHost
<1>9. ~Running(c)' /\ \A p \in toClient' : p.host # HostOf[c]
  BY <1>2, <1>3, <1>4 DEF Running
<1>10. \A p \in toServer' : p.host # HostOf[c]
  BY <1>2, <1>3
<1>11. ExchangeInv'
  BY <1>2, <1>8, <1>9, <1>10, ExchangeOfOne
<1> QED
  BY <1>4, <1>7, <1>11

\* A stranger's datagram is one more at its own host.
LEMMA ExchangeStray ==
  ASSUME GoodService, ExchangeInv, Stray
  PROVE  ExchangeInv'
<1>1. PICK h \in Stranger, m \in Mac, options \in {NoType, "OTHER"} :
        toServer' = toServer \cup {[host |-> h, type |-> GetMessageType(options), xid |-> Xid,
                                    chaddr |-> m, yiaddr |-> INADDR_ANY]}
  BY DEF Stray
<1>2. toClient' = toClient /\ cpc' = cpc /\ mac' = mac
  BY DEF Stray, client
<1>3. \A c \in Client : Running(c)' <=> Running(c)
  BY <1>2 DEF Running
<1>4. \A p : p.host \notin Stranger => (p \in toServer' <=> p \in toServer)
  BY <1>1
<1> QED
  BY <1>2, <1>3, <1>4, ExchangesUntouched

\* What the exchanges rest on.
ServedInv == IInv /\ NoReplyWithoutAddress /\ ExchangeInv

\* The invariant of the exchange is inductive.
LEMMA ExchangeNext ==
  ASSUME GoodService, ServedInv, [Next]_vars
  PROVE  ExchangeInv'
<1>1. TypeOK /\ ExchangeInv /\ NoReplyWithoutAddress
  BY DEF ServedInv, IInv
<1>2. ASSUME NEW packet \in toServer, ServerReceive(packet), UNCHANGED client
      PROVE  ExchangeInv'
  BY <1>1, <1>2, ExchangeReceived
<1>3. ASSUME ServerRestart
      PROVE  FALSE
  BY <1>1, <1>3 DEF ServerRestart, TypeOK, GoodService
<1>4. ASSUME NEW c \in Client, ClientStep(c)
      PROVE  ExchangeInv'
  BY <1>1, <1>4, ExchangeStarted, ExchangeRefused, ExchangeOffered, ExchangeEnded, NoTimeout
  DEF ClientStep
<1>5. ASSUME Stray
      PROVE  ExchangeInv'
  BY <1>1, <1>5, ExchangeStray
<1>6. ASSUME UNCHANGED vars
      PROVE  ExchangeInv'
  <2>1. /\ toServer' = toServer /\ toClient' = toClient /\ mac' = mac
        /\ \A c \in Client : cpc'[c] = cpc[c]
    BY <1>6 DEF vars
  <2>2. \A c \in Client : Running(c)' <=> Running(c)
    BY <2>1, ClientUnmoved
  <2> QED
    BY <1>1, <2>1, <2>2, ExchangesUntouched
<1> QED
  BY <1>2, <1>3, <1>4, <1>5, <1>6 DEF Next, ServerStep

\* Where nothing is lost, a running client is the only one on its host and has
\* exactly one packet under way, the request it sent last or the reply it waits
\* for: an earlier run leaves nothing behind, and other programs' packets and
\* clients with the same MAC do not get in the way.
THEOREM ExchangeCorrect ==
  ASSUME GoodService
  PROVE  Spec => []ExchangeInv
<1>1. ServedInv /\ [Next]_vars => ExchangeInv'
  BY ExchangeNext
<1>2. MaxRestarts = 0 /\ PoolSuffices
  BY DEF GoodService
<1>3. Spec => []NoReplyWithoutAddress
  BY <1>2, PoolCorrect
<1> QED
  BY <1>1, <1>3, ExchangeInit, InvCorrect, PTL DEF Spec, ServedInv

\* The safety half of ClientIsServed: a client that was started ends in no other
\* way than with an address of the pool.
THEOREM EndsServedCorrect ==
  ASSUME GoodService
  PROVE  Spec => [][EndsServed]_vars
<1>1. ASSUME ServedInv, [Next]_vars
      PROVE  [EndsServed]_vars
  <2>1. TypeOK /\ ExchangeInv /\ NoReplyWithoutAddress
    BY <1>1 DEF ServedInv, IInv
  <2>2. ASSUME UNCHANGED cpc
        PROVE  EndsServed
    BY <2>2 DEF EndsServed, Running
  <2>3. ASSUME NEW c \in Client, ClientStep(c), NEW d \in Client, Running(d)
        PROVE  Running(d)' \/ (d \in Holders)'
    <3>1. CASE Start(c) \/ BindFails(c)
      BY <2>1, <2>3, <3>1 DEF Start, BindFails, TypeOK, Running
    <3>2. ASSUME NEW packet \in toClient, HandleOffer(c, packet)
          PROVE  Running(d)' \/ (d \in Holders)'
      <4>1. cpc'[c] = "ack"
        BY <1>1, <2>1, <3>2, ExchangeOffered
      <4>2. d # c => cpc'[d] = cpc[d]
        BY <2>1, <3>2 DEF HandleOffer, TypeOK
      <4> QED
        BY <2>3, <4>1, <4>2 DEF Running
    <3>3. ASSUME NEW packet \in toClient, HandleAck(c, packet)
          PROVE  Running(d)' \/ (d \in Holders)'
      BY <2>1, <2>3, <3>3, ExchangeEnded DEF Running
    <3> QED
      BY <2>1, <2>3, <3>1, <3>2, <3>3, NoTimeout DEF ClientStep
  <2> QED
    BY <1>1, <2>2, <2>3
    DEF Next, ServerStep, Stray, client, vars, EndsServed
<1>2. MaxRestarts = 0 /\ PoolSuffices
  BY DEF GoodService
<1>3. Spec => []NoReplyWithoutAddress
  BY <1>2, PoolCorrect
<1> QED
  BY <1>1, <1>3, ExchangeCorrect, InvCorrect, PTL DEF Spec, ServedInv

\* A client whose state and packets are the same is at the same stage.
LEMMA StageKept ==
  ASSUME NEW c \in Client, Running(c), cpc'[c] = cpc[c], Answered(c) => Answered(c)'
  PROVE  Stage(c) <= Stage(c)'
BY DEF Stage, Running

\* Every step of a running client ends a stage.
LEMMA ClientStage ==
  ASSUME GoodService, TypeOK, ExchangeInv, NoReplyWithoutAddress,
         NEW c \in Client, Running(c), ClientStep(c)
  PROVE  Stage(c) < Stage(c)'
<1>1. ASSUME NEW packet \in toClient, HandleOffer(c, packet)
      PROVE  Stage(c) < Stage(c)'
  <2>1. cpc[c] = "offer" /\ cpc'[c] = "ack"
    BY <1>1, ExchangeOffered DEF HandleOffer
  <2> QED
    BY <2>1 DEF Stage, Running
<1>2. ASSUME NEW packet \in toClient, HandleAck(c, packet)
      PROVE  Stage(c) < Stage(c)'
  <2>1. cpc[c] = "ack" /\ cpc'[c] = "bound"
    BY <1>2, ExchangeEnded DEF HandleAck, Holders
  <2> QED
    BY <2>1 DEF Stage, Running
<1> QED
  BY <1>1, <1>2, NoTimeout DEF ClientStep, Start, BindFails, Running

\* So does every packet of it that the server receives.
LEMMA ServerStage ==
  ASSUME GoodService, TypeOK, ExchangeInv, NEW c \in Client, Running(c), UNCHANGED client,
         NEW packet \in toServer, packet.host = HostOf[c], ServerReceive(packet)
  PROVE  Stage(c) < Stage(c)'
<1>1. packet.host \notin Stranger
  BY DEF GoodService
<1>2. ~Answered(c)
  BY <1>1 DEF Answered, ExchangeInv, OneOnItsWay
<1>3. Answered(c)'
  BY <1>1, RequestAnswered DEF Answered
<1> QED
  BY <1>2, <1>3 DEF Stage, Running, client

\* With fairness the safety half of ClientIsServed is all of it: a running
\* client always has a packet under way, whoever receives it brings the
\* exchange one of its four stages further, and nobody takes it back.
THEOREM ExchangeMovesOnCorrect ==
  ASSUME GoodService
  PROVE  Spec => [][ExchangeMovesOn]_vars
<1>1. ASSUME ServedInv, [Next]_vars
      PROVE  [ExchangeMovesOn]_vars
  <2>1. TypeOK /\ ExchangeInv /\ NoReplyWithoutAddress
    BY <1>1 DEF ServedInv, IInv
  <2>2. SUFFICES ASSUME Next, NEW c \in Client, Running(c)
                 PROVE  Stage(c) <= Stage(c)'
    BY <1>1, <2>1, ClientStage, ServerStage DEF ExchangeMovesOn
  <2>3. ASSUME NEW packet \in toServer, ServerReceive(packet), UNCHANGED client
        PROVE  Stage(c) <= Stage(c)'
    <3>1. toClient \subseteq toClient'
      BY <2>1, <2>3, StrangerAnswered
    <3>2. cpc'[c] = cpc[c] /\ (Answered(c) => Answered(c)')
      BY <2>3, <3>1 DEF Answered, client
    <3> QED
      BY <2>2, <3>2, StageKept
  <2>4. ~ServerRestart
    BY <2>1 DEF ServerRestart, TypeOK, GoodService
  <2>5. ASSUME Stray
        PROVE  Stage(c) <= Stage(c)'
    BY <2>2, <2>5, StageKept DEF Stray, client, Answered
  <2>6. ASSUME ClientStep(c)
        PROVE  Stage(c) <= Stage(c)'
    <3>1. Stage(c) < Stage(c)'
      BY <2>1, <2>2, <2>6, ClientStage
    <3>2. Stage(c) \in Nat /\ Stage(c)' \in Nat
      BY DEF Stage
    <3> QED
      BY <3>1, <3>2
  <2>7. ASSUME NEW d \in Client \ {c}, ClientStep(d)
        PROVE  Stage(c) <= Stage(c)'
    <3>1. CASE UNCHANGED toClient
      <4>1. cpc'[c] = cpc[c]
        BY <2>1, <2>7, <3>1 DEF ClientStep, Start, BindFails, ReceiveFails, HandleOffer, HandleAck, TypeOK
      <4> QED
        BY <2>2, <3>1, <4>1, StageKept DEF Answered
    <3>2. ASSUME NEW packet \in toClient, HandleOffer(d, packet) \/ HandleAck(d, packet)
          PROVE  Stage(c) <= Stage(c)'
      <4>1. cpc'[c] = cpc[c] /\ Running(d) /\ Receive(d, packet)
        BY <2>1, <2>7, <3>2 DEF HandleOffer, HandleAck, TypeOK, Running
      <4>2. HostOf[d] # HostOf[c]
        BY <2>1, <2>2, <2>7, <4>1 DEF ExchangeInv, OneOnItsWay
      <4>3. packet.host # HostOf[c] /\ toClient' = toClient \ {packet}
        BY <4>1, <4>2 DEF Receive, AfterReceiving, GoodService
      <4>4. Answered(c) => Answered(c)'
        BY <4>3 DEF Answered
      <4> QED
        BY <2>2, <4>1, <4>4, StageKept
    <3> QED
      BY <2>7, <3>1, <3>2 DEF ClientStep, Start, BindFails, ReceiveFails, network
  <2> QED
    BY <2>2, <2>3, <2>4, <2>5, <2>6, <2>7 DEF Next, ServerStep
<1>2. MaxRestarts = 0 /\ PoolSuffices
  BY DEF GoodService
<1>3. Spec => []NoReplyWithoutAddress
  BY <1>2, PoolCorrect
<1> QED
  BY <1>1, <1>3, ExchangeCorrect, InvCorrect, PTL DEF Spec, ServedInv

-----------------------------------------------------------------------------
(* Why every client ends *)

\* How many receives a client has left: for the OFFER and for the ACK.
ReceivesLeft(c) == IF cpc[c] = "offer" THEN 2 ELSE IF cpc[c] = "ack" THEN 1 ELSE 0

\* A client runs while it has one left. Each of its steps uses one up, and no step
\* of anyone else changes how many there are or ends it.
ReceivesRunOut ==
  \A c \in Client :
    /\ Running(c) <=> ReceivesLeft(c) > 0
    /\ Running(c) /\ ClientStep(c) => ReceivesLeft(c)' < ReceivesLeft(c)
    /\ Running(c) /\ ~ClientStep(c) => UNCHANGED cpc[c]

\* The safety half of ClientTerminates, on any network, with restarts and
\* strangers: a client takes two steps at most once it has been started.
THEOREM ReceivesRunOutCorrect == Spec => [][ReceivesRunOut]_vars
<1>1. ASSUME TypeOK, Next, NEW c \in Client
      PROVE  /\ Running(c) <=> ReceivesLeft(c) > 0
             /\ Running(c) /\ ClientStep(c) => ReceivesLeft(c)' < ReceivesLeft(c)
             /\ Running(c) /\ ~ClientStep(c) => UNCHANGED cpc[c]
  <2>1. Running(c) <=> ReceivesLeft(c) > 0
    BY DEF Running, ReceivesLeft
  <2>2. ASSUME Running(c), ClientStep(c)
        PROVE  ReceivesLeft(c)' < ReceivesLeft(c)
    <3>1. cpc[c] \in {"offer", "ack"} /\ cpc \in [Client -> ClientState]
      BY <1>1, <2>2 DEF Running, TypeOK
    <3>2. CASE Start(c) \/ BindFails(c)
      BY <3>1, <3>2 DEF Start, BindFails
    <3>3. CASE ReceiveFails(c)
      BY <3>1, <3>3 DEF ReceiveFails, ReceivesLeft
    <3>4. ASSUME NEW packet \in toClient, HandleOffer(c, packet)
          PROVE  ReceivesLeft(c)' < ReceivesLeft(c)
      BY <3>1, <3>4 DEF HandleOffer, ReceivesLeft
    <3>5. ASSUME NEW packet \in toClient, HandleAck(c, packet)
          PROVE  ReceivesLeft(c)' < ReceivesLeft(c)
      BY <3>1, <3>5 DEF HandleAck, ReceivesLeft
    <3> QED
      BY <2>2, <3>2, <3>3, <3>4, <3>5 DEF ClientStep
  <2>3. ASSUME ~ClientStep(c)
        PROVE  UNCHANGED cpc[c]
    <3>1. CASE ServerStep
      BY <3>1 DEF ServerStep, client
    <3>2. CASE Stray
      BY <3>2 DEF Stray, client
    <3>3. ASSUME NEW d \in Client, ClientStep(d)
          PROVE  UNCHANGED cpc[c]
      <4>1. c # d /\ cpc \in [Client -> ClientState]
        BY <1>1, <2>3, <3>3 DEF TypeOK
      <4>2. CASE Start(d) \/ BindFails(d) \/ ReceiveFails(d)
        BY <4>1, <4>2 DEF Start, BindFails, ReceiveFails
      <4>3. ASSUME NEW packet \in toClient, HandleOffer(d, packet)
            PROVE  UNCHANGED cpc[c]
        BY <4>1, <4>3 DEF HandleOffer
      <4>4. ASSUME NEW packet \in toClient, HandleAck(d, packet)
            PROVE  UNCHANGED cpc[c]
        BY <4>1, <4>4 DEF HandleAck
      <4> QED
        BY <3>3, <4>2, <4>3, <4>4 DEF ClientStep
    <3> QED
      BY <1>1, <3>1, <3>2, <3>3 DEF Next
  <2> QED
    BY <2>1, <2>2, <2>3
<1>2. TypeOK /\ [Next]_vars => [ReceivesRunOut]_vars
  BY <1>1 DEF ReceivesRunOut
<1> QED
  BY <1>2, TypeCorrect, PTL DEF Spec
=============================================================================
