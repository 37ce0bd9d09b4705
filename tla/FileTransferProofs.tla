------------------------- MODULE FileTransferProofs -------------------------
(***************************************************************************)
(* Proofs about FileTransfer for every set of clients, all file lengths,   *)
(* any number of attempts, simulated losses and restarts, on a timely and  *)
(* an untimely network. Safety on any network assumes that no endpoint is  *)
(* used twice (FileMixed.cfg shows what happens otherwise), or not for     *)
(* files of different lengths. On a timely network, last section,          *)
(* endpoints may be used again.                                            *)
(***************************************************************************)
EXTENDS FileTransfer, TLAPS

-----------------------------------------------------------------------------
(* Types *)

\* What is known of a packet.
LEMMA PacketFacts ==
  ASSUME NEW p \in Packet
  PROVE  /\ p.transfer \in Transfer
         /\ p.seq \in Slots(p.transfer)
         /\ p.seq \in Nat
         /\ Key(p) = EndpointOf[p.transfer]
         /\ Key(p) \in Endpoint
BY EndpointAssumption, TotalAssumption DEF Packet, Slots, Key

\* Sequence numbers are natural numbers.
LEMMA SlotsFacts == \A t \in Transfer : Slots(t) \subseteq Nat
BY TotalAssumption DEF Slots

\* The map of a server that starts has no endpoint.
LEMMA EmptyMapFacts == DOMAIN EmptyMap = {}
BY DEF EmptyMap

\* The initial state has its types.
LEMMA TypeInit == Init => TypeOK
<1> SUFFICES ASSUME Init
             PROVE  TypeOK
  OBVIOUS
<1>1. /\ toReceiver \subseteq Packet
      /\ toSender \subseteq Ack
      /\ spc \in [Transfer -> SenderState]
      /\ index \in [Transfer -> Nat]
      /\ \A t \in Transfer : ~Sending(t)
      /\ acked \in [Transfer -> SUBSET Nat]
  BY DEF Init, SenderInit, SenderState, Sending
<1>2. retries \in [Transfer -> 0 .. MAX_RETRIES - 1]
  BY RetriesAssumption DEF Init, SenderInit
<1>3. DOMAIN client_data = {} /\ DOMAIN saved = {} /\ DOMAIN verdict = {}
  BY EmptyMapFacts DEF Init, ReceiverInit
<1>4. lost_packets \in 0 .. packet_loss_count /\ restarts \in 0 .. MaxRestarts
  BY RestartAssumption, LossAssumption DEF Init, ReceiverInit
<1>5. undefined \in BOOLEAN
  BY DEF Init, ReceiverInit
<1> QED
  BY <1>1, <1>2, <1>3, <1>4, <1>5 DEF TypeOK

\* Sending a packet keeps the types,
LEMMA SendPacketType ==
  ASSUME TypeOK, NEW t \in Transfer, NEW i \in Slots(t), SendPacket(t, i)
  PROVE  toReceiver' \subseteq Packet
<1>1. [transfer |-> t, seq |-> i] \in Packet
  BY DEF Packet
<1> QED
  BY <1>1 DEF TypeOK, SendPacket

\* The conjuncts of the type invariant that a step of the sender may disturb.
SenderTypeOK ==
  /\ toReceiver \subseteq Packet
  /\ spc \in [Transfer -> SenderState]
  /\ index \in [Transfer -> Nat]
  /\ \A t \in Transfer : Sending(t) => index[t] \in Slots(t)
  /\ retries \in [Transfer -> 0 .. MAX_RETRIES - 1]

\* ... as does going on with the next packet,
LEMMA GoToType ==
  ASSUME TypeOK, NEW t \in Transfer, NEW i \in Nat, GoTo(t, i)
  PROVE  SenderTypeOK'
<1>1. toReceiver' \subseteq Packet
  <2>1. CASE i < Total[t]
    <3>1. i \in Slots(t)
      BY <2>1, TotalAssumption DEF Slots
    <3> QED
      BY <2>1, <3>1, SendPacketType, TotalAssumption DEF GoTo
  <2>2. CASE ~(i < Total[t])
    BY <2>2 DEF GoTo, TypeOK
  <2> QED
    BY <2>1, <2>2
<1>2. index' \in [Transfer -> Nat] /\ retries' \in [Transfer -> 0 .. MAX_RETRIES - 1]
  BY RetriesAssumption DEF GoTo, TypeOK
<1>3. spc' \in [Transfer -> SenderState]
  BY DEF GoTo, TypeOK, SenderState
<1>4. \A u \in Transfer : Sending(u)' => index'[u] \in Slots(u)
  <2>1. i < Total[t] => i \in Slots(t)
    BY TotalAssumption DEF Slots
  <2>2. Sending(t)' => i < Total[t]
    BY DEF GoTo, TypeOK, Sending
  <2>3. index'[t] = i
    BY DEF GoTo, TypeOK
  <2>4. \A u \in Transfer \ {t} : index'[u] = index[u] /\ (Sending(u)' <=> Sending(u))
    BY DEF GoTo, TypeOK, Sending
  <2> QED
    BY <2>1, <2>2, <2>3, <2>4 DEF TypeOK
<1> QED
  BY <1>1, <1>2, <1>3, <1>4 DEF SenderTypeOK

\* ... or trying again,
LEMMA RetryType ==
  ASSUME TypeOK, NEW t \in Transfer, Sending(t), Retry(t)
  PROVE  SenderTypeOK'
<1>1. CASE retries[t] + 1 < MAX_RETRIES /\ retries' = [retries EXCEPT ![t] = retries[t] + 1]
           /\ SendPacket(t, index[t]) /\ UNCHANGED <<spc, index>>
  <2>1. toReceiver' \subseteq Packet
    BY <1>1, SendPacketType DEF TypeOK
  <2>2. retries' \in [Transfer -> 0 .. MAX_RETRIES - 1]
    BY <1>1, RetriesAssumption DEF TypeOK
  <2> QED
    BY <1>1, <2>1, <2>2 DEF TypeOK, SenderTypeOK, Sending
<1>2. CASE GoTo(t, index[t] + 1)
  <2>1. index[t] + 1 \in Nat
    BY DEF TypeOK
  <2> QED
    BY <1>2, <2>1, GoToType
<1> QED
  BY <1>1, <1>2 DEF Retry

\* ... and so every step of a client.
LEMMA TypeSenderStep ==
  ASSUME TypeOK, NEW t \in Transfer, SenderStep(t)
  PROVE  TypeOK'
<1>1. UNCHANGED receiver
  BY DEF SenderStep
<1>2. SenderTypeOK' /\ toSender' \subseteq Ack /\ acked' \in [Transfer -> SUBSET Nat]
  <2>1. CASE StartSending(t)
    BY <2>1, GoToType DEF StartSending, TypeOK
  <2>2. CASE OpenFails(t)
    BY <2>2 DEF OpenFails, TypeOK, SenderTypeOK, network, SenderState, Sending
  <2>3. ASSUME NEW ack \in toSender, RecvAck(t, ack)
        PROVE  SenderTypeOK' /\ toSender' \subseteq Ack /\ acked' \in [Transfer -> SUBSET Nat]
    <3>1. toSender' \subseteq Ack
      BY <2>3 DEF RecvAck, AfterReceiving, TypeOK
    <3>2. index[t] \in Nat /\ index[t] + 1 \in Nat
      BY DEF TypeOK
    <3>3. acked' \in [Transfer -> SUBSET Nat]
      BY <2>3, <3>2 DEF RecvAck, TypeOK
    <3>4. SenderTypeOK'
      BY <2>3, <3>2, GoToType, RetryType DEF RecvAck
    <3> QED
      BY <3>1, <3>3, <3>4
  <2>4. CASE Timeout(t)
    BY <2>4, RetryType DEF Timeout, TypeOK
  <2> QED
    BY <2>1, <2>2, <2>3, <2>4 DEF SenderStep
<1> QED
  BY <1>1, <1>2 DEF TypeOK, SenderTypeOK, receiver

\* A vector in bounds stays one of the vectors, and leaves well-formed files.
LEMMA StoredType ==
  ASSUME TypeOK, NEW p \in Packet, ~Overruns(p)
  PROVE  Stored(p) \in Vectors /\ Content(Stored(p)) \subseteq Nat \X Transfer
<1>1. PICK t \in Transfer : Entry(p) \in [Slots(t) -> Transfer \cup {Missing}]
  <2>1. CASE Key(p) \in DOMAIN client_data
    <3>1. client_data[Key(p)] \in Vectors
      BY <2>1 DEF TypeOK
    <3> QED
      BY <2>1, <3>1 DEF Entry, Vectors
  <2>2. CASE Key(p) \notin DOMAIN client_data
    BY <2>2, PacketFacts DEF Entry
  <2> QED
    BY <2>1, <2>2
<1>2. Stored(p) \in [Slots(t) -> Transfer \cup {Missing}]
  BY <1>1, PacketFacts DEF Stored
<1>3. Stored(p) \in Vectors
  BY <1>2 DEF Vectors
<1>4. Content(Stored(p)) \subseteq Nat \X Transfer
  BY <1>2, SlotsFacts DEF Content
<1> QED
  BY <1>3, <1>4

\* The files and what was printed of them, as the type invariant has them.
DiskTypeOK ==
  /\ DOMAIN saved \subseteq Endpoint
  /\ \A e \in DOMAIN saved : saved[e] \subseteq Nat \X Transfer
  /\ DOMAIN verdict \subseteq DOMAIN saved \cup {e \in Endpoint : DiskMayFail}
  /\ \A e \in DOMAIN verdict : verdict[e] \in {"passed", "failed"}

\* What reaches the disk is part of the content.
LEMMA PartsFacts ==
  ASSUME NEW content, NEW part \in Parts(content) \cup {content}
  PROVE  part \subseteq content
BY DEF Parts

\* Saving a vector keeps the types of disk and verdict,
LEMMA SaveType ==
  ASSUME TypeOK, NEW key \in Endpoint, NEW content \in SUBSET (Nat \X Transfer), Save(key, content)
  PROVE  DiskTypeOK'
<1>1. CASE \E part \in Parts(content) \cup {content}, word \in {"passed", "failed"} :
             saved' = Put(saved, key, part) /\ verdict' = Put(verdict, key, word)
  <2>1. PICK part \in Parts(content) \cup {content}, word \in {"passed", "failed"} :
          saved' = Put(saved, key, part) /\ verdict' = Put(verdict, key, word)
    BY <1>1
  <2>2. part \subseteq Nat \X Transfer
    BY PartsFacts
  <2>3. DOMAIN saved' \subseteq Endpoint /\ \A e \in DOMAIN saved' : saved'[e] \subseteq Nat \X Transfer
    BY <2>1, <2>2 DEF TypeOK, Put
  <2>4. /\ DOMAIN verdict' \subseteq DOMAIN saved' \cup {e \in Endpoint : DiskMayFail}
        /\ \A e \in DOMAIN verdict' : verdict'[e] \in {"passed", "failed"}
    BY <2>1 DEF TypeOK, Put
  <2> QED
    BY <2>3, <2>4 DEF DiskTypeOK
<1>2. CASE DiskMayFail /\ saved' = saved
           /\ \E word \in {"passed", "failed"} : verdict' = Put(verdict, key, word)
  BY <1>2 DEF TypeOK, DiskTypeOK, Put
<1> QED
  BY <1>1, <1>2 DEF Save

\* ... as does receiving a packet,
LEMMA TypeReceivePacket ==
  ASSUME TypeOK, NEW p \in toReceiver, ReceivePacket(p), UNCHANGED sender
  PROVE  TypeOK'
<1>1. p \in Packet /\ Key(p) \in Endpoint /\ p.seq \in Nat
  BY PacketFacts DEF TypeOK
<1>2. toReceiver' \subseteq Packet /\ restarts' = restarts
  BY DEF ReceivePacket, AfterReceiving, TypeOK
<1>3. CASE Drop
  BY <1>2, <1>3, LossAssumption DEF Drop, TypeOK, sender, Sending
<1>4. CASE Overrun(p)
  <2>1. toSender' \subseteq Ack
    BY <1>1, <1>4 DEF Overrun, Acknowledge, Ack, TypeOK
  <2> QED
    BY <1>2, <1>4, <2>1 DEF Overrun, TypeOK, sender, Sending
<1>5. CASE Accept(p)
  <2>1. toSender' \subseteq Ack
    BY <1>1, <1>5 DEF Accept, Acknowledge, Ack, TypeOK
  <2>2. Stored(p) \in Vectors /\ Content(Stored(p)) \subseteq Nat \X Transfer
    BY <1>1, <1>5, StoredType DEF Accept
  <2>3. DOMAIN client_data' \subseteq Endpoint /\ \A e \in DOMAIN client_data' : client_data'[e] \in Vectors
    <3>1. CASE client_data' = Erase(client_data, Key(p))
      BY <3>1 DEF TypeOK, Erase
    <3>2. CASE client_data' = Put(client_data, Key(p), Stored(p))
      BY <1>1, <2>2, <3>2 DEF TypeOK, Put
    <3> QED
      BY <1>5, <3>1, <3>2 DEF Accept
  <2>4. DiskTypeOK'
    <3>1. CASE UNCHANGED <<saved, verdict>>
      BY <3>1 DEF TypeOK, DiskTypeOK
    <3>2. CASE Save(Key(p), Content(Stored(p)))
      BY <1>1, <2>2, <3>2, SaveType
    <3> QED
      BY <1>5, <3>1, <3>2 DEF Accept
  <2>5. lost_packets' = lost_packets /\ undefined' = undefined
    BY <1>5 DEF Accept
  <2> QED
    BY <1>2, <2>1, <2>3, <2>4, <2>5 DEF TypeOK, DiskTypeOK, sender, Sending
<1> QED
  BY <1>3, <1>4, <1>5 DEF ReceivePacket

\* ... starting the server again,
LEMMA StartAgainType ==
  ASSUME TypeOK, StartAgain
  PROVE  /\ DOMAIN client_data' = {}
         /\ lost_packets' \in 0 .. packet_loss_count
         /\ restarts' \in 0 .. MaxRestarts
         /\ restarts' > 0
         /\ undefined' = FALSE
<1>1. DOMAIN client_data' = {}
  BY EmptyMapFacts DEF StartAgain
<1>2. lost_packets' \in 0 .. packet_loss_count
  BY LossAssumption DEF StartAgain
<1>3. restarts' \in 0 .. MaxRestarts /\ restarts' > 0
  BY RestartAssumption DEF TypeOK, StartAgain
<1> QED
  BY <1>1, <1>2, <1>3 DEF StartAgain

\* ... between two packets
LEMMA TypeReceiverRestart ==
  ASSUME TypeOK, ReceiverRestart, UNCHANGED sender
  PROVE  TypeOK'
<1>1. /\ DOMAIN client_data' = {}
      /\ lost_packets' \in 0 .. packet_loss_count /\ restarts' \in 0 .. MaxRestarts
      /\ undefined' \in BOOLEAN
  BY StartAgainType DEF ReceiverRestart
<1> QED
  BY <1>1 DEF TypeOK, ReceiverRestart, sender, network, Sending

\* ... or while it writes a file.
LEMMA TypeCrashWhileSaving ==
  ASSUME TypeOK, NEW p \in toReceiver, CrashWhileSaving(p), UNCHANGED sender
  PROVE  TypeOK'
<1>1. p \in Packet /\ Key(p) \in Endpoint /\ p.seq \in Nat
  BY PacketFacts DEF TypeOK
<1>2. toReceiver' \subseteq Packet
  BY DEF CrashWhileSaving, AfterReceiving, TypeOK
<1>3. toSender' \subseteq Ack
  BY <1>1 DEF CrashWhileSaving, Acknowledge, Ack, TypeOK
<1>4. /\ DOMAIN client_data' = {}
      /\ lost_packets' \in 0 .. packet_loss_count /\ restarts' \in 0 .. MaxRestarts
      /\ undefined' \in BOOLEAN
  BY StartAgainType DEF CrashWhileSaving
<1>5. DiskTypeOK'
  <2>1. CASE UNCHANGED <<saved, verdict>>
    BY <2>1 DEF TypeOK, DiskTypeOK
  <2>2. ASSUME NEW part \in Parts(Content(Stored(p))) \cup {Content(Stored(p))},
               saved' = Put(saved, Key(p), part), verdict' = Erase(verdict, Key(p))
        PROVE  DiskTypeOK'
    <3>1. part \subseteq Nat \X Transfer
      BY <1>1, PartsFacts, StoredType DEF CrashWhileSaving
    <3> QED
      BY <1>1, <2>2, <3>1 DEF Put, Erase, TypeOK, DiskTypeOK
  <2> QED
    BY <2>1, <2>2 DEF CrashWhileSaving
<1> QED
  BY <1>2, <1>3, <1>4, <1>5 DEF TypeOK, DiskTypeOK, sender, Sending

\* No step of the system leaves the types.
LEMMA TypeNext == TypeOK /\ [Next]_vars => TypeOK'
<1> SUFFICES ASSUME TypeOK, [Next]_vars
             PROVE  TypeOK'
  OBVIOUS
<1>1. CASE UNCHANGED vars
  BY <1>1 DEF TypeOK, vars, Sending
<1>2. CASE Next
  BY <1>2, TypeSenderStep, TypeReceivePacket, TypeCrashWhileSaving, TypeReceiverRestart
  DEF Next, ReceiverStep
<1> QED
  BY <1>1, <1>2

\* Every variable stays within its type: no client waits for a packet it does
\* not have or counts more than MAX_RETRIES attempts, and no more datagrams
\* are dropped on purpose than the command line allows.
THEOREM TypeCorrect == Spec => []TypeOK
BY TypeInit, TypeNext, PTL DEF Spec

-----------------------------------------------------------------------------
(* The inductive invariant, for distinct endpoints *)

\* Before the first step there is no vector, no file and no acknowledgement.
LEMMA InvInit == Init => IInv
<1> SUFFICES ASSUME Init
             PROVE  IInv
  OBVIOUS
<1>1. /\ DOMAIN client_data = {} /\ DOMAIN saved = {} /\ DOMAIN verdict = {}
      /\ toSender = {} /\ undefined = FALSE
  BY EmptyMapFacts DEF Init, ReceiverInit
<1>2. \A t \in Transfer : acked[t] = {}
  <2>1. acked = [t \in Transfer |-> {}]
    BY DEF Init, SenderInit
  <2> QED
    BY <2>1, Zenon
<1>3. NoOverrun /\ PassedIsSent /\ VectorsOwned /\ FilesOwned
  BY <1>1 DEF NoOverrun, PassedIsSent, VectorsOwned, FilesOwned
<1>4. AcksBacked
  BY <1>1, <1>2 DEF AcksBacked
<1> QED
  BY TypeInit, <1>3, <1>4 DEF IInv

\* The vector a packet is stored in is that of its own transfer, so nothing
\* is accessed out of bounds.
LEMMA StoredOwned ==
  ASSUME Distinct, IInv, NEW p \in Packet, NEW t \in Transfer, t = p.transfer
  PROVE  /\ Entry(p) \in [Slots(t) -> {t, Missing}]
         /\ Stored(p) \in [Slots(t) -> {t, Missing}]
         /\ Stored(p)[p.seq] = t
         /\ \A i \in Slots(t) : IsStored(t, i) => Stored(p)[i] = t
         /\ ~Overruns(p)
<1>1. p.seq \in Slots(t) /\ Key(p) = EndpointOf[t]
  BY PacketFacts
<1>2. Entry(p) \in [Slots(t) -> {t, Missing}]
  <2>1. CASE Key(p) \in DOMAIN client_data
    <3>1. PICK u \in Transfer : EndpointOf[u] = Key(p) /\ client_data[Key(p)] \in [Slots(u) -> {u, Missing}]
      BY <2>1 DEF IInv, VectorsOwned
    <3>2. u = t
      BY <1>1, <3>1 DEF Distinct
    <3> QED
      BY <2>1, <3>1, <3>2 DEF Entry
  <2>2. CASE Key(p) \notin DOMAIN client_data
    BY <2>2 DEF Entry
  <2> QED
    BY <2>1, <2>2
<1>3. Stored(p) \in [Slots(t) -> {t, Missing}] /\ Stored(p)[p.seq] = t
  BY <1>1, <1>2 DEF Stored
<1>4. ASSUME NEW i \in Slots(t), IsStored(t, i)
      PROVE  Stored(p)[i] = t
  <2>1. Entry(p)[i] = t
    BY <1>1, <1>4 DEF IsStored, Entry
  <2> QED
    BY <1>1, <1>2, <2>1 DEF Stored
<1>5. ~Overruns(p)
  BY <1>1, <1>2 DEF Overruns
<1> QED
  BY <1>2, <1>3, <1>4, <1>5

\* A change of one endpoint's vector, file and verdict only.
OnlyAt(e) ==
  /\ \/ UNCHANGED client_data
     \/ client_data' = Erase(client_data, e)
     \/ \E v : client_data' = Put(client_data, e, v)
  /\ saved' = saved \/ \E c : saved' = Put(saved, e, c)
  /\ \/ UNCHANGED verdict
     \/ verdict' = Erase(verdict, e)
     \/ \E w : verdict' = Put(verdict, e, w)

\* Nothing changes for a transfer when only another endpoint's state does.
LEMMA OthersKept ==
  ASSUME NEW t \in Transfer, NEW e, EndpointOf[t] # e, OnlyAt(e)
  PROVE  /\ IsSaved(t)' <=> IsSaved(t)
         /\ Failed(t)' <=> Failed(t)
         /\ \A i : IsStored(t, i)' <=> IsStored(t, i)
<1>1. IsSaved(t)' <=> IsSaved(t)
  BY DEF OnlyAt, IsSaved, Put, Whole, Slots
<1>2. Failed(t)' <=> Failed(t)
  BY DEF OnlyAt, Failed, Put, Erase
<1>3. \A i : IsStored(t, i)' <=> IsStored(t, i)
  BY DEF OnlyAt, IsStored, Put, Erase
<1> QED
  BY <1>1, <1>2, <1>3

\* What has to be looked at when a transfer's file is written: that file, and
\* what was printed of it.
LEMMA FileWritten ==
  ASSUME IInv, NEW t \in Transfer, NEW e, e = EndpointOf[t], OnlyAt(e),
         e \in DOMAIN saved' => saved'[e] \subseteq Whole(t),
         e \in DOMAIN verdict' /\ verdict'[e] = "passed" => IsSaved(t)'
  PROVE  PassedIsSent' /\ FilesOwned'
<1>1. PassedIsSent'
  <2> SUFFICES ASSUME NEW k \in DOMAIN verdict', verdict'[k] = "passed"
               PROVE  \E u \in Transfer : EndpointOf[u] = k /\ IsSaved(u)'
    BY DEF PassedIsSent
  <2>1. CASE k = e
    BY <2>1
  <2>2. CASE k # e
    <3>1. k \in DOMAIN verdict /\ verdict[k] = "passed"
      BY <2>2 DEF OnlyAt, Put, Erase
    <3>2. PICK u \in Transfer : EndpointOf[u] = k /\ IsSaved(u)
      BY <3>1 DEF IInv, PassedIsSent
    <3> QED
      BY <2>2, <3>2, OthersKept
  <2> QED
    BY <2>1, <2>2
<1>2. FilesOwned'
  <2> SUFFICES ASSUME NEW k \in DOMAIN saved'
               PROVE  \E u \in Transfer : EndpointOf[u] = k /\ saved'[k] \subseteq Whole(u)
    BY DEF FilesOwned, Whole, Slots
  <2>1. CASE k = e
    BY <2>1
  <2>2. CASE k # e
    <3>1. k \in DOMAIN saved /\ saved'[k] = saved[k]
      BY <2>2 DEF OnlyAt, Put
    <3> QED
      BY <3>1 DEF IInv, FilesOwned
  <2> QED
    BY <2>1, <2>2
<1> QED
  BY <1>1, <1>2

\* However saving a whole file ends, the server knows whether it is there.
LEMMA SaveEffect ==
  ASSUME Distinct, IInv, NEW t \in Transfer, NEW e, e = EndpointOf[t], Save(e, Whole(t))
  PROVE  /\ saved' = saved \/ \E c : saved' = Put(saved, e, c)
         /\ \E w : verdict' = Put(verdict, e, w)
         /\ e \in DOMAIN saved' => saved'[e] \subseteq Whole(t)
         /\ e \in DOMAIN verdict' /\ verdict'[e] \in {"passed", "failed"}
         /\ verdict'[e] = "passed" => IsSaved(t)'
<1>1. e \in DOMAIN saved => saved[e] \subseteq Whole(t)
  BY DEF IInv, FilesOwned, Distinct
<1> DEFINE whole == Whole(t)
<1>2. IsSaved(t)' <=> e \in DOMAIN saved' /\ saved'[e] = whole
  BY DEF IsSaved, Whole, Slots
<1> HIDE DEF whole
<1>3. CASE saved' = Put(saved, e, whole) /\ verdict' = Put(verdict, e, "passed")
  BY <1>2, <1>3 DEF Put, whole
<1>4. CASE /\ \E part \in Parts(whole) \cup {whole} : saved' = Put(saved, e, part)
           /\ verdict' = Put(verdict, e, "failed")
  <2>1. PICK part \in Parts(whole) \cup {whole} : saved' = Put(saved, e, part)
    BY <1>4
  <2>2. part \subseteq whole
    BY PartsFacts
  <2>3. DOMAIN saved' = DOMAIN saved \cup {e} /\ saved'[e] = part
    BY <2>1 DEF Put
  <2>4. e \in DOMAIN verdict' /\ verdict'[e] = "failed"
    BY <1>4 DEF Put
  <2> QED
    BY <1>4, <2>1, <2>2, <2>3, <2>4 DEF whole
<1>5. CASE saved' = saved /\ verdict' = Put(verdict, e, "failed")
  BY <1>1, <1>5 DEF Put, whole
<1>6. CASE /\ saved' = saved /\ e \in DOMAIN saved /\ MayBeAsLong(saved[e], whole)
           /\ verdict' = Put(verdict, e, "passed")
  <2>1. saved[e] = whole
    BY <1>1, <1>6 DEF MayBeAsLong, whole
  <2> QED
    BY <1>1, <1>2, <1>6, <2>1 DEF Put, whole
<1> QED
  BY <1>3, <1>4, <1>5, <1>6 DEF Save, whole

\* The file of a transfer whose last missing packet arrives is whole.
LEMMA CompleteIsWhole ==
  ASSUME Distinct, IInv, NEW p \in Packet, Complete(p)
  PROVE  Content(Stored(p)) = Whole(p.transfer)
<1> DEFINE t == p.transfer
<1>1. t \in Transfer
  BY PacketFacts
<1>2. Entry(p) \in [Slots(t) -> {t, Missing}] /\ Stored(p) \in [Slots(t) -> {t, Missing}]
  BY <1>1, StoredOwned
<1>3. \A i \in Slots(t) : Stored(p)[i] = t
  BY <1>2 DEF Complete
<1>4. t # Missing
  BY <1>1, MissingAssumption
<1> QED
  BY <1>2, <1>3, <1>4 DEF Content, Whole

\* The invariant survives a packet that the server takes,
LEMMA InvAccept ==
  ASSUME Distinct, IInv, TypeOK', NEW p \in Packet, Accept(p), UNCHANGED <<sender, restarts>>
  PROVE  IInv'
<1> DEFINE t == p.transfer
           e == Key(p)
<1>1. t \in Transfer /\ p.seq \in Slots(t) /\ e = EndpointOf[t]
  BY PacketFacts
<1>2. /\ Stored(p) \in [Slots(t) -> {t, Missing}]
      /\ Stored(p)[p.seq] = t
      /\ \A i \in Slots(t) : IsStored(t, i) => Stored(p)[i] = t
      /\ Entry(p) \in [Slots(t) -> {t, Missing}]
  BY <1>1, StoredOwned
<1>3. toSender' = toSender \cup {[to |-> e, seq |-> p.seq]} /\ undefined' = undefined
  BY DEF Accept, Acknowledge
<1>4. Complete(p) <=> \A i \in Slots(t) : Stored(p)[i] # Missing
  BY <1>2 DEF Complete
<1>5. Complete(p) => Save(e, Whole(t))
  BY CompleteIsWhole DEF Accept
<1> HIDE DEF t, e
<1>6. OnlyAt(e)
  BY <1>1, <1>5, SaveEffect DEF Accept, OnlyAt, e
<1>7. ASSUME NEW u \in Transfer, u # t
      PROVE  /\ EndpointOf[u] # e
             /\ IsSaved(u) => IsSaved(u)'
             /\ Failed(u) => Failed(u)'
             /\ \A i : IsStored(u, i) => IsStored(u, i)'
  <2>1. EndpointOf[u] # e
    BY <1>1, <1>7 DEF Distinct
  <2> QED
    BY <2>1, <1>6, OthersKept
<1>8. ASSUME NEW u \in Transfer, u # t, NEW i \in Slots(u), restarts = 0,
             i \in acked'[u] \/ [to |-> EndpointOf[u], seq |-> i] \in toSender'
      PROVE  IsSaved(u)' \/ Failed(u)' \/ IsStored(u, i)'
  <2>1. [to |-> EndpointOf[u], seq |-> i] \in toSender' => [to |-> EndpointOf[u], seq |-> i] \in toSender
    BY <1>3, <1>7, <1>8
  <2>2. acked' = acked
    BY DEF sender
  <2>3. IsSaved(u) \/ Failed(u) \/ IsStored(u, i)
    BY <1>8, <2>1, <2>2 DEF IInv, AcksBacked
  <2> QED
    BY <1>7, <1>8, <2>3
<1>9. NoOverrun'
  BY <1>3 DEF IInv, NoOverrun
<1>10. CASE Complete(p)
  <2>1. client_data' = Erase(client_data, e)
    BY <1>10 DEF Accept, e
  <2>2. PassedIsSent' /\ FilesOwned'
    BY <1>1, <1>5, <1>6, <1>10, SaveEffect, FileWritten
  <2>3. IsSaved(t)' \/ Failed(t)'
    BY <1>1, <1>5, <1>10, SaveEffect DEF Failed
  <2>4. VectorsOwned'
    BY <2>1 DEF IInv, VectorsOwned, Erase
  <2>5. AcksBacked'
    BY <1>8, <2>3 DEF AcksBacked
  <2> QED
    BY <1>9, <2>2, <2>4, <2>5 DEF IInv
<1>11. CASE ~Complete(p)
  <2>1. saved' = saved /\ verdict' = verdict /\ client_data' = Put(client_data, e, Stored(p))
    BY <1>11 DEF Accept, e
  <2>2. PassedIsSent' /\ FilesOwned'
    BY <2>1 DEF IInv, PassedIsSent, FilesOwned, IsSaved, Whole, Slots
  <2>3. VectorsOwned'
    <3> SUFFICES ASSUME NEW k \in DOMAIN client_data'
                 PROVE  \E u \in Transfer : /\ EndpointOf[u] = k
                                            /\ client_data'[k] \in [Slots(u) -> {u, Missing}]
                                            /\ \E i \in Slots(u) : client_data'[k][i] = Missing
      BY DEF VectorsOwned
    <3>1. CASE k = e
      <4>1. client_data'[k] = Stored(p)
        BY <2>1, <3>1 DEF Put
      <4>2. \E i \in Slots(t) : Stored(p)[i] = Missing
        BY <1>4, <1>11
      <4> QED
        BY <1>1, <1>2, <3>1, <4>1, <4>2
    <3>2. CASE k # e
      BY <2>1, <3>2 DEF Put, IInv, VectorsOwned
    <3> QED
      BY <3>1, <3>2
  <2>4. ASSUME NEW i \in Slots(t), restarts = 0,
               i \in acked'[t] \/ [to |-> EndpointOf[t], seq |-> i] \in toSender'
        PROVE  IsSaved(t)' \/ Failed(t)' \/ IsStored(t, i)'
    <3>1. CASE i = p.seq
      BY <1>1, <1>2, <2>1, <3>1 DEF IsStored, Put
    <3>2. CASE i # p.seq
      <4>1. IsSaved(t) \/ Failed(t) \/ IsStored(t, i)
        BY <1>1, <1>3, <2>4, <3>2 DEF IInv, AcksBacked, sender
      <4>2. (IsSaved(t) => IsSaved(t)') /\ (Failed(t) => Failed(t)')
        BY <2>1 DEF IsSaved, Failed
      <4>3. IsStored(t, i) => IsStored(t, i)'
        BY <1>1, <1>2, <2>1 DEF IsStored, Put
      <4> QED
        BY <4>1, <4>2, <4>3
    <3> QED
      BY <3>1, <3>2
  <2>5. AcksBacked'
    BY <1>8, <2>4 DEF AcksBacked
  <2> QED
    BY <1>9, <2>2, <2>3, <2>5 DEF IInv
<1> QED
  BY <1>10, <1>11

\* ... every packet it receives, dropped ones included,
LEMMA InvReceivePacket ==
  ASSUME Distinct, IInv, NEW p \in toReceiver, ReceivePacket(p), UNCHANGED sender
  PROVE  IInv'
<1>1. p \in Packet /\ TypeOK'
  BY TypeReceivePacket DEF IInv, TypeOK
<1>2. ~Overruns(p)
  <2>1. p.transfer \in Transfer
    BY <1>1, PacketFacts
  <2> QED
    BY <1>1, <2>1, StoredOwned
<1>3. restarts' = restarts
  BY DEF ReceivePacket
<1>4. CASE Drop
  BY <1>1, <1>3, <1>4
  DEF Drop, IInv, NoOverrun, PassedIsSent, VectorsOwned, FilesOwned, AcksBacked, IsSaved, Failed,
      IsStored, sender
<1>5. CASE Accept(p)
  BY <1>1, <1>3, <1>5, InvAccept
<1> QED
  BY <1>2, <1>4, <1>5 DEF ReceivePacket, Overrun

\* ... a restart between two packets,
LEMMA InvReceiverRestart ==
  ASSUME IInv, ReceiverRestart, UNCHANGED sender
  PROVE  IInv'
<1>1. TypeOK'
  BY TypeReceiverRestart DEF IInv
<1>2. restarts' # 0 /\ DOMAIN client_data' = {} /\ undefined' = FALSE
  BY StartAgainType DEF IInv, ReceiverRestart
<1>3. AcksBacked' /\ VectorsOwned' /\ NoOverrun'
  BY <1>2 DEF AcksBacked, VectorsOwned, NoOverrun
<1>4. PassedIsSent' /\ FilesOwned'
  BY DEF ReceiverRestart, IInv, PassedIsSent, FilesOwned, IsSaved, Whole, Slots
<1> QED
  BY <1>1, <1>3, <1>4 DEF IInv

\* What a crash leaves of the file being written, and of what was printed of it.
LEMMA CrashEffect ==
  ASSUME Distinct, IInv, NEW p \in Packet, CrashWhileSaving(p)
  PROVE  \/ UNCHANGED <<saved, verdict>>
         \/ /\ \E part : saved' = Put(saved, Key(p), part) /\ part \subseteq Whole(p.transfer)
            /\ verdict' = Erase(verdict, Key(p))
<1> SUFFICES ASSUME NEW part \in Parts(Content(Stored(p))) \cup {Content(Stored(p))},
                    saved' = Put(saved, Key(p), part)
             PROVE  part \subseteq Whole(p.transfer)
  BY DEF CrashWhileSaving
<1> QED
  BY PartsFacts, CompleteIsWhole DEF CrashWhileSaving

\* ... a crash while a file is written,
LEMMA InvCrashWhileSaving ==
  ASSUME Distinct, IInv, NEW p \in toReceiver, CrashWhileSaving(p), UNCHANGED sender
  PROVE  IInv'
<1> DEFINE t == p.transfer
           e == EndpointOf[t]
<1>1. p \in Packet /\ TypeOK' /\ t \in Transfer /\ Key(p) = e
  BY TypeCrashWhileSaving, PacketFacts DEF IInv, TypeOK
<1>2. restarts' # 0 /\ DOMAIN client_data' = {} /\ undefined' = FALSE
  BY StartAgainType DEF IInv, CrashWhileSaving
<1>3. AcksBacked' /\ VectorsOwned' /\ NoOverrun'
  BY <1>2 DEF AcksBacked, VectorsOwned, NoOverrun
<1>4. CASE UNCHANGED <<saved, verdict>>
  <2>1. PassedIsSent' /\ FilesOwned'
    BY <1>4 DEF IInv, PassedIsSent, FilesOwned, IsSaved, Whole, Slots
  <2> QED
    BY <1>1, <1>3, <2>1 DEF IInv
<1>5. ASSUME NEW part, saved' = Put(saved, e, part), part \subseteq Whole(t),
             verdict' = Erase(verdict, e)
      PROVE  IInv'
  <2> HIDE DEF t, e
  <2>1. PassedIsSent'
    <3> SUFFICES ASSUME NEW k \in DOMAIN verdict', verdict'[k] = "passed"
                 PROVE  \E u \in Transfer : EndpointOf[u] = k /\ IsSaved(u)'
      BY DEF PassedIsSent
    <3>1. k # e /\ k \in DOMAIN verdict /\ verdict[k] = "passed"
      BY <1>5 DEF Erase
    <3>2. PICK u \in Transfer : EndpointOf[u] = k /\ IsSaved(u)
      BY <3>1 DEF IInv, PassedIsSent
    <3>3. IsSaved(u)'
      BY <1>5, <3>1, <3>2 DEF IsSaved, Put, Whole, Slots
    <3> QED
      BY <3>2, <3>3
  <2>2. FilesOwned'
    <3> SUFFICES ASSUME NEW k \in DOMAIN saved'
                 PROVE  \E u \in Transfer : EndpointOf[u] = k /\ saved'[k] \subseteq Whole(u)
      BY DEF FilesOwned, Whole, Slots
    <3>1. CASE k = e
      BY <1>1, <1>5, <3>1 DEF Put, t, e
    <3>2. CASE k # e
      BY <1>5, <3>2 DEF Put, IInv, FilesOwned
    <3> QED
      BY <3>1, <3>2
  <2> QED
    BY <1>1, <1>3, <2>1, <2>2 DEF IInv
<1> QED
  BY <1>1, <1>4, <1>5, CrashEffect

\* A client reports a packet as sent only on its acknowledgement.
LEMMA AckedBySender ==
  ASSUME TypeOK, NEW t \in Transfer, SenderStep(t)
  PROVE  /\ toSender' \subseteq toSender
         /\ \A u \in Transfer : \A i \in acked'[u] :
              i \in acked[u] \/ [to |-> EndpointOf[u], seq |-> i] \in toSender
<1>1. CASE StartSending(t) \/ OpenFails(t) \/ Timeout(t)
  BY <1>1 DEF StartSending, OpenFails, Timeout, network
<1>2. ASSUME NEW ack \in toSender, RecvAck(t, ack)
      PROVE  /\ toSender' \subseteq toSender
             /\ \A u \in Transfer : \A i \in acked'[u] :
                  i \in acked[u] \/ [to |-> EndpointOf[u], seq |-> i] \in toSender
  <2>1. toSender' \subseteq toSender
    BY <1>2 DEF RecvAck, AfterReceiving
  <2>2. CASE acked' = acked
    BY <2>1, <2>2
  <2>3. CASE ack.seq = index[t] /\ acked' = [acked EXCEPT ![t] = @ \cup {index[t]}]
    <3>1. ack = [to |-> EndpointOf[t], seq |-> index[t]]
      BY <1>2, <2>3 DEF RecvAck, TypeOK, Ack
    <3> QED
      BY <2>1, <2>3, <3>1 DEF TypeOK
  <2> QED
    BY <1>2, <2>2, <2>3 DEF RecvAck
<1> QED
  BY <1>1, <1>2 DEF SenderStep

\* ... and every step of a client.
LEMMA InvSenderStep ==
  ASSUME IInv, NEW t \in Transfer, SenderStep(t)
  PROVE  IInv'
<1>1. TypeOK' /\ UNCHANGED receiver
  BY TypeSenderStep DEF IInv, SenderStep
<1>2. NoOverrun' /\ PassedIsSent' /\ VectorsOwned' /\ FilesOwned'
  BY <1>1 DEF IInv, NoOverrun, PassedIsSent, VectorsOwned, FilesOwned, IsSaved, Whole, Slots, receiver
<1>3. AcksBacked'
  <2> SUFFICES ASSUME restarts = 0, NEW u \in Transfer, NEW i \in Slots(u),
                      i \in acked'[u] \/ [to |-> EndpointOf[u], seq |-> i] \in toSender'
               PROVE  IsSaved(u)' \/ Failed(u)' \/ IsStored(u, i)'
    BY <1>1 DEF AcksBacked, receiver
  <2>1. i \in acked[u] \/ [to |-> EndpointOf[u], seq |-> i] \in toSender
    BY AckedBySender DEF IInv
  <2>2. IsSaved(u) \/ Failed(u) \/ IsStored(u, i)
    BY <2>1 DEF IInv, AcksBacked
  <2> QED
    BY <1>1, <2>2 DEF IsSaved, Failed, IsStored, receiver
<1> QED
  BY <1>1, <1>2, <1>3 DEF IInv

\* With distinct endpoints the invariant is inductive.
LEMMA InvNext == Distinct /\ IInv /\ [Next]_vars => IInv'
<1> SUFFICES ASSUME Distinct, IInv, [Next]_vars
             PROVE  IInv'
  OBVIOUS
<1>1. CASE UNCHANGED vars
  <2>1. TypeOK'
    BY <1>1, TypeNext DEF IInv
  <2> QED
    BY <1>1, <2>1
    DEF vars, IInv, NoOverrun, PassedIsSent, VectorsOwned, FilesOwned, AcksBacked, IsSaved, Failed, IsStored
<1>2. CASE Next
  BY <1>2, InvReceivePacket, InvCrashWhileSaving, InvReceiverRestart, InvSenderStep
  DEF Next, ReceiverStep
<1> QED
  BY <1>1, <1>2

\* Vectors, files, acknowledgements and reports always agree.
THEOREM InvCorrect ==
  ASSUME Distinct
  PROVE  Spec => []IInv
<1>1. IInv /\ [Next]_vars => IInv'
  BY InvNext
<1> QED
  BY <1>1, InvInit, PTL DEF Spec

-----------------------------------------------------------------------------
(* The properties *)

\* Whatever is lost, repeated or late, and whatever the disk or a crash leaves of
\* a file, the integrity check passes for whole files only.
THEOREM PassedIsSentCorrect ==
  ASSUME Distinct
  PROVE  Spec => []PassedIsSent
<1>1. IInv => PassedIsSent
  BY DEF IInv
<1> QED
  BY <1>1, InvCorrect, PTL

\* Runs of the client that were given one endpoint have files of as many packets:
\* one run each, or the same file sent again.
SameLength == \A t, u \in Transfer : EndpointOf[t] = EndpointOf[u] => Total[t] = Total[u]

\* Every vector has a slot for each packet that is stored in it.
VectorsFit ==
  \A t \in Transfer :
    EndpointOf[t] \in DOMAIN client_data => DOMAIN client_data[EndpointOf[t]] = Slots(t)

\* A vector is created by a packet of its endpoint, and as long as that says.
LEMMA FitNext ==
  ASSUME SameLength, TypeOK, VectorsFit, NoOverrun, [Next]_vars
  PROVE  VectorsFit' /\ NoOverrun'
<1>1. ASSUME UNCHANGED client_data
      PROVE  VectorsFit'
  BY <1>1 DEF VectorsFit, Slots
<1>2. ASSUME StartAgain
      PROVE  VectorsFit' /\ NoOverrun'
  BY <1>2, EmptyMapFacts DEF StartAgain, VectorsFit, NoOverrun
<1>3. ASSUME NEW p \in toReceiver
      PROVE  ~Overruns(p) /\ \A t \in Transfer : EndpointOf[t] = Key(p) => DOMAIN Entry(p) = Slots(t)
  <2>1. p.transfer \in Transfer /\ Key(p) = EndpointOf[p.transfer] /\ p.seq \in Slots(p.transfer)
    BY PacketFacts DEF TypeOK
  <2>2. \A t \in Transfer : EndpointOf[t] = Key(p) => Slots(t) = Slots(p.transfer)
    BY <2>1 DEF SameLength, Slots
  <2>3. DOMAIN Entry(p) = Slots(p.transfer)
    BY <2>1 DEF Entry, VectorsFit
  <2> QED
    BY <2>1, <2>2, <2>3 DEF Overruns
<1>4. ASSUME NEW p \in toReceiver, ReceivePacket(p)
      PROVE  VectorsFit' /\ NoOverrun'
  <2>1. ~Overrun(p)
    BY <1>3 DEF Overrun
  <2>2. CASE Drop
    BY <1>1, <2>2 DEF Drop, NoOverrun
  <2>3. CASE Accept(p)
    <3>1. NoOverrun'
      BY <2>3 DEF Accept, NoOverrun
    <3>2. DOMAIN Stored(p) = DOMAIN Entry(p)
      BY DEF Stored
    <3>3. ASSUME client_data' = Erase(client_data, Key(p))
          PROVE  VectorsFit'
      BY <3>3 DEF Erase, VectorsFit, Slots
    <3>4. ASSUME client_data' = Put(client_data, Key(p), Stored(p))
          PROVE  VectorsFit'
      <4> SUFFICES ASSUME NEW t \in Transfer, EndpointOf[t] \in DOMAIN client_data'
                   PROVE  DOMAIN client_data'[EndpointOf[t]] = Slots(t)
        BY DEF VectorsFit, Slots
      <4>1. CASE EndpointOf[t] = Key(p)
        BY <1>3, <3>2, <3>4, <4>1 DEF Put
      <4>2. CASE EndpointOf[t] # Key(p)
        BY <3>4, <4>2 DEF Put, VectorsFit
      <4> QED
        BY <4>1, <4>2
    <3> QED
      BY <2>3, <3>1, <3>3, <3>4 DEF Accept
  <2> QED
    BY <1>4, <2>1, <2>2, <2>3 DEF ReceivePacket
<1>5. ASSUME NEW t \in Transfer, SenderStep(t)
      PROVE  VectorsFit' /\ NoOverrun'
  BY <1>1, <1>5 DEF SenderStep, receiver, NoOverrun
<1>6. CASE UNCHANGED vars
  BY <1>1, <1>6 DEF vars, NoOverrun
<1> QED
  BY <1>2, <1>4, <1>5, <1>6 DEF Next, ReceiverStep, ReceiverRestart, CrashWhileSaving

\* The server never leaves a vector of client_data, whatever is lost, late or
\* left over, unless an endpoint is used for files of different lengths.
THEOREM NoOverrunCorrect ==
  ASSUME SameLength
  PROVE  Spec => []NoOverrun
<1>1. Init => VectorsFit /\ NoOverrun
  BY EmptyMapFacts DEF Init, ReceiverInit, VectorsFit, NoOverrun
<1>2. TypeOK /\ VectorsFit /\ NoOverrun /\ [Next]_vars => VectorsFit' /\ NoOverrun'
  BY FitNext
<1> QED
  BY <1>1, <1>2, TypeCorrect, PTL DEF Spec

\* All packets acknowledged, the last of them was stored by the step that saved the file.
LEMMA ReportedSaved == Distinct /\ IInv => ReportedIsSaved
<1> SUFFICES ASSUME Distinct, IInv, restarts = 0, NEW t \in Transfer, Reported(t)
             PROVE  IsSaved(t) \/ Failed(t)
  BY DEF ReportedIsSaved
<1>1. \A i \in Slots(t) : IsSaved(t) \/ Failed(t) \/ IsStored(t, i)
  BY DEF IInv, AcksBacked, Reported
<1>2. SUFFICES ASSUME ~IsSaved(t), ~Failed(t)
               PROVE  FALSE
  OBVIOUS
<1> DEFINE v == client_data[EndpointOf[t]]
<1>3. \A i \in Slots(t) : EndpointOf[t] \in DOMAIN client_data /\ v[i] = t
  BY <1>1, <1>2 DEF IsStored
<1>4. 0 \in Slots(t)
  BY TotalAssumption DEF Reported, Slots
<1>5. PICK u \in Transfer : /\ EndpointOf[u] = EndpointOf[t]
                            /\ v \in [Slots(u) -> {u, Missing}]
                            /\ \E i \in Slots(u) : v[i] = Missing
  BY <1>3, <1>4 DEF IInv, VectorsOwned
<1> HIDE DEF v
<1>6. u = t
  BY <1>5 DEF Distinct
<1> QED
  BY <1>3, <1>5, <1>6, MissingAssumption

\* A client that was told every packet was received is right to believe that
\* its file is saved or that the server said it is not, as long as the server
\* was not restarted.
THEOREM ReportedIsSavedCorrect ==
  ASSUME Distinct
  PROVE  Spec => []ReportedIsSaved
<1>1. IInv => ReportedIsSaved
  BY ReportedSaved
<1> QED
  BY <1>1, InvCorrect, PTL

-----------------------------------------------------------------------------
(* The refinement *)

\* The refinement: nothing is delivered before the first step.
LEMMA RefineInit == Init => Delivery!Init
<1> SUFFICES ASSUME Init
             PROVE  Delivery!Init
  OBVIOUS
<1>1. DOMAIN saved = {} /\ DOMAIN verdict = {} /\ restarts = 0
  BY EmptyMapFacts DEF Init, ReceiverInit
<1>2. \A t \in Transfer : spc[t] = "new"
  BY Zenon DEF Init, SenderInit
<1> QED
  BY <1>1, <1>2 DEF Delivery!Init, IsSaved, Failed, Reported

\* A change at the endpoint of one transfer leaves the other files and verdicts.
LEMMA OthersDelivered ==
  ASSUME Distinct, NEW t \in Transfer, OnlyAt(EndpointOf[t])
  PROVE  /\ {u \in Transfer : IsSaved(u)}' \in
              {{u \in Transfer : IsSaved(u)} \cup {t}, {u \in Transfer : IsSaved(u)} \ {t}}
         /\ IsSaved(t)' => {u \in Transfer : IsSaved(u)}' = {u \in Transfer : IsSaved(u)} \cup {t}
         /\ Failed(t)' => {u \in Transfer : Failed(u)}' = {u \in Transfer : Failed(u)} \cup {t}
         /\ ~Failed(t)' => {u \in Transfer : Failed(u)}' = {u \in Transfer : Failed(u)} \ {t}
<1>1. \A u \in Transfer \ {t} : (IsSaved(u)' <=> IsSaved(u)) /\ (Failed(u)' <=> Failed(u))
  <2> SUFFICES ASSUME NEW u \in Transfer \ {t}
               PROVE  (IsSaved(u)' <=> IsSaved(u)) /\ (Failed(u)' <=> Failed(u))
    OBVIOUS
  <2>1. EndpointOf[u] # EndpointOf[t]
    BY DEF Distinct
  <2> QED
    BY <2>1, OthersKept
<1> DEFINE S == {u \in Transfer : IsSaved(u)}
           F == {u \in Transfer : Failed(u)}
<1>2. IsSaved(t)' => S' = S \cup {t}
  BY <1>1
<1>3. ~IsSaved(t)' => S' = S \ {t}
  BY <1>1
<1>4. (Failed(t)' => F' = F \cup {t}) /\ (~Failed(t)' => F' = F \ {t})
  BY <1>1
<1> HIDE DEF S, F
<1>5. S' \in {S \cup {t}, S \ {t}}
  BY <1>2, <1>3
<1> QED
  BY <1>2, <1>4, <1>5 DEF S, F

\* A packet brings at most the file of its own transfer to the disk, or the
\* word that it could not be saved.
LEMMA RefineReceivePacket ==
  ASSUME Distinct, IInv, NEW p \in toReceiver, ReceivePacket(p), UNCHANGED sender
  PROVE  Delivery!Next \/ UNCHANGED Delivery!delivery
<1> DEFINE t == p.transfer
           e == EndpointOf[t]
<1>1. p \in Packet /\ t \in Transfer /\ Key(p) = e
  BY PacketFacts DEF IInv, TypeOK
<1>2. UNCHANGED {u \in Transfer : Reported(u)} /\ restarts' = restarts
  BY DEF Reported, sender, ReceivePacket
<1>3. CASE UNCHANGED <<saved, verdict>>
  <2>1. UNCHANGED {u \in Transfer : IsSaved(u)} /\ UNCHANGED {u \in Transfer : Failed(u)}
    BY <1>3 DEF IsSaved, Failed
  <2> QED
    BY <1>2, <2>1 DEF Delivery!delivery
<1>4. CASE Accept(p) /\ Complete(p)
  <2>1. Save(e, Whole(t))
    BY <1>1, <1>4, CompleteIsWhole DEF Accept
  <2>2. client_data' = Erase(client_data, e)
    BY <1>1, <1>4 DEF Accept
  <2>3. OnlyAt(e)
    BY <1>1, <2>1, <2>2, SaveEffect DEF OnlyAt
  <2>4. Failed(t)' \/ (~Failed(t)' /\ IsSaved(t)')
    BY <1>1, <2>1, SaveEffect DEF Failed
  <2>5. CASE Failed(t)'
    <3>1. Delivery!Fail(t)
      BY <1>1, <1>2, <2>3, <2>5, OthersDelivered DEF Delivery!Fail
    <3> QED
      BY <1>1, <3>1 DEF Delivery!Next
  <2>6. CASE ~Failed(t)' /\ IsSaved(t)'
    <3>1. Delivery!Deliver(t)
      BY <1>1, <1>2, <2>3, <2>6, OthersDelivered DEF Delivery!Deliver
    <3> QED
      BY <1>1, <3>1 DEF Delivery!Next
  <2> QED
    BY <2>4, <2>5, <2>6
<1> QED
  BY <1>3, <1>4 DEF ReceivePacket, Drop, Accept, Overrun

\* A crash while a file is written touches no other.
LEMMA RefineCrashWhileSaving ==
  ASSUME Distinct, IInv, NEW p \in toReceiver, CrashWhileSaving(p), UNCHANGED sender
  PROVE  Delivery!Next
<1> DEFINE t == p.transfer
           e == EndpointOf[t]
<1>1. p \in Packet /\ t \in Transfer /\ Key(p) = e
  BY PacketFacts DEF IInv, TypeOK
<1>2. UNCHANGED {u \in Transfer : Reported(u)}
  BY DEF Reported, sender
<1>3. (restarts > 0)' = TRUE
  BY StartAgainType DEF IInv, CrashWhileSaving
<1>4. CASE UNCHANGED <<saved, verdict>>
  <2>1. UNCHANGED {u \in Transfer : IsSaved(u)} /\ UNCHANGED {u \in Transfer : Failed(u)}
    BY <1>4 DEF IsSaved, Failed
  <2>2. Delivery!Crash
    BY <1>2, <1>3, <2>1 DEF Delivery!Crash
  <2> QED
    BY <2>2 DEF Delivery!Next
<1>5. CASE (\E part : saved' = Put(saved, e, part)) /\ verdict' = Erase(verdict, e)
  <2>1. \A u \in Transfer \ {t} : (IsSaved(u)' <=> IsSaved(u)) /\ (Failed(u)' <=> Failed(u))
    BY <1>1, <1>5 DEF Distinct, IsSaved, Failed, Put, Erase, Whole, Slots
  <2>2. ~Failed(t)'
    BY <1>5 DEF Failed, Erase
  <2>3. {u \in Transfer : Failed(u)}' = {u \in Transfer : Failed(u)} \ {t}
    BY <2>1, <2>2
  <2>4. {u \in Transfer : IsSaved(u)}' \in
          {{u \in Transfer : IsSaved(u)} \cup {t}, {u \in Transfer : IsSaved(u)} \ {t}}
    <3>1. IsSaved(t)' => {u \in Transfer : IsSaved(u)}' = {u \in Transfer : IsSaved(u)} \cup {t}
      BY <1>1, <2>1
    <3>2. ~IsSaved(t)' => {u \in Transfer : IsSaved(u)}' = {u \in Transfer : IsSaved(u)} \ {t}
      BY <1>1, <2>1
    <3> QED
      BY <3>1, <3>2
  <2>5. Delivery!CrashIn(t)
    BY <1>2, <1>3, <2>3, <2>4 DEF Delivery!CrashIn
  <2> QED
    BY <1>1, <2>5 DEF Delivery!Next
<1> QED
  BY <1>1, <1>4, <1>5, CrashEffect

\* A step of a client makes at most that client report, and a client that has
\* ended does nothing more.
LEMMA RefineSenderStep ==
  ASSUME IInv, ReportedIsSaved', NEW t \in Transfer, SenderStep(t)
  PROVE  Delivery!Next \/ UNCHANGED Delivery!delivery
<1> DEFINE reported == {u \in Transfer : Reported(u)}
<1>1. /\ UNCHANGED {u \in Transfer : IsSaved(u)}
      /\ UNCHANGED {u \in Transfer : Failed(u)}
      /\ restarts' = restarts /\ restarts \in Nat
  BY RestartAssumption DEF SenderStep, IsSaved, Failed, receiver, IInv, TypeOK
<1>2. spc[t] # "done"
  BY DEF SenderStep, StartSending, OpenFails, RecvAck, Timeout, Sending
<1>3. \A u \in Transfer \ {t} : spc'[u] = spc[u] /\ acked'[u] = acked[u]
  BY DEF SenderStep, StartSending, OpenFails, RecvAck, Timeout, Retry, GoTo, IInv, TypeOK
<1>4. ~Reported(t) /\ \A u \in Transfer \ {t} : Reported(u)' <=> Reported(u)
  BY <1>2, <1>3 DEF Reported, Slots
<1>5. CASE Reported(t)'
  <2>1. restarts = 0 => IsSaved(t)' \/ Failed(t)'
    BY <1>1, <1>5 DEF ReportedIsSaved
  <2>2. IsSaved(t) \/ Failed(t) \/ restarts > 0
    BY <1>1, <2>1
  <2>3. reported' = reported \cup {t}
    BY <1>4, <1>5
  <2>4. Delivery!Report(t)
    BY <1>1, <2>2, <2>3 DEF Delivery!Report
  <2> QED
    BY <2>4 DEF Delivery!Next
<1>6. CASE ~Reported(t)'
  <2>1. UNCHANGED reported
    BY <1>4, <1>6
  <2> QED
    BY <1>1, <2>1 DEF Delivery!delivery
<1> QED
  BY <1>5, <1>6

\* Every step is a step of the delivery or a stutter.
LEMMA RefineNext ==
  ASSUME Distinct, IInv, ReportedIsSaved', [Next]_vars
  PROVE  Delivery!Next \/ UNCHANGED Delivery!delivery
<1>1. CASE ReceiverRestart /\ UNCHANGED sender
  <2>1. (restarts > 0)' = TRUE
    BY <1>1, StartAgainType DEF IInv, ReceiverRestart
  <2>2. /\ UNCHANGED {u \in Transfer : IsSaved(u)}
        /\ UNCHANGED {u \in Transfer : Failed(u)}
        /\ UNCHANGED {u \in Transfer : Reported(u)}
    BY <1>1 DEF ReceiverRestart, IsSaved, Failed, Reported, sender
  <2>3. Delivery!Crash
    BY <2>1, <2>2 DEF Delivery!Crash
  <2> QED
    BY <2>3 DEF Delivery!Next
<1>2. CASE UNCHANGED vars
  BY <1>2 DEF vars, Delivery!delivery, IsSaved, Failed, Reported
<1> QED
  BY <1>1, <1>2, RefineReceivePacket, RefineCrashWhileSaving, RefineSenderStep
  DEF Next, ReceiverStep

\* With endpoints of their own the clients' files are delivered whole, or the
\* server says they are not, before their clients report them as sent unless
\* the server was restarted; a file once delivered is lost only by writing it
\* again, which the server tells of or dies in.
THEOREM DeliveryCorrect ==
  ASSUME Distinct
  PROVE  Spec => ImplementsDelivery
<1>1. IInv /\ ReportedIsSaved' /\ [Next]_vars => [Delivery!Next]_(Delivery!delivery)
  <2> SUFFICES ASSUME IInv, ReportedIsSaved', [Next]_vars
               PROVE  Delivery!Next \/ UNCHANGED Delivery!delivery
    BY DEF Delivery!delivery
  <2> QED
    BY RefineNext
<1> QED
  BY <1>1, RefineInit, InvCorrect, ReportedIsSavedCorrect, PTL DEF Spec, ImplementsDelivery, Delivery!Spec

\* What every behaviour of the abstract specification keeps, so that the
\* refinement says something of the program: until a crash, a file whose client
\* reported it is on the disk, or the server has said that it is not.
THEOREM DeliveryKeeps == Delivery!Spec => []ReportedIsSaved
<1> DEFINE delivered == {t \in Transfer : IsSaved(t)}
           failed == {t \in Transfer : Failed(t)}
           reported == {t \in Transfer : Reported(t)}
           crashed == restarts > 0
           Kept == ~crashed => reported \subseteq delivered \cup failed
<1>1. Delivery!Init => Kept
  BY DEF Delivery!Init
<1>2. Kept /\ [Delivery!Next]_(Delivery!delivery) => Kept'
  BY DEF Delivery!Next, Delivery!delivery, Delivery!Deliver, Delivery!Fail,
         Delivery!Report, Delivery!Crash, Delivery!CrashIn
<1>3. Kept => ReportedIsSaved
  BY DEF ReportedIsSaved
<1> QED
  BY <1>1, <1>2, <1>3, PTL DEF Delivery!Spec

-----------------------------------------------------------------------------
(* A timely network *)

\* Nothing is lost but what the server drops on purpose, which is less than a
\* client's attempts, and the server is not restarted. An endpoint may be used
\* again by a later client.
EnoughAttempts == Timely /\ MaxRestarts = 0 /\ packet_loss_count < MAX_RETRIES

\* The acknowledgement that t is waiting for.
CurrentAck(t) == [to |-> EndpointOf[t], seq |-> index[t]]

\* How many packets of t the server has stored.
Received(t) == IF CurrentAck(t) \in toSender THEN index[t] + 1 ELSE index[t]

\* A vector with its first k packets.
Filled(t, k) == [i \in Slots(t) |-> IF i < k THEN t ELSE Missing]

\* Each failed attempt was a datagram dropped on purpose.
AttemptsBacked(t) == retries[t] <= lost_packets /\ (~UnderWay(t) => retries[t] < lost_packets)

\* The vector of the client holds the packets received; it is saved with the last.
VectorInTurn(t) ==
  /\ EndpointOf[t] \in DOMAIN client_data <=> Received(t) \in 1 .. Total[t] - 1
  /\ EndpointOf[t] \in DOMAIN client_data => client_data[EndpointOf[t]] = Filled(t, Received(t))
  /\ Received(t) = Total[t] /\ ~DiskMayFail => IsSaved(t)

\* An endpoint is that of one client at a time, the only one whose packets or
\* acknowledgements are under way and whose vector the server keeps.
EndpointsTaken ==
  /\ \A t, u \in Transfer : Sending(t) /\ Sending(u) /\ EndpointOf[t] = EndpointOf[u] => t = u
  /\ \A e \in DOMAIN client_data : \E t \in Transfer : Sending(t) /\ EndpointOf[t] = e

\* Under way is the packet a client is waiting for or its acknowledgement.
OneUnderWay ==
  /\ \A p \in toReceiver :
       Sending(p.transfer) /\ p.seq = index[p.transfer] /\ CurrentAck(p.transfer) \notin toSender
  /\ \A ack \in toSender : \E t \in Transfer : Sending(t) /\ ack = CurrentAck(t)

\* No packet is given up.
NoneGivenUp ==
  \A t \in Transfer :
    /\ acked[t] = 0 .. index[t] - 1
    /\ spc[t] = "new" => index[t] = 0
    /\ spc[t] = "done" => index[t] \in {0, Total[t]}

\* The invariant of a timely network.
TurnInv ==
  /\ TypeOK /\ NoOverrun /\ EndpointsTaken /\ OneUnderWay /\ NoneGivenUp
  /\ \A t \in Transfer : Sending(t) => AttemptsBacked(t) /\ VectorInTurn(t)

\* The invariant before the first step.
LEMMA TurnInit == Init => TurnInv
<1> SUFFICES ASSUME Init PROVE TurnInv
  OBVIOUS
<1>1. TypeOK
  BY TypeInit
<1>2. DOMAIN client_data = {} /\ toReceiver = {} /\ toSender = {} /\ undefined = FALSE
  BY EmptyMapFacts DEF Init, ReceiverInit
<1>3. \A t \in Transfer : spc[t] = "new" /\ index[t] = 0 /\ acked[t] = {}
  BY Zenon DEF Init, SenderInit
<1>4. \A t \in Transfer : ~Sending(t)
  BY <1>3 DEF Sending
<1>5. NoneGivenUp
  <2>1. 0 .. 0 - 1 = {}
    OBVIOUS
  <2> QED
    BY <1>3, <2>1 DEF NoneGivenUp
<1> QED
  BY <1>1, <1>2, <1>4, <1>5 DEF TurnInv, NoOverrun, EndpointsTaken, OneUnderWay

\* What one step does to a client at another endpoint: nothing.
Elsewhere(e) ==
  /\ OnlyAt(e) /\ lost_packets' >= lost_packets
  /\ \A p \in Packet : EndpointOf[p.transfer] # e => (p \in toReceiver' <=> p \in toReceiver)
  /\ \A ack \in Ack : ack.to # e => (ack \in toSender' <=> ack \in toSender)
  /\ \A t \in Transfer : EndpointOf[t] # e =>
       spc'[t] = spc[t] /\ index'[t] = index[t] /\ retries'[t] = retries[t] /\ acked'[t] = acked[t]

\* The invariant about that client is kept.
LEMMA TurnElsewhere ==
  ASSUME TypeOK, TypeOK', NEW e, Elsewhere(e), NEW t \in Transfer, EndpointOf[t] # e,
         Sending(t)', AttemptsBacked(t), VectorInTurn(t)
  PROVE  Sending(t) /\ AttemptsBacked(t)' /\ VectorInTurn(t)'
<1>1. Sending(t) /\ index'[t] = index[t] /\ retries'[t] = retries[t] /\ index[t] \in Nat
  BY DEF Elsewhere, Sending, TypeOK
<1>2. CurrentAck(t)' = CurrentAck(t) /\ CurrentAck(t) \in Ack /\ CurrentAck(t).to = EndpointOf[t]
  BY <1>1, EndpointAssumption DEF CurrentAck, Ack
<1>3. Received(t)' = Received(t)
  BY <1>1, <1>2 DEF Elsewhere, Received
<1>4. UnderWay(t)' <=> UnderWay(t)
  <2>1. \A p \in Packet : p.transfer = t => (p \in toReceiver' <=> p \in toReceiver)
    BY DEF Elsewhere
  <2>2. \A ack \in Ack : ack.to = EndpointOf[t] => (ack \in toSender' <=> ack \in toSender)
    BY DEF Elsewhere
  <2>3. toReceiver \subseteq Packet /\ toReceiver' \subseteq Packet /\ toSender \subseteq Ack /\ toSender' \subseteq Ack
    BY DEF TypeOK
  <2> QED
    BY <2>1, <2>2, <2>3 DEF UnderWay
<1>5. AttemptsBacked(t)'
  <2>1. /\ lost_packets \in Nat /\ lost_packets' \in Nat /\ lost_packets' >= lost_packets
        /\ retries[t] \in Nat
    BY LossAssumption, RetriesAssumption DEF Elsewhere, TypeOK
  <2> QED
    BY <1>1, <1>4, <2>1 DEF AttemptsBacked
<1>6. IsSaved(t)' <=> IsSaved(t)
  BY OthersKept DEF Elsewhere
<1>7. /\ EndpointOf[t] \in DOMAIN client_data' <=> EndpointOf[t] \in DOMAIN client_data
      /\ EndpointOf[t] \in DOMAIN client_data =>
           client_data'[EndpointOf[t]] = client_data[EndpointOf[t]]
  BY DEF Elsewhere, OnlyAt, Put, Erase
<1>8. Filled(t, Received(t))' = Filled(t, Received(t))
  BY <1>3 DEF Filled, Slots
<1>9. VectorInTurn(t)'
  BY <1>3, <1>6, <1>7, <1>8 DEF VectorInTurn
<1> QED
  BY <1>1, <1>5, <1>9

\* What remains to be shown of a step at the endpoint of t.
LEMMA TurnStep ==
  ASSUME TurnInv, TypeOK', NEW t \in Transfer, Elsewhere(EndpointOf[t]), NoOverrun', NoneGivenUp',
         \A u \in Transfer : EndpointOf[u] = EndpointOf[t] /\ Sending(u)' => u = t,
         Sending(t)' => AttemptsBacked(t)' /\ VectorInTurn(t)',
         ~Sending(t)' => EndpointOf[t] \notin DOMAIN client_data',
         \A p \in toReceiver' : EndpointOf[p.transfer] = EndpointOf[t] =>
           p.transfer = t /\ Sending(t)' /\ p.seq = index'[t] /\ CurrentAck(t)' \notin toSender',
         \A ack \in toSender' : ack.to = EndpointOf[t] => Sending(t)' /\ ack.seq = index'[t]
  PROVE  TurnInv'
<1> DEFINE e == EndpointOf[t]
<1>1. \A u \in Transfer : EndpointOf[u] # e => (Sending(u)' <=> Sending(u))
  BY DEF Elsewhere, Sending
<1>2. \A u \in Transfer : Sending(u)' => AttemptsBacked(u)' /\ VectorInTurn(u)'
  <2> SUFFICES ASSUME NEW u \in Transfer, Sending(u)'
               PROVE  AttemptsBacked(u)' /\ VectorInTurn(u)'
    OBVIOUS
  <2>1. CASE EndpointOf[u] = e
    BY <2>1
  <2>2. CASE EndpointOf[u] # e
    <3>1. AttemptsBacked(u) /\ VectorInTurn(u) /\ TypeOK
      BY <1>1, <2>2 DEF TurnInv
    <3> HIDE DEF e
    <3>2. Elsewhere(e)
      BY DEF e
    <3> QED
      BY <2>2, <3>1, <3>2, TurnElsewhere
  <2> QED
    BY <2>1, <2>2
<1>3. EndpointsTaken'
  <2>1. \A u, v \in Transfer : Sending(u)' /\ Sending(v)' /\ EndpointOf[u] = EndpointOf[v] => u = v
    BY <1>1 DEF TurnInv, EndpointsTaken
  <2>2. ASSUME NEW k \in DOMAIN client_data'
        PROVE  \E u \in Transfer : Sending(u)' /\ EndpointOf[u] = k
    <3>1. CASE k = e
      BY <3>1
    <3>2. CASE k # e
      <4>1. k \in DOMAIN client_data
        BY <2>2, <3>2 DEF Elsewhere, OnlyAt, Put, Erase
      <4> QED
        BY <1>1, <3>2, <4>1 DEF TurnInv, EndpointsTaken
    <3> QED
      BY <3>1, <3>2
  <2> QED
    BY <2>1, <2>2 DEF EndpointsTaken
<1>4. \A u \in Transfer : EndpointOf[u] # e => CurrentAck(u)' = CurrentAck(u)
  BY DEF Elsewhere, CurrentAck
<1>5. OneUnderWay'
  <2>1. ASSUME NEW p \in toReceiver'
        PROVE  /\ Sending(p.transfer)' /\ p.seq = index'[p.transfer]
               /\ CurrentAck(p.transfer)' \notin toSender'
    <3>1. p \in Packet /\ p.transfer \in Transfer
      BY PacketFacts DEF TypeOK
    <3>2. CASE EndpointOf[p.transfer] = e
      BY <2>1, <3>2
    <3>3. CASE EndpointOf[p.transfer] # e
      <4>1. p \in toReceiver /\ Sending(p.transfer) /\ p.seq = index[p.transfer]
            /\ CurrentAck(p.transfer) \notin toSender
        BY <2>1, <3>1, <3>3 DEF Elsewhere, TurnInv, OneUnderWay
      <4>2. CurrentAck(p.transfer) \in Ack /\ CurrentAck(p.transfer).to = EndpointOf[p.transfer]
        BY <3>1, EndpointAssumption DEF CurrentAck, Ack, TurnInv, TypeOK
      <4>3. CurrentAck(p.transfer) \notin toSender'
        BY <3>3, <4>1, <4>2 DEF Elsewhere
      <4> QED
        BY <1>1, <1>4, <3>1, <3>3, <4>1, <4>3 DEF Elsewhere
    <3> QED
      BY <3>2, <3>3
  <2>2. ASSUME NEW ack \in toSender'
        PROVE  \E u \in Transfer : Sending(u)' /\ ack = CurrentAck(u)'
    <3>1. ack \in Ack /\ ack = [to |-> ack.to, seq |-> ack.seq]
      BY DEF TypeOK, Ack
    <3>2. CASE ack.to = e
      BY <2>2, <3>1, <3>2 DEF CurrentAck
    <3>3. CASE ack.to # e
      <4>1. PICK u \in Transfer : Sending(u) /\ ack = CurrentAck(u)
        BY <2>2, <3>1, <3>3 DEF Elsewhere, TurnInv, OneUnderWay
      <4>2. ack.to = EndpointOf[u]
        BY <4>1 DEF CurrentAck
      <4> QED
        BY <1>1, <1>4, <3>3, <4>1, <4>2
    <3> QED
      BY <3>2, <3>3
  <2> QED
    BY <2>1, <2>2 DEF OneUnderWay
<1> QED
  BY <1>2, <1>3, <1>5 DEF TurnInv

\* Nothing is under way for a client that is not sending, as long as no other
\* has its endpoint.
LEMMA EndpointIdle ==
  ASSUME TurnInv, NEW e, \A u \in Transfer : Sending(u) => EndpointOf[u] # e
  PROVE  /\ \A p \in toReceiver : EndpointOf[p.transfer] # e
         /\ \A ack \in toSender : ack.to # e
         /\ e \notin DOMAIN client_data
<1>1. \A p \in toReceiver : p.transfer \in Transfer
  BY PacketFacts DEF TurnInv, TypeOK
<1>2. \A p \in toReceiver : EndpointOf[p.transfer] # e
  BY <1>1 DEF TurnInv, OneUnderWay
<1>3. \A ack \in toSender : ack.to # e
  BY DEF TurnInv, OneUnderWay, CurrentAck
<1>4. e \notin DOMAIN client_data
  BY DEF TurnInv, EndpointsTaken
<1> QED
  BY <1>2, <1>3, <1>4

\* What is under way for a client that is sending.
LEMMA EndpointBusy ==
  ASSUME TurnInv, NEW t \in Transfer, Sending(t)
  PROVE  /\ \A u \in Transfer : EndpointOf[u] = EndpointOf[t] /\ Sending(u) => u = t
         /\ \A p \in toReceiver : EndpointOf[p.transfer] = EndpointOf[t] =>
              /\ p = [transfer |-> t, seq |-> index[t]]
              /\ CurrentAck(t) \notin toSender
         /\ \A ack \in toSender : ack.to = EndpointOf[t] => ack = CurrentAck(t)
         /\ index[t] \in Slots(t) /\ index[t] \in 0 .. Total[t] - 1 /\ Total[t] \in Nat
<1>1. \A p \in toReceiver : p.transfer \in Transfer /\ p = [transfer |-> p.transfer, seq |-> p.seq]
  BY DEF TurnInv, TypeOK, Packet
<1>2. \A u \in Transfer : EndpointOf[u] = EndpointOf[t] /\ Sending(u) => u = t
  BY DEF TurnInv, EndpointsTaken
<1>3. index[t] \in Slots(t) /\ index[t] \in 0 .. Total[t] - 1 /\ Total[t] \in Nat
  BY TotalAssumption DEF TurnInv, TypeOK, Slots
<1>4. ASSUME NEW p \in toReceiver, EndpointOf[p.transfer] = EndpointOf[t]
      PROVE  p = [transfer |-> t, seq |-> index[t]] /\ CurrentAck(t) \notin toSender
  <2>1. Sending(p.transfer) /\ p.seq = index[p.transfer] /\ CurrentAck(p.transfer) \notin toSender
    BY DEF TurnInv, OneUnderWay
  <2>2. p.transfer = t
    BY <1>1, <1>2, <1>4, <2>1
  <2> QED
    BY <1>1, <2>1, <2>2
<1>5. ASSUME NEW ack \in toSender, ack.to = EndpointOf[t]
      PROVE  ack = CurrentAck(t)
  <2>1. PICK u \in Transfer : Sending(u) /\ ack = CurrentAck(u)
    BY DEF TurnInv, OneUnderWay
  <2>2. u = t
    BY <1>2, <1>5, <2>1 DEF CurrentAck
  <2> QED
    BY <2>1, <2>2
<1> QED
  BY <1>2, <1>3, <1>4, <1>5

\* A packet and its acknowledgement are messages of these types.
LEMMA MessageFacts ==
  ASSUME TypeOK, NEW t \in Transfer, NEW i \in Slots(t)
  PROVE  [transfer |-> t, seq |-> i] \in Packet /\ [to |-> EndpointOf[t], seq |-> i] \in Ack
BY EndpointAssumption, SlotsFacts DEF Packet, Ack

\* A client that goes to packet i sends it, and nothing else.
LEMMA GoToEffect ==
  ASSUME TypeOK, NEW t \in Transfer, NEW i \in Nat, GoTo(t, i)
  PROVE  /\ index'[t] = i /\ retries'[t] = 0 /\ (Sending(t)' <=> i < Total[t])
         /\ i >= Total[t] => spc'[t] = "done"
         /\ \A u \in Transfer \ {t} : spc'[u] = spc[u] /\ index'[u] = index[u] /\ retries'[u] = retries[u]
         /\ toReceiver' = IF i < Total[t] THEN toReceiver \cup {[transfer |-> t, seq |-> i]} ELSE toReceiver
<1>1. Total[t] \in Nat
  BY TotalAssumption
<1>2. index'[t] = i /\ retries'[t] = 0
  BY DEF GoTo, TypeOK
<1>3. CASE i < Total[t]
  BY <1>1, <1>2, <1>3 DEF GoTo, SendPacket, TypeOK, Sending
<1>4. CASE i >= Total[t]
  <2>1. ~(i < Total[t])
    BY <1>1, <1>4
  <2> QED
    BY <1>2, <1>4, <2>1 DEF GoTo, TypeOK, Sending
<1> QED
  BY <1>1, <1>3, <1>4

\* A step of a client changes nothing for the others.
OthersAlone(t) ==
  /\ \A u \in Transfer \ {t} : spc'[u] = spc[u] /\ index'[u] = index[u] /\ retries'[u] = retries[u]
  /\ \A p \in Packet : p.transfer # t => (p \in toReceiver' <=> p \in toReceiver)

\* This holds of the steps that decide what to send.
LEMMA SendingAlone ==
  ASSUME TypeOK, NEW t \in Transfer
  PROVE  /\ \A i \in Nat : GoTo(t, i) => OthersAlone(t)
         /\ Retry(t) => OthersAlone(t)
<1>1. ASSUME NEW i \in Nat, GoTo(t, i)
      PROVE  OthersAlone(t)
  BY <1>1, GoToEffect DEF OthersAlone
<1>2. index[t] + 1 \in Nat
  BY DEF TypeOK
<1>3. ASSUME Retry(t), ~GoTo(t, index[t] + 1)
      PROVE  OthersAlone(t)
  BY <1>3 DEF Retry, SendPacket, TypeOK, OthersAlone
<1> QED
  BY <1>1, <1>2, <1>3

\* Neither does the whole step.
LEMMA SenderElsewhere ==
  ASSUME TypeOK, NEW t \in Transfer, SenderStep(t)
  PROVE  /\ OthersAlone(t) /\ Elsewhere(EndpointOf[t])
         /\ \A u \in Transfer \ {t} : acked'[u] = acked[u]
<1> DEFINE Acks == /\ \A u \in Transfer \ {t} : acked'[u] = acked[u]
                   /\ \A ack \in Ack : ack.to # EndpointOf[t] => (ack \in toSender' <=> ack \in toSender)
<1>1. ASSUME StartSending(t) PROVE OthersAlone(t) /\ Acks
  BY <1>1, SendingAlone DEF StartSending
<1>2. ASSUME OpenFails(t) PROVE OthersAlone(t) /\ Acks
  BY <1>2 DEF OpenFails, network, TypeOK, OthersAlone
<1>3. ASSUME Timeout(t) PROVE OthersAlone(t) /\ Acks
  BY <1>3, SendingAlone DEF Timeout
<1>4. ASSUME NEW ack \in toSender, RecvAck(t, ack)
      PROVE  OthersAlone(t) /\ Acks
  <2>1. index[t] + 1 \in Nat
    BY DEF TypeOK
  <2>2. Acks
    BY <1>4 DEF RecvAck, AfterReceiving, TypeOK
  <2> QED
    BY <1>4, <2>1, <2>2, SendingAlone DEF RecvAck
<1>5. OthersAlone(t) /\ Acks
  BY <1>1, <1>2, <1>3, <1>4 DEF SenderStep
<1>6. OnlyAt(EndpointOf[t]) /\ lost_packets' >= lost_packets
  <2>1. lost_packets \in Int
    BY LossAssumption DEF TypeOK
  <2> QED
    BY <2>1 DEF SenderStep, receiver, OnlyAt
<1> QED
  BY <1>5, <1>6 DEF Elsewhere, OthersAlone

\* What is left to show of a client whose acknowledged packets are the first ones.
LEMMA NoneGivenUpStep ==
  ASSUME NoneGivenUp, NEW t \in Transfer, OthersAlone(t),
         \A u \in Transfer \ {t} : acked'[u] = acked[u],
         acked'[t] = 0 .. index'[t] - 1,
         spc'[t] = "new" => index'[t] = 0,
         spc'[t] = "done" => index'[t] \in {0, Total[t]}
  PROVE  NoneGivenUp'
BY DEF NoneGivenUp, OthersAlone

\* A client with nothing under way goes to packet i; the server has stored those
\* before it.
LEMMA TurnGoTo ==
  ASSUME TurnInv, TypeOK', NEW t \in Transfer, SenderStep(t),
         NEW i \in 0 .. Total[t], GoTo(t, i), NoneGivenUp',
         \A u \in Transfer : EndpointOf[u] = EndpointOf[t] /\ Sending(u) => u = t,
         \A p \in toReceiver : EndpointOf[p.transfer] # EndpointOf[t],
         \A ack \in toSender' : ack.to # EndpointOf[t],
         EndpointOf[t] \in DOMAIN client_data <=> i \in 1 .. Total[t] - 1,
         EndpointOf[t] \in DOMAIN client_data => client_data[EndpointOf[t]] = Filled(t, i)
  PROVE  TurnInv'
<1> DEFINE e == EndpointOf[t]
           m == [transfer |-> t, seq |-> i]
<1>1. Total[t] \in Nat /\ i \in Nat /\ TypeOK /\ NoOverrun
  BY TotalAssumption DEF TurnInv
<1>2. /\ index'[t] = i /\ retries'[t] = 0 /\ (Sending(t)' <=> i < Total[t])
      /\ toReceiver' = IF i < Total[t] THEN toReceiver \cup {m} ELSE toReceiver
  BY <1>1, GoToEffect
<1>3. UNCHANGED <<client_data, lost_packets, undefined>> /\ lost_packets \in Nat
  BY <1>1, LossAssumption DEF SenderStep, receiver, TypeOK
<1>4. Elsewhere(e) /\ OthersAlone(t)
  BY <1>1, SenderElsewhere
<1>5. NoOverrun'
  BY <1>1, <1>3 DEF NoOverrun
<1>6. CurrentAck(t)' \notin toSender' /\ Received(t)' = i
  BY <1>2 DEF CurrentAck, Received
<1>7. \A u \in Transfer : EndpointOf[u] = e /\ Sending(u)' => u = t
  BY <1>4 DEF OthersAlone, Sending
<1>8. ~Sending(t)' => e \notin DOMAIN client_data'
  BY <1>1, <1>2, <1>3
<1>9. \A p \in toReceiver' : EndpointOf[p.transfer] = e =>
        p.transfer = t /\ Sending(t)' /\ p.seq = index'[t] /\ CurrentAck(t)' \notin toSender'
  BY <1>2, <1>6
<1>10. ASSUME Sending(t)'
       PROVE  AttemptsBacked(t)' /\ VectorInTurn(t)'
  <2>1. m \in toReceiver' /\ m.transfer = t
    BY <1>2, <1>10
  <2>2. UnderWay(t)'
    BY <2>1 DEF UnderWay
  <2>3. AttemptsBacked(t)'
    BY <1>2, <1>3, <2>2 DEF AttemptsBacked
  <2>4. Filled(t, Received(t))' = Filled(t, i)
    BY <1>6 DEF Filled, Slots
  <2>5. VectorInTurn(t)'
    BY <1>1, <1>2, <1>3, <1>6, <1>10, <2>4 DEF VectorInTurn
  <2> QED
    BY <2>3, <2>5
<1> HIDE DEF m
<1> QED
  BY <1>4, <1>5, <1>7, <1>8, <1>9, <1>10, TurnStep

\* A client starts when nobody has its endpoint.
LEMMA TurnStart ==
  ASSUME TurnInv, TypeOK', NEW t \in Transfer, StartSending(t), SenderStep(t)
  PROVE  TurnInv'
<1> DEFINE e == EndpointOf[t]
           zero == 0
<1>1. TypeOK /\ Total[t] \in Nat /\ zero \in 0 .. Total[t] /\ GoTo(t, zero)
      /\ UNCHANGED <<acked, toSender>>
  BY TotalAssumption DEF TurnInv, StartSending
<1>2. \A u \in Transfer : Sending(u) => EndpointOf[u] # e
  BY DEF StartSending
<1>3. /\ \A p \in toReceiver : EndpointOf[p.transfer] # e
      /\ \A ack \in toSender : ack.to # e
      /\ e \notin DOMAIN client_data
  BY <1>2, EndpointIdle
<1>4. NoneGivenUp'
  <2>1. index[t] = 0 /\ acked[t] = 0 .. index[t] - 1
    BY DEF TurnInv, NoneGivenUp, StartSending
  <2>2. index'[t] = 0 /\ spc'[t] # "new"
    BY <1>1, GoToEffect DEF Sending
  <2>3. OthersAlone(t) /\ NoneGivenUp
    BY <1>1, SenderElsewhere DEF TurnInv
  <2> QED
    BY <1>1, <2>1, <2>2, <2>3, NoneGivenUpStep
<1>5. e \in DOMAIN client_data <=> zero \in 1 .. Total[t] - 1
  BY <1>3
<1> HIDE DEF zero
<1> QED
  BY <1>1, <1>2, <1>3, <1>4, <1>5, TurnGoTo

\* It goes on when the acknowledgement arrives, which is the one it waits for.
LEMMA TurnAck ==
  ASSUME EnoughAttempts, TurnInv, TypeOK', NEW t \in Transfer, NEW ack \in toSender, RecvAck(t, ack),
         SenderStep(t)
  PROVE  TurnInv'
<1> DEFINE e == EndpointOf[t]
           i == index[t] + 1
<1>1. Sending(t) /\ ack = CurrentAck(t) /\ ack.seq = index[t] /\ toSender' = toSender \ {ack}
  <2>1. Sending(t) /\ ack.to = EndpointOf[t] /\ toSender' = toSender \ {ack}
    BY DEF RecvAck, AfterReceiving, EnoughAttempts
  <2>2. ack = CurrentAck(t)
    BY <2>1, EndpointBusy
  <2> QED
    BY <2>1, <2>2 DEF CurrentAck
<1>2. index[t] \in 0 .. Total[t] - 1 /\ Total[t] \in Nat /\ i \in 0 .. Total[t] /\ i \in Nat /\ TypeOK
  BY <1>1, EndpointBusy DEF TurnInv
<1>3. GoTo(t, i) /\ acked'[t] = acked[t] \cup {index[t]}
  BY <1>1, <1>2 DEF RecvAck, TypeOK
<1>4. /\ \A u \in Transfer : EndpointOf[u] = e /\ Sending(u) => u = t
      /\ \A p \in toReceiver : EndpointOf[p.transfer] # e
      /\ \A a \in toSender' : a.to # e
  BY <1>1, EndpointBusy
<1>5. NoneGivenUp'
  <2>1. acked[t] = 0 .. index[t] - 1
    BY DEF TurnInv, NoneGivenUp
  <2>2. acked'[t] = 0 .. i - 1
    BY <1>2, <1>3, <2>1
  <2>3. index'[t] = i /\ (Sending(t)' <=> i < Total[t]) /\ (i >= Total[t] => spc'[t] = "done")
    BY <1>2, <1>3, GoToEffect
  <2>4. OthersAlone(t) /\ NoneGivenUp /\ \A u \in Transfer \ {t} : acked'[u] = acked[u]
    BY <1>2, SenderElsewhere DEF TurnInv
  <2>5. (spc'[t] = "new" => i = 0) /\ (spc'[t] = "done" => i \in {0, Total[t]})
    BY <1>2, <2>3 DEF Sending
  <2> HIDE DEF i
  <2> QED
    BY <2>2, <2>3, <2>4, <2>5, NoneGivenUpStep
<1>6. Received(t) = i
  BY <1>1 DEF Received
<1>7. /\ e \in DOMAIN client_data <=> i \in 1 .. Total[t] - 1
      /\ e \in DOMAIN client_data => client_data[e] = Filled(t, i)
  BY <1>1, <1>6 DEF TurnInv, VectorInTurn
<1> HIDE DEF i
<1> QED
  BY <1>2, <1>3, <1>4, <1>5, <1>7, TurnGoTo

\* It tries again when a datagram was dropped, and has attempts left.
LEMMA TurnTimeout ==
  ASSUME EnoughAttempts, TurnInv, TypeOK', NEW t \in Transfer, Timeout(t), SenderStep(t)
  PROVE  TurnInv'
<1> DEFINE e == EndpointOf[t]
           m == [transfer |-> t, seq |-> index[t]]
<1>1. /\ Sending(t) /\ ~UnderWay(t) /\ Retry(t) /\ UNCHANGED <<acked, toSender>>
      /\ TypeOK /\ NoOverrun /\ AttemptsBacked(t) /\ VectorInTurn(t) /\ NoneGivenUp
  BY DEF Timeout, EnoughAttempts, TurnInv
<1>2. /\ UNCHANGED <<client_data, lost_packets, undefined, saved>>
      /\ lost_packets \in Nat /\ lost_packets <= packet_loss_count /\ retries[t] \in Nat
  BY <1>1, LossAssumption, RetriesAssumption DEF SenderStep, receiver, TypeOK
<1>3. retries[t] + 1 <= lost_packets /\ retries[t] + 1 < MAX_RETRIES
  BY <1>1, <1>2, LossAssumption, RetriesAssumption DEF AttemptsBacked, EnoughAttempts
<1>4. UNCHANGED <<spc, index>> /\ retries'[t] = retries[t] + 1 /\ toReceiver' = toReceiver \cup {m}
  BY <1>1, <1>2, <1>3, RetriesAssumption DEF Retry, SendPacket, TypeOK
<1>5. Elsewhere(e) /\ OthersAlone(t)
  BY <1>1, SenderElsewhere
<1>6. /\ \A p \in toReceiver : EndpointOf[p.transfer] # e
      /\ \A a \in toSender : a.to # e
      /\ \A u \in Transfer : EndpointOf[u] = e /\ Sending(u) => u = t
  <2>1. \A p \in toReceiver : p.transfer # t
    BY <1>1 DEF UnderWay
  <2>2. \A a \in toSender : a.to # e
    BY <1>1 DEF UnderWay
  <2> QED
    BY <1>1, <2>1, <2>2, EndpointBusy
<1>7. NoOverrun' /\ NoneGivenUp' /\ (Sending(t)' <=> Sending(t))
  BY <1>1, <1>2, <1>4 DEF NoOverrun, NoneGivenUp, Sending
<1>8. CurrentAck(t)' = CurrentAck(t) /\ Received(t)' = Received(t)
  BY <1>1, <1>4 DEF CurrentAck, Received
<1>9. CurrentAck(t)' \notin toSender'
  BY <1>1, <1>6, <1>8 DEF CurrentAck
<1>10. AttemptsBacked(t)'
  <2>1. m \in toReceiver' /\ m.transfer = t
    BY <1>4
  <2>2. UnderWay(t)'
    BY <2>1 DEF UnderWay
  <2> QED
    BY <1>2, <1>3, <1>4, <2>2 DEF AttemptsBacked
<1>11. VectorInTurn(t)'
  BY <1>1, <1>2, <1>8 DEF VectorInTurn, Filled, Slots, IsSaved, Whole
<1>12. \A p \in toReceiver' : EndpointOf[p.transfer] = e =>
         p.transfer = t /\ Sending(t)' /\ p.seq = index'[t] /\ CurrentAck(t)' \notin toSender'
  BY <1>1, <1>4, <1>6, <1>7, <1>9
<1>13. /\ \A u \in Transfer : EndpointOf[u] = e /\ Sending(u)' => u = t
       /\ \A a \in toSender' : a.to # e
  BY <1>1, <1>4, <1>6 DEF Sending
<1> HIDE DEF m
<1> QED
  BY <1>1, <1>5, <1>7, <1>10, <1>11, <1>12, <1>13, TurnStep

\* A client whose file or socket cannot be opened has sent nothing.
LEMMA TurnOpenFails ==
  ASSUME TurnInv, TypeOK', NEW t \in Transfer, OpenFails(t), UNCHANGED receiver
  PROVE  TurnInv'
<1>1. \A u \in Transfer : Sending(u)' <=> Sending(u)
  BY DEF OpenFails, Sending, TurnInv, TypeOK
<1>2. UNCHANGED <<toReceiver, toSender, index, retries, acked, client_data, lost_packets, saved, undefined>>
  BY DEF OpenFails, network, receiver
<1>3. \A u \in Transfer : /\ CurrentAck(u)' = CurrentAck(u) /\ (IsSaved(u)' <=> IsSaved(u))
                          /\ (UnderWay(u)' <=> UnderWay(u)) /\ Received(u)' = Received(u)
  BY <1>2 DEF CurrentAck, IsSaved, Whole, Slots, UnderWay, Received
<1>4. \A u \in Transfer : /\ AttemptsBacked(u)' <=> AttemptsBacked(u)
                          /\ VectorInTurn(u)' <=> VectorInTurn(u)
  BY <1>2, <1>3 DEF AttemptsBacked, VectorInTurn, Filled, Slots
<1>5. EndpointsTaken' /\ NoOverrun'
  BY <1>1, <1>2 DEF TurnInv, EndpointsTaken, NoOverrun
<1>6. OneUnderWay'
  <2>1. \A p \in toReceiver : p.transfer \in Transfer
    BY PacketFacts DEF TurnInv, TypeOK
  <2> QED
    BY <1>1, <1>2, <1>3, <2>1 DEF TurnInv, OneUnderWay
<1>7. NoneGivenUp'
  <2>1. \A u \in Transfer \ {t} : spc'[u] = spc[u]
    BY DEF OpenFails, TurnInv, TypeOK
  <2>2. spc[t] = "new" /\ spc'[t] = "done"
    BY DEF OpenFails, TurnInv, TypeOK
  <2> QED
    BY <1>2, <2>1, <2>2 DEF TurnInv, NoneGivenUp
<1> QED
  BY <1>1, <1>4, <1>5, <1>6, <1>7 DEF TurnInv

\* The vector that the packet of a client in turn is stored in.
LEMMA TurnStored ==
  ASSUME TurnInv, NEW p \in toReceiver, NEW t, t = p.transfer
  PROVE  /\ t \in Transfer /\ Sending(t) /\ p = [transfer |-> t, seq |-> index[t]]
         /\ CurrentAck(t) \notin toSender /\ Key(p) = EndpointOf[t]
         /\ Entry(p) = Filled(t, index[t]) /\ Stored(p) = Filled(t, index[t] + 1)
<1> DEFINE k == index[t]
<1>1. p \in Packet /\ t \in Transfer /\ Key(p) = EndpointOf[t] /\ p = [transfer |-> t, seq |-> p.seq]
  BY PacketFacts DEF TurnInv, TypeOK, Packet
<1>2. Sending(t) /\ p.seq = k /\ CurrentAck(t) \notin toSender
  BY <1>1 DEF TurnInv, OneUnderWay
<1>3. k \in Slots(t) /\ k \in 0 .. Total[t] - 1 /\ Total[t] \in Nat /\ Slots(t) \subseteq Int
  BY <1>1, <1>2, EndpointBusy, SlotsFacts
<1>4. Received(t) = k /\ VectorInTurn(t)
  BY <1>1, <1>2 DEF Received, TurnInv
<1>5. Entry(p) = Filled(t, k)
  <2>1. CASE Key(p) \in DOMAIN client_data
    BY <1>1, <1>4, <2>1 DEF Entry, VectorInTurn
  <2>2. CASE Key(p) \notin DOMAIN client_data
    <3>1. k = 0
      BY <1>1, <1>3, <1>4, <2>2 DEF VectorInTurn
    <3>2. \A i \in Slots(t) : ~(i < 0)
      BY <1>1, TotalAssumption DEF Slots
    <3> QED
      BY <1>1, <2>2, <3>1, <3>2 DEF Entry, Filled
  <2> QED
    BY <2>1, <2>2
<1>6. Stored(p) = Filled(t, k + 1)
  <2>1. Stored(p) = [Filled(t, k) EXCEPT ![k] = t]
    BY <1>1, <1>2, <1>5 DEF Stored
  <2>2. \A i \in Slots(t) : i = k \/ (i < k + 1 <=> i < k)
    BY <1>3
  <2>3. k < k + 1
    BY <1>3
  <2> QED
    BY <1>3, <2>1, <2>2, <2>3 DEF Filled
<1> QED
  BY <1>1, <1>2, <1>5, <1>6

\* The server drops a packet: one more attempt of its client that failed.
LEMMA TurnDrop ==
  ASSUME EnoughAttempts, TurnInv, TypeOK', NEW p \in toReceiver, ReceivePacket(p), Drop, UNCHANGED sender
  PROVE  TurnInv'
<1> DEFINE t == p.transfer
           e == EndpointOf[t]
<1>1. /\ t \in Transfer /\ Sending(t) /\ p = [transfer |-> t, seq |-> index[t]]
      /\ CurrentAck(t) \notin toSender /\ TypeOK /\ AttemptsBacked(t) /\ VectorInTurn(t)
  BY TurnStored DEF TurnInv
<1>2. /\ toReceiver' = toReceiver \ {p} /\ toSender' = toSender /\ lost_packets' = lost_packets + 1
      /\ UNCHANGED <<client_data, saved, verdict, undefined, spc, index, retries, acked>>
  BY DEF ReceivePacket, Drop, AfterReceiving, EnoughAttempts, sender
<1>3. lost_packets \in Nat /\ retries[t] \in Nat
  BY <1>1, LossAssumption, RetriesAssumption DEF TypeOK
<1> HIDE DEF t
<1>4. Elsewhere(e)
  BY <1>1, <1>2, <1>3 DEF Elsewhere, OnlyAt
<1>5. /\ \A u \in Transfer : EndpointOf[u] = e /\ Sending(u) => u = t
      /\ \A a \in toSender : a.to = e => a = CurrentAck(t)
      /\ \A r \in toReceiver : EndpointOf[r.transfer] = e => r = p
  BY <1>1, EndpointBusy
<1>6. NoOverrun' /\ NoneGivenUp' /\ \A u \in Transfer : Sending(u)' <=> Sending(u)
  BY <1>2 DEF TurnInv, NoOverrun, NoneGivenUp, Sending
<1>7. Received(t)' = Received(t) /\ CurrentAck(t)' = CurrentAck(t)
  BY <1>2 DEF Received, CurrentAck
<1>8. AttemptsBacked(t)'
  BY <1>1, <1>2, <1>3 DEF AttemptsBacked
<1>9. VectorInTurn(t)'
  BY <1>1, <1>2, <1>7 DEF VectorInTurn, Filled, Slots, IsSaved, Whole
<1>10. /\ \A u \in Transfer : EndpointOf[u] = e /\ Sending(u)' => u = t
       /\ Sending(t)'
       /\ \A r \in toReceiver' : EndpointOf[r.transfer] # e
       /\ \A a \in toSender' : a.to # e
  BY <1>1, <1>2, <1>5, <1>6
<1> HIDE DEF e
<1>11. Elsewhere(EndpointOf[t])
  BY <1>4 DEF e
<1> QED
  BY <1>1, <1>6, <1>8, <1>9, <1>10, <1>11, TurnStep DEF e

\* The server accepts a packet, acknowledges it and saves the file with the last.
LEMMA TurnAccept ==
  ASSUME EnoughAttempts, TurnInv, TypeOK', NEW p \in toReceiver, ReceivePacket(p), Accept(p), UNCHANGED sender
  PROVE  TurnInv'
<1> DEFINE t == p.transfer
           e == EndpointOf[t]
           k == index[t]
<1>1. /\ t \in Transfer /\ Sending(t) /\ p = [transfer |-> t, seq |-> k] /\ Key(p) = e
      /\ CurrentAck(t) \notin toSender /\ TypeOK /\ AttemptsBacked(t)
      /\ Entry(p) = Filled(t, k) /\ Stored(p) = Filled(t, k + 1)
  BY TurnStored DEF TurnInv
<1>2. /\ toReceiver' = toReceiver \ {p} /\ toSender' = toSender \cup {CurrentAck(t)}
      /\ UNCHANGED <<lost_packets, undefined, spc, index, retries, acked>>
  BY <1>1 DEF ReceivePacket, Accept, Acknowledge, AfterReceiving, EnoughAttempts, sender, CurrentAck
<1>3. /\ lost_packets \in Nat /\ retries[t] \in Nat /\ Total[t] \in Nat /\ k \in 0 .. Total[t] - 1
      /\ t # Missing /\ Slots(t) = 0 .. Total[t] - 1
  BY <1>1, LossAssumption, RetriesAssumption, TotalAssumption, EndpointBusy, MissingAssumption
  DEF TypeOK, Slots
<1>4. OnlyAt(e)
  BY <1>1 DEF Accept, Save, OnlyAt
<1>5. Complete(p) <=> k + 1 = Total[t]
  <2>1. Complete(p) <=> \A i \in Slots(t) : Filled(t, k + 1)[i] # Missing
    BY <1>1 DEF Complete, Filled
  <2>2. \A i \in Slots(t) : Filled(t, k + 1)[i] # Missing <=> i < k + 1
    BY <1>3 DEF Filled
  <2>3. Total[t] - 1 \in Slots(t) /\ \A i \in Slots(t) : i <= Total[t] - 1
    BY <1>3
  <2> QED
    BY <1>3, <2>1, <2>2, <2>3
<1>6. Received(t)' = k + 1 /\ CurrentAck(t)' = CurrentAck(t) /\ CurrentAck(t) \in toSender'
  BY <1>2 DEF Received, CurrentAck
<1>7. VectorInTurn(t)'
  <2>1. CASE Complete(p)
    <3>1. e \notin DOMAIN client_data' /\ k + 1 = Total[t]
      BY <1>1, <1>5, <2>1 DEF Accept, Erase
    <3>2. ASSUME ~DiskMayFail PROVE IsSaved(t)'
      <4>1. saved' = Put(saved, e, Content(Filled(t, k + 1)))
        BY <1>1, <2>1, <3>2 DEF Accept, Save
      <4>2. Content(Filled(t, k + 1)) = Whole(t)
        <5>1. \A i \in Slots(t) : i < k + 1
          BY <1>3, <3>1
        <5>2. Filled(t, k + 1) = [i \in Slots(t) |-> t]
          BY <5>1 DEF Filled
        <5> QED
          BY <1>3, <5>2 DEF Content, Whole
      <4> QED
        BY <4>1, <4>2 DEF IsSaved, Put, Whole, Slots
    <3>3. k + 1 \notin 1 .. Total[t] - 1
      BY <1>3, <3>1
    <3> QED
      BY <1>6, <3>1, <3>2, <3>3 DEF VectorInTurn
  <2>2. CASE ~Complete(p)
    <3>1. client_data' = Put(client_data, e, Filled(t, k + 1))
      BY <1>1, <2>2 DEF Accept
    <3>2. k + 1 \in 1 .. Total[t] - 1 /\ k + 1 # Total[t]
      BY <1>3, <1>5, <2>2
    <3>3. e \in DOMAIN client_data' /\ client_data'[e] = Filled(t, k + 1)
      BY <3>1 DEF Put
    <3>4. Filled(t, Received(t))' = Filled(t, k + 1)
      BY <1>6 DEF Filled, Slots
    <3> QED
      BY <1>6, <3>2, <3>3, <3>4 DEF VectorInTurn
  <2> QED
    BY <2>1, <2>2
<1>8. AttemptsBacked(t)'
  <2>1. CurrentAck(t).to = EndpointOf[t]
    BY DEF CurrentAck
  <2>2. UnderWay(t)'
    BY <1>6, <2>1 DEF UnderWay
  <2> QED
    BY <1>1, <1>2, <2>2 DEF AttemptsBacked
<1> HIDE DEF t
<1>9. /\ \A u \in Transfer : EndpointOf[u] = e /\ Sending(u) => u = t
      /\ \A a \in toSender : a.to = e => a = CurrentAck(t)
      /\ \A r \in toReceiver : EndpointOf[r.transfer] = e => r = p
  BY <1>1, EndpointBusy
<1>10. Elsewhere(e)
  <2>1. p.transfer = t /\ CurrentAck(t).to = e
    BY <1>1 DEF CurrentAck
  <2> QED
    BY <1>2, <1>3, <1>4, <2>1 DEF Elsewhere
<1>11. NoOverrun' /\ NoneGivenUp' /\ \A u \in Transfer : Sending(u)' <=> Sending(u)
  BY <1>2 DEF TurnInv, NoOverrun, NoneGivenUp, Sending
<1>12. /\ \A u \in Transfer : EndpointOf[u] = e /\ Sending(u)' => u = t
       /\ Sending(t)'
       /\ \A r \in toReceiver' : EndpointOf[r.transfer] # e
       /\ \A a \in toSender' : a.to = e => a = CurrentAck(t)
  <2>1. \A r \in toReceiver' : EndpointOf[r.transfer] # e
    BY <1>2, <1>9
  <2>2. \A a \in toSender' : a.to = e => a = CurrentAck(t)
    BY <1>2, <1>9
  <2> QED
    BY <1>1, <1>9, <1>11, <2>1, <2>2
<1>13. \A a \in toSender' : a.to = e => Sending(t)' /\ a.seq = index'[t]
  BY <1>2, <1>12 DEF CurrentAck
<1> HIDE DEF k
<1> QED
  BY <1>1, <1>7, <1>8, <1>10, <1>11, <1>12, <1>13, TurnStep

\* Nothing is ever stored out of bounds.
LEMMA TurnInBounds ==
  ASSUME TurnInv, NEW p \in toReceiver
  PROVE  ~Overruns(p)
<1> DEFINE t == p.transfer
<1>1. t \in Transfer /\ Sending(t) /\ p.seq = index[t] /\ Entry(p) = Filled(t, index[t])
  BY TurnStored
<1>2. index[t] \in Slots(t)
  BY <1>1, EndpointBusy
<1>3. DOMAIN Entry(p) = Slots(t)
  BY <1>1 DEF Filled
<1> QED
  BY <1>1, <1>2, <1>3 DEF Overruns

\* Every step keeps the invariant.
LEMMA TurnNext == EnoughAttempts /\ TurnInv /\ [Next]_vars => TurnInv'
<1> SUFFICES ASSUME EnoughAttempts, TurnInv, [Next]_vars PROVE TurnInv'
  OBVIOUS
<1>1. TypeOK' /\ TypeOK
  BY TypeNext DEF TurnInv
<1>2. restarts = 0 /\ ~(restarts < MaxRestarts)
  BY <1>1, RestartAssumption DEF EnoughAttempts, TypeOK
<1>3. ASSUME NEW t \in Transfer, SenderStep(t) PROVE TurnInv'
  <2>1. UNCHANGED receiver
    BY <1>3 DEF SenderStep
  <2> QED
    BY <1>1, <1>3, <2>1, TurnStart, TurnOpenFails, TurnAck, TurnTimeout DEF SenderStep
<1>4. ASSUME NEW p \in toReceiver, ReceivePacket(p), UNCHANGED sender PROVE TurnInv'
  <2>1. ~Overrun(p)
    BY TurnInBounds DEF Overrun
  <2> QED
    BY <1>1, <1>4, <2>1, TurnDrop, TurnAccept DEF ReceivePacket
<1>5. ~ReceiverRestart /\ \A p : ~CrashWhileSaving(p)
  BY <1>2 DEF ReceiverRestart, CrashWhileSaving, StartAgain
<1>6. CASE UNCHANGED vars
  <2>1. /\ \A u \in Transfer : Sending(u)' = Sending(u) /\ CurrentAck(u)' = CurrentAck(u)
        /\ \A u \in Transfer : AttemptsBacked(u)' = AttemptsBacked(u)
        /\ \A u \in Transfer : VectorInTurn(u)' = VectorInTurn(u)
    BY <1>6 DEF vars, Sending, CurrentAck, AttemptsBacked, UnderWay, VectorInTurn, Received, Filled,
                Slots, IsSaved, Whole
  <2>2. NoOverrun' /\ EndpointsTaken' /\ OneUnderWay' /\ NoneGivenUp'
    BY <1>6 DEF vars, TurnInv, NoOverrun, EndpointsTaken, OneUnderWay, NoneGivenUp, Sending, CurrentAck
  <2> QED
    BY <1>1, <2>1, <2>2 DEF TurnInv
<1> QED
  BY <1>3, <1>4, <1>5, <1>6 DEF Next, ReceiverStep

\* On a timely network with more attempts than datagrams to drop, clients may
\* share an endpoint one after the other: none finds anything of another's under
\* way, and no packet is ever given up.
THEOREM TurnCorrect ==
  ASSUME EnoughAttempts
  PROVE  Spec => []TurnInv
<1>1. TurnInv /\ [Next]_vars => TurnInv'
  BY TurnNext
<1> QED
  BY <1>1, TurnInit, PTL DEF Spec

\* Then the server never leaves a vector, although endpoints are used again.
THEOREM TimelyNoOverrun ==
  ASSUME EnoughAttempts
  PROVE  Spec => []NoOverrun
<1>1. TurnInv => NoOverrun
  BY DEF TurnInv
<1> QED
  BY <1>1, TurnCorrect, PTL

\* Of a disk that takes everything the integrity check then tells the truth
\* although endpoints are used again: what FileMixed.cfg refutes for a server
\* that drops as many datagrams as a client has attempts.
THEOREM TimelyPassedIsSent ==
  ASSUME EnoughAttempts, ~DiskMayFail
  PROVE  Spec => []PassedIsSent
<1>1. ASSUME TurnInv, TurnInv', PassedIsSent, [Next]_vars
      PROVE  PassedIsSent'
  <2>1. ASSUME UNCHANGED <<saved, verdict>>
        PROVE  PassedIsSent'
    BY <1>1, <2>1 DEF PassedIsSent, IsSaved, Whole, Slots
  <2>2. ASSUME NEW p \in toReceiver, Accept(p), Complete(p), UNCHANGED sender
        PROVE  PassedIsSent'
    <3> DEFINE t == p.transfer
               e == EndpointOf[t]
    <3>1. t \in Transfer /\ Sending(t) /\ p.seq = index[t] /\ index[t] \in Slots(t) /\ Key(p) = e
      BY <1>1, TurnStored, EndpointBusy DEF Key
    <3>2. Sending(t)' /\ index'[t] = index[t] /\ CurrentAck(t)' \in toSender'
      BY <2>2, <3>1 DEF sender, Sending, Accept, Acknowledge, CurrentAck
    <3>3. Received(t)' = index[t] + 1 /\ e \notin DOMAIN client_data'
      BY <2>2, <3>1, <3>2 DEF Received, Accept, Erase
    <3>4. Received(t)' = Total[t]
      BY <1>1, <3>1, <3>2, <3>3, TotalAssumption DEF TurnInv, VectorInTurn, Slots
    <3>5. IsSaved(t)'
      BY <1>1, <3>1, <3>2, <3>4 DEF TurnInv, VectorInTurn
    <3>6. /\ \E content : saved' = Put(saved, e, content)
          /\ verdict' = Put(verdict, e, "passed")
      BY <2>2, <3>1 DEF Accept, Save
    <3> HIDE DEF e, t
    <3>7. ASSUME NEW k \in DOMAIN verdict', verdict'[k] = "passed"
          PROVE  \E u \in Transfer : EndpointOf[u] = k /\ IsSaved(u)'
      <4>1. CASE k = e
        BY <3>1, <3>5, <4>1 DEF e
      <4>2. CASE k # e
        <5>1. k \in DOMAIN verdict /\ verdict[k] = "passed"
          BY <3>6, <3>7, <4>2 DEF Put
        <5>2. PICK u \in Transfer : EndpointOf[u] = k /\ IsSaved(u)
          BY <1>1, <5>1 DEF PassedIsSent
        <5>3. IsSaved(u)'
          BY <3>6, <4>2, <5>2 DEF IsSaved, Put, Whole, Slots
        <5> QED
          BY <5>2, <5>3
      <4> QED
        BY <4>1, <4>2
    <3> QED
      BY <3>7 DEF PassedIsSent
  <2>3. restarts = 0 /\ ~(restarts < MaxRestarts)
    BY <1>1, RestartAssumption DEF EnoughAttempts, TurnInv, TypeOK
  <2>4. ASSUME NEW p \in toReceiver, ReceivePacket(p), UNCHANGED sender
        PROVE  PassedIsSent'
    <3>1. CASE Drop
      BY <2>1, <3>1 DEF Drop
    <3>2. CASE Accept(p)
      BY <2>1, <2>2, <2>4, <3>2 DEF Accept
    <3> QED
      BY <1>1, <2>4, <3>1, <3>2, TurnInBounds DEF ReceivePacket, Overrun
  <2>5. ASSUME NEW t \in Transfer, SenderStep(t)
        PROVE  PassedIsSent'
    BY <2>1, <2>5 DEF SenderStep, receiver
  <2>6. CASE UNCHANGED vars
    BY <2>1, <2>6 DEF vars
  <2> QED
    BY <1>1, <2>3, <2>4, <2>5, <2>6
    DEF Next, ReceiverStep, ReceiverRestart, CrashWhileSaving, StartAgain
<1>2. Init => PassedIsSent
  BY EmptyMapFacts DEF Init, ReceiverInit, PassedIsSent
<1> QED
  BY <1>1, <1>2, TurnCorrect, PTL DEF Spec

\* A client that sends ends well: with every packet reported as sent and, unless
\* the disk fails, its file on the server's disk.
EndsWell ==
  [][\A t \in Transfer : Sending(t) /\ ~Sending(t)' =>
       Reported(t)' /\ (~DiskMayFail => IsSaved(t)')]_vars

\* The safety half of FileArrives: that a client which sends ends is all that is
\* left for fairness to show.
THEOREM EndsWellCorrect ==
  ASSUME EnoughAttempts
  PROVE  Spec => EndsWell
<1>1. ASSUME TurnInv, TurnInv', Next
      PROVE  \A t \in Transfer : Sending(t) /\ ~Sending(t)' => Reported(t)' /\ (~DiskMayFail => IsSaved(t)')
  <2> SUFFICES ASSUME NEW t \in Transfer, Sending(t), ~Sending(t)'
               PROVE  Reported(t)' /\ (~DiskMayFail => IsSaved(t)')
    OBVIOUS
  <2>1. /\ TypeOK /\ TypeOK' /\ NoneGivenUp /\ NoneGivenUp' /\ VectorInTurn(t)
        /\ index[t] \in 0 .. Total[t] - 1 /\ Total[t] \in Nat /\ Slots(t) = 0 .. Total[t] - 1
    BY <1>1, EndpointBusy, TotalAssumption DEF TurnInv, Slots
  <2>2. SenderStep(t)
    <3>1. \A u \in Transfer : SenderStep(u) /\ u # t => spc'[t] = spc[t]
      BY <2>1, SenderElsewhere DEF OthersAlone
    <3> QED
      BY <1>1, <3>1 DEF Next, ReceiverStep, sender, Sending
  <2>3. (\E ack \in toSender : RecvAck(t, ack)) \/ Timeout(t)
    BY <2>2 DEF SenderStep, StartSending, OpenFails, Sending
  <2>4. GoTo(t, index[t] + 1)
    BY <2>3 DEF RecvAck, Timeout, Retry, Sending
  <2>5. index'[t] = index[t] + 1 /\ spc'[t] = "done"
    <3>1. index[t] + 1 \in Nat
      BY <2>1
    <3> QED
      BY <2>1, <2>4, <3>1, GoToEffect, TotalAssumption
  <2>6. index[t] + 1 = Total[t] /\ acked'[t] = 0 .. Total[t] - 1
    BY <2>1, <2>5 DEF NoneGivenUp
  <2>7. Reported(t)'
    BY <2>1, <2>5, <2>6 DEF Reported, Slots
  <2>8. CurrentAck(t) \in toSender
    <3>1. ~Timeout(t)
      <4>1. acked[t] = 0 .. index[t] - 1 /\ Total[t] - 1 \notin acked[t]
        BY <2>1, <2>6 DEF NoneGivenUp
      <4>2. Total[t] - 1 \in acked'[t]
        BY <2>1, <2>6
      <4> QED
        BY <4>1, <4>2 DEF Timeout
    <3>2. PICK ack \in toSender : RecvAck(t, ack)
      BY <2>3, <3>1
    <3>3. ack.to = EndpointOf[t]
      BY <3>2 DEF RecvAck
    <3>4. ack = CurrentAck(t)
      BY <1>1, <3>3, EndpointBusy
    <3> QED
      BY <3>4
  <2>9. ~DiskMayFail => IsSaved(t)'
    <3>1. ~DiskMayFail => IsSaved(t)
      BY <2>1, <2>6, <2>8 DEF VectorInTurn, Received
    <3> QED
      BY <2>2, <3>1 DEF SenderStep, receiver, IsSaved, Whole, Slots
  <2> QED
    BY <2>7, <2>9
<1>2. TurnInv /\ TurnInv' /\ [Next]_vars =>
        [\A t \in Transfer : Sending(t) /\ ~Sending(t)' =>
           Reported(t)' /\ (~DiskMayFail => IsSaved(t)')]_vars
  BY <1>1
<1> QED
  BY <1>2, TurnCorrect, PTL DEF Spec, EndsWell

-----------------------------------------------------------------------------
(* Why a client ends *)

\* The attempts that a client has left.
Left(t) == (Total[t] - index[t]) * MAX_RETRIES - retries[t]

\* They are positive while it sends. Each of its steps uses one up at least, and
\* nothing else changes them or ends it: it sends no more than MAX_RETRIES
\* datagrams per packet, whatever the network does.
AttemptsRunOut ==
  [][\A t \in Transfer : Sending(t) =>
       /\ Left(t) \in Nat \ {0}
       /\ SenderStep(t) => Left(t)' < Left(t)
       /\ ~SenderStep(t) => Left(t)' = Left(t) /\ Sending(t)']_vars

\* A step of a client that is sending.
LEMMA AttemptUsed ==
  ASSUME TypeOK, NEW t \in Transfer, Sending(t)
  PROVE  Left(t) \in Nat \ {0} /\ (SenderStep(t) => Left(t)' < Left(t))
<1> DEFINE h == Total[t] - index[t]
           l == h - 1
           r == retries[t]
           M == MAX_RETRIES
<1>1. /\ Total[t] \in Nat /\ index[t] \in Nat /\ h \in Nat /\ l \in Nat /\ r \in 0 .. M - 1 /\ M \in Nat
      /\ h = l + 1 /\ Left(t) = h * M - r
  BY TotalAssumption, RetriesAssumption DEF TypeOK, Slots, Left
<1>2. h * M = l * M + M /\ l * M \in Nat
  <2> HIDE DEF h, l, M
  <2>1. \A a, b \in Nat : (a + 1) * b = a * b + b /\ a * b \in Nat
    OBVIOUS
  <2> QED
    BY <1>1, <2>1
<1>3. Left(t) \in Nat \ {0} /\ Left(t) > l * M
  <2> HIDE DEF h, l, r, M
  <2> DEFINE x == l * M
             y == h * M
  <2>1. x \in Nat /\ y = x + M /\ Left(t) = y - r
    BY <1>1, <1>2
  <2> HIDE DEF x, y
  <2> QED
    BY <1>1, <2>1 DEF x
<1>4. ASSUME GoTo(t, index[t] + 1)
      PROVE  Left(t)' < Left(t)
  <2>1. index'[t] = index[t] + 1 /\ retries'[t] = 0
    <3>1. index[t] + 1 \in Nat
      BY <1>1
    <3> QED
      BY <1>4, <3>1, GoToEffect
  <2>2. Total[t] - (index[t] + 1) = l
    BY <1>1
  <2>3. Left(t)' = l * M - 0
    BY <2>1, <2>2 DEF Left
  <2> QED
    BY <1>2, <1>3, <2>3
<1>5. ASSUME Retry(t), ~GoTo(t, index[t] + 1)
      PROVE  Left(t)' < Left(t)
  <2>1. index' = index /\ retries'[t] = r + 1
    BY <1>5 DEF Retry, TypeOK
  <2>2. Left(t)' = h * M - (r + 1)
    BY <2>1 DEF Left
  <2> DEFINE y == h * M
  <2>3. y \in Nat /\ Left(t) = y - r /\ Left(t)' = y - (r + 1)
    BY <1>1, <1>2, <2>2
  <2> HIDE DEF y, r
  <2> QED
    BY <1>1, <2>3
<1>6. SenderStep(t) => GoTo(t, index[t] + 1) \/ Retry(t)
  BY DEF SenderStep, StartSending, OpenFails, RecvAck, Timeout, Sending
<1> QED
  BY <1>3, <1>4, <1>5, <1>6

\* Every client ends as soon as its steps are taken, on any network.
THEOREM AttemptsRunOutCorrect == Spec => AttemptsRunOut
<1>1. ASSUME TypeOK, Next, NEW t \in Transfer, Sending(t)
      PROVE  /\ Left(t) \in Nat \ {0}
             /\ SenderStep(t) => Left(t)' < Left(t)
             /\ ~SenderStep(t) => Left(t)' = Left(t) /\ Sending(t)'
  <2>1. ASSUME ~SenderStep(t)
        PROVE  spc'[t] = spc[t] /\ index'[t] = index[t] /\ retries'[t] = retries[t]
    <3>1. ASSUME NEW u \in Transfer, SenderStep(u)
          PROVE  spc'[t] = spc[t] /\ index'[t] = index[t] /\ retries'[t] = retries[t]
      BY <1>1, <2>1, <3>1, SenderElsewhere DEF OthersAlone
    <3> QED
      BY <1>1, <3>1 DEF Next, ReceiverStep, sender
  <2>2. ~SenderStep(t) => Left(t)' = Left(t) /\ Sending(t)'
    BY <1>1, <2>1 DEF Left, Sending
  <2> QED
    BY <1>1, <2>2, AttemptUsed
<1>2. TypeOK /\ [Next]_vars =>
        [\A t \in Transfer : Sending(t) =>
           /\ Left(t) \in Nat \ {0}
           /\ SenderStep(t) => Left(t)' < Left(t)
           /\ ~SenderStep(t) => Left(t)' = Left(t) /\ Sending(t)']_vars
  BY <1>1
<1> QED
  BY <1>2, TypeCorrect, PTL DEF Spec, AttemptsRunOut
=============================================================================
