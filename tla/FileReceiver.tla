---------------------------- MODULE FileReceiver ----------------------------
(***************************************************************************)
(* The function server of spo/lab2: it collects the packets of every       *)
(* endpoint, acknowledges each one, and once no packet is missing saves    *)
(* the file and checks its size. One thread, one datagram at a time; only  *)
(* the files survive a restart.                                            *)
(***************************************************************************)
EXTENDS FileNetwork

CONSTANTS
  packet_loss_count,       \* command line: datagrams to drop on purpose
  Missing,                 \* a slot whose data_size is 0
  DiskMayFail,             \* TRUE: a file may be cut short or not open at all
  MaxRestarts              \* bound on restarts of the server program

ASSUME LossAssumption == packet_loss_count \in Nat
ASSUME MissingAssumption == Missing \notin Transfer
ASSUME DiskAssumption == DiskMayFail \in BOOLEAN
ASSUME RestartAssumption == MaxRestarts \in Nat

VARIABLES
  client_data,     \* map: endpoint -> vector of packets (here: whose packet)
  lost_packets,    \* datagrams dropped on purpose
  saved,           \* the files on disk: endpoint -> set of <<slot, transfer>>
  verdict,         \* endpoint -> what "Integrity check" was printed of its file
  undefined,       \* the vector was accessed out of bounds
  restarts         \* how often the server program has been restarted

receiver == <<client_data, lost_packets, saved, verdict, undefined, restarts>>

EmptyMap == [k \in {} |-> Missing]

ReceiverInit ==
  /\ client_data = EmptyMap
  /\ lost_packets = 0
  /\ saved = EmptyMap
  /\ verdict = EmptyMap
  /\ undefined = FALSE
  /\ restarts = 0

\* A map with one more, or one fewer, key.
Put(map, key, value) == [k \in DOMAIN map \cup {key} |-> IF k = key THEN value ELSE map[k]]
Erase(map, key) == [k \in DOMAIN map \ {key} |-> map[k]]

Key(packet) == EndpointOf[packet.transfer]

\* Faulty variant: the vector is one packet short.
EntryShort(packet) ==
  IF Key(packet) \in DOMAIN client_data
  THEN client_data[Key(packet)]
  ELSE [i \in Slots(packet.transfer) \ {0} |-> Missing]

\* The sender's vector, created by its first packet with that packet's
\* total_packets.
Entry(packet) ==
  IF Key(packet) \in DOMAIN client_data
  THEN client_data[Key(packet)]
  ELSE [i \in Slots(packet.transfer) |-> Missing]

Stored(packet) == [Entry(packet) EXCEPT ![packet.seq] = packet.transfer]

\* What write() leaves on disk: a slot of size 0 contributes nothing.
Content(vector) == {<<i, vector[i]>> : i \in {j \in DOMAIN vector : vector[j] # Missing}}

\* The loop over total_packets stops at the first missing packet, and leaves
\* the vector if there is none in a vector that is too short.
Overruns(packet) ==
  \/ packet.seq \notin DOMAIN Entry(packet)
  \/ /\ \A i \in DOMAIN Entry(packet) : Stored(packet)[i] # Missing
     /\ Slots(packet.transfer) \ DOMAIN Entry(packet) # {}

\* Faulty variant: the last packet is not looked at.
CompleteButLast(packet) ==
  \A i \in Slots(packet.transfer) \ {Total[packet.transfer] - 1} :
    i \in DOMAIN Entry(packet) /\ Stored(packet)[i] # Missing

\* Faulty variant: the packet with the last number completes the file.
CompleteByLast(packet) == packet.seq = Total[packet.transfer] - 1

Complete(packet) ==
  \A i \in Slots(packet.transfer) :
    i \in DOMAIN Entry(packet) /\ Stored(packet)[i] # Missing

\* Simulated loss.
Drop ==
  /\ lost_packets < packet_loss_count
  /\ lost_packets' = lost_packets + 1
  /\ UNCHANGED <<client_data, saved, verdict, undefined, toSender>>

Acknowledge(packet) ==
  toSender' = toSender \cup {[to |-> Key(packet), seq |-> packet.seq]}

\* What a disk that fills up keeps of a file: nothing, or its first packets. Its
\* blocks are longer than a packet and begin where one does.
Parts(content) == {{c \in content : c[1] < d[1]} : d \in content}

\* A file is shorter than one it is a part of; any other may be as long.
MayBeAsLong(old, content) == old = content \/ ~(old \subseteq content)

\* Faulty variant: the stream is believed, whatever is on the disk.
SaveUnchecked(key, content) ==
  /\ verdict' = Put(verdict, key, "passed")
  /\ \/ saved' = Put(saved, key, content)
     \/ DiskMayFail /\ \E part \in Parts(content) : saved' = Put(saved, key, part)
     \/ DiskMayFail /\ UNCHANGED saved

\* The file is written over any earlier one of that endpoint, and the size
\* of what can then be read is compared. A stream that failed is not noticed:
\* the file may be cut short, unreadable, or the earlier one still.
Save(key, content) ==
  \/ /\ saved' = Put(saved, key, content)
     /\ verdict' = Put(verdict, key, "passed")
  \/ /\ DiskMayFail
     /\ \E part \in Parts(content) \cup {content} : saved' = Put(saved, key, part)
     /\ verdict' = Put(verdict, key, "failed")
  \/ /\ DiskMayFail
     /\ UNCHANGED saved
     /\ \/ verdict' = Put(verdict, key, "failed")
        \/ /\ key \in DOMAIN saved /\ MayBeAsLong(saved[key], content)
           /\ verdict' = Put(verdict, key, "passed")

\* The packet is stored and acknowledged; the last one missing completes the
\* file, which is saved, and the vector is erased.
Accept(packet) ==
  /\ ~Overruns(packet)
  /\ Acknowledge(packet)
  /\ \/ /\ Complete(packet)
        /\ Save(Key(packet), Content(Stored(packet)))
        /\ client_data' = Erase(client_data, Key(packet))
     \/ /\ ~Complete(packet)
        /\ client_data' = Put(client_data, Key(packet), Stored(packet))
        /\ UNCHANGED <<saved, verdict>>
  /\ UNCHANGED <<lost_packets, undefined>>

\* Undefined behaviour: nothing can be said of the server from here on. It
\* acknowledges before the loop, so only a write past the end comes before.
Overrun(packet) ==
  /\ Overruns(packet)
  /\ undefined' = TRUE
  /\ \/ Acknowledge(packet)
     \/ packet.seq \notin DOMAIN Entry(packet) /\ UNCHANGED toSender
  /\ UNCHANGED <<client_data, lost_packets, saved, verdict>>

\* One turn of the server's loop.
ReceivePacket(packet) ==
  /\ ~undefined
  /\ packet \in toReceiver
  /\ toReceiver' = AfterReceiving(packet, toReceiver)
  /\ Drop \/ Accept(packet) \/ Overrun(packet)
  /\ UNCHANGED restarts

\* The server program is started again, with nothing but the files.
StartAgain ==
  /\ restarts < MaxRestarts
  /\ restarts' = restarts + 1
  /\ client_data' = EmptyMap
  /\ lost_packets' = 0
  /\ undefined' = FALSE

\* The server program dies between two datagrams and is started again.
ReceiverRestart ==
  /\ StartAgain
  /\ UNCHANGED <<saved, verdict, network>>

\* It dies after the last packet was acknowledged: before the file is opened,
\* which empties it, or before all of it is written and its size compared.
CrashWhileSaving(packet) ==
  /\ ~undefined
  /\ packet \in toReceiver
  /\ ~Overruns(packet) /\ Complete(packet)
  /\ toReceiver' = AfterReceiving(packet, toReceiver)
  /\ Acknowledge(packet)
  /\ StartAgain
  /\ \/ UNCHANGED <<saved, verdict>>
     \/ /\ LET content == Content(Stored(packet))
           IN  \E part \in Parts(content) \cup {content} : saved' = Put(saved, Key(packet), part)
        /\ verdict' = Erase(verdict, Key(packet))
=============================================================================
