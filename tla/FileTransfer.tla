---------------------------- MODULE FileTransfer ----------------------------
(***************************************************************************)
(* The file transfer laboratory (spo/lab2) as a system: several runs of    *)
(* the client, one server, and the network between them.                   *)
(***************************************************************************)
EXTENDS FileSender, FileReceiver

vars == <<toReceiver, toSender, spc, index, retries, acked,
          client_data, lost_packets, saved, verdict, undefined, restarts>>

Init ==
  /\ toReceiver = {}
  /\ toSender = {}
  /\ SenderInit
  /\ ReceiverInit

SenderStep(t) ==
  /\ \/ StartSending(t)
     \/ OpenFails(t)
     \/ \E ack \in toSender : RecvAck(t, ack)
     \/ Timeout(t)
  /\ UNCHANGED receiver

ReceiverStep ==
  \/ \E packet \in toReceiver :
       (ReceivePacket(packet) \/ CrashWhileSaving(packet)) /\ UNCHANGED sender
  \/ ReceiverRestart /\ UNCHANGED sender

Next == ReceiverStep \/ \E t \in Transfer : SenderStep(t)

Spec == Init /\ [][Next]_vars

-----------------------------------------------------------------------------
(* Safety *)

\* A vector has the size its first packet announced.
Vectors == UNION {[Slots(t) -> Transfer \cup {Missing}] : t \in Transfer}

\* The type invariant; a client that waits is waiting for a packet it has.
TypeOK ==
  /\ toReceiver \subseteq Packet
  /\ toSender \subseteq Ack
  /\ spc \in [Transfer -> SenderState]
  /\ index \in [Transfer -> Nat]
  /\ \A t \in Transfer : Sending(t) => index[t] \in Slots(t)
  /\ retries \in [Transfer -> 0 .. MAX_RETRIES - 1]
  /\ acked \in [Transfer -> SUBSET Nat]
  /\ DOMAIN client_data \subseteq Endpoint
  /\ \A e \in DOMAIN client_data : client_data[e] \in Vectors
  /\ DOMAIN saved \subseteq Endpoint
  /\ \A e \in DOMAIN saved : saved[e] \subseteq Nat \X Transfer
  /\ DOMAIN verdict \subseteq DOMAIN saved \cup {e \in Endpoint : DiskMayFail}
  /\ \A e \in DOMAIN verdict : verdict[e] \in {"passed", "failed"}
  /\ lost_packets \in 0 .. packet_loss_count
  /\ undefined \in BOOLEAN
  /\ restarts \in 0 .. MaxRestarts

\* The file of transfer t, every packet of it in its place.
Whole(t) == Slots(t) \X {t}

IsSaved(t) == EndpointOf[t] \in DOMAIN saved /\ saved[EndpointOf[t]] = Whole(t)

\* The client printed "Sent packet" for every packet of its file.
Reported(t) == spc[t] = "done" /\ Total[t] > 0 /\ acked[t] = Slots(t)

Failed(t) == EndpointOf[t] \in DOMAIN verdict /\ verdict[EndpointOf[t]] = "failed"

\* "Integrity check passed" is printed of somebody's file, whole, and is true
\* until the file is next written: however packets are lost, repeated,
\* reordered or left over from a transfer that was given up or completed, and
\* whatever the disk or a crash leaves of a file.
PassedIsSent ==
  \A e \in DOMAIN verdict : verdict[e] = "passed" =>
    \E t \in Transfer : EndpointOf[t] = e /\ IsSaved(t)

\* client_data[client_key][...] never leaves the vector.
NoOverrun == ~undefined

\* A client that was told every packet was received is right to believe that
\* its file is on the server's disk, unless the server printed "Integrity
\* check failed" or was restarted: the last acknowledgement cannot arrive
\* without the file or that line.
ReportedIsSaved ==
  restarts = 0 => \A t \in Transfer : Reported(t) => IsSaved(t) \/ Failed(t)

-----------------------------------------------------------------------------
(* The inductive invariant of the proofs, for clients with endpoints of    *)
(* their own.                                                              *)

Distinct == \A t, u \in Transfer : EndpointOf[t] = EndpointOf[u] => t = u

\* The slot of the receiver's vector for packet i of transfer t is filled.
IsStored(t, i) ==
  EndpointOf[t] \in DOMAIN client_data /\ client_data[EndpointOf[t]][i] = t

\* A vector belongs to one transfer, has its size, and is not full: a full
\* one is saved and erased in the step that fills it.
VectorsOwned ==
  \A e \in DOMAIN client_data : \E t \in Transfer :
    /\ EndpointOf[t] = e
    /\ client_data[e] \in [Slots(t) -> {t, Missing}]
    /\ \E i \in Slots(t) : client_data[e][i] = Missing

\* A file holds packets of its own transfer only.
FilesOwned ==
  \A e \in DOMAIN saved : \E t \in Transfer : EndpointOf[t] = e /\ saved[e] \subseteq Whole(t)

\* What was acknowledged is in the vector, or was when the file was saved.
AcksBacked ==
  restarts = 0 =>
    \A t \in Transfer : \A i \in Slots(t) :
      i \in acked[t] \/ [to |-> EndpointOf[t], seq |-> i] \in toSender
      => IsSaved(t) \/ Failed(t) \/ IsStored(t, i)

IInv == TypeOK /\ NoOverrun /\ PassedIsSent /\ VectorsOwned /\ FilesOwned /\ AcksBacked

-----------------------------------------------------------------------------
(* The promise kept *)

Delivery == INSTANCE FileDelivery WITH
  delivered <- {t \in Transfer : IsSaved(t)}, failed <- {t \in Transfer : Failed(t)},
  reported <- {t \in Transfer : Reported(t)}, crashed <- restarts > 0

\* Every step brings a whole file to the disk or says that it could not, ends a
\* client that reports it as sent after that, is a crash that costs one file at
\* most, or is invisible; no file is overwritten by another.
ImplementsDelivery == Delivery!Spec

-----------------------------------------------------------------------------
(* Liveness *)

\* The server serves its socket's queue in order; the client's recvfrom has a
\* time-out. Nothing makes a user start a client.
Fairness ==
  /\ Timely => \A packet \in Packet : WF_vars(ReceivePacket(packet) /\ UNCHANGED sender)
  /\ \A t \in Transfer : WF_vars(Sending(t) /\ SenderStep(t))

FairSpec == Spec /\ Fairness

\* Every client ends, whatever the network does and whatever old
\* acknowledgements it receives.
SenderTerminates == \A t \in Transfer : Sending(t) ~> spc[t] = "done"

\* With a network that loses nothing, fewer simulated losses than attempts
\* and no restart, every file that is started arrives and is reported so.
FileArrives == \A t \in Transfer : Sending(t) ~> IsSaved(t) /\ Reported(t)

=============================================================================
