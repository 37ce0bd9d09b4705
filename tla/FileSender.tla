----------------------------- MODULE FileSender -----------------------------
(***************************************************************************)
(* The function client of spo/lab2: stop-and-wait with at most             *)
(* MAX_RETRIES attempts per packet. A sendto is part of the step that      *)
(* decides it; the receive that follows is a step of its own.              *)
(***************************************************************************)
EXTENDS FileNetwork

CONSTANT MAX_RETRIES       \* attempts to send one packet

ASSUME RetriesAssumption == MAX_RETRIES \in Nat \ {0}

VARIABLES
  spc,             \* "new", "wait" (in recvfrom) or "done"
  index,           \* the packet being sent
  retries,         \* its attempts that failed
  acked            \* the packets reported as "Sent packet"

sender == <<spc, index, retries, acked>>

SenderState == {"new", "wait", "done"}

SenderInit ==
  /\ spc = [t \in Transfer |-> "new"]
  /\ index = [t \in Transfer |-> 0]
  /\ retries = [t \in Transfer |-> 0]
  /\ acked = [t \in Transfer |-> {}]

Sending(t) == spc[t] = "wait"

SendPacket(t, i) == toReceiver' = toReceiver \cup {[transfer |-> t, seq |-> i]}

\* The `for' over the packets: on to packet i, or out of the loop.
GoTo(t, i) ==
  /\ index' = [index EXCEPT ![t] = i]
  /\ retries' = [retries EXCEPT ![t] = 0]
  /\ \/ i < Total[t] /\ SendPacket(t, i) /\ spc' = [spc EXCEPT ![t] = "wait"]
     \/ i >= Total[t] /\ UNCHANGED toReceiver /\ spc' = [spc EXCEPT ![t] = "done"]

\* The file was read and cut into packets; an empty one has none. The port is
\* free, the operating system gives it to one socket at a time.
StartSending(t) ==
  /\ spc[t] = "new"
  /\ \A other \in Transfer : Sending(other) => EndpointOf[other] # EndpointOf[t]
  /\ GoTo(t, 0)
  /\ UNCHANGED <<acked, toSender>>

\* The socket or the file cannot be opened.
OpenFails(t) ==
  /\ spc[t] = "new"
  /\ spc' = [spc EXCEPT ![t] = "done"]
  /\ UNCHANGED <<index, retries, acked, network>>

\* Faulty variant: one attempt fewer, the others as in Retry.
RetryOneLess(t) ==
  LET failed == retries[t] + 1
  IN  \/ /\ failed < MAX_RETRIES - 1
         /\ retries' = [retries EXCEPT ![t] = failed]
         /\ SendPacket(t, index[t])
         /\ UNCHANGED <<spc, index>>
      \/ failed >= MAX_RETRIES - 1 /\ GoTo(t, index[t] + 1)

\* Faulty variant: the attempts are counted off by one.
RetryOneMore(t) ==
  LET failed == retries[t] + 1
  IN  \/ /\ failed <= MAX_RETRIES
         /\ retries' = [retries EXCEPT ![t] = failed]
         /\ SendPacket(t, index[t])
         /\ UNCHANGED <<spc, index>>
      \/ failed > MAX_RETRIES /\ GoTo(t, index[t] + 1)

\* Faulty variant: a packet is sent again and again.
RetryForever(t) ==
  /\ SendPacket(t, index[t])
  /\ UNCHANGED <<spc, index, retries>>

\* An attempt failed. After MAX_RETRIES of them the packet is given up and
\* the loop goes on with the next one.
Retry(t) ==
  LET failed == retries[t] + 1
  IN  \/ /\ failed < MAX_RETRIES
         /\ retries' = [retries EXCEPT ![t] = failed]
         /\ SendPacket(t, index[t])
         /\ UNCHANGED <<spc, index>>
      \/ failed >= MAX_RETRIES /\ GoTo(t, index[t] + 1)

\* Faulty variant: any acknowledgement will do.
RecvAckUnchecked(t, ack) ==
  /\ Sending(t)
  /\ ack \in toSender
  /\ ack.to = EndpointOf[t]
  /\ toSender' = AfterReceiving(ack, toSender)
  /\ acked' = [acked EXCEPT ![t] = @ \cup {index[t]}]
  /\ GoTo(t, index[t] + 1)

\* recvfrom takes whatever was sent to the socket; an acknowledgement of
\* another packet is a failed attempt.
RecvAck(t, ack) ==
  /\ Sending(t)
  /\ ack \in toSender
  /\ ack.to = EndpointOf[t]
  /\ toSender' = AfterReceiving(ack, toSender)
  /\ \/ /\ ack.seq = index[t]
        /\ acked' = [acked EXCEPT ![t] = @ \cup {index[t]}]
        /\ GoTo(t, index[t] + 1)
     \/ ack.seq # index[t] /\ UNCHANGED acked /\ Retry(t)

\* The packet or its acknowledgement is still under way.
UnderWay(t) ==
  \/ \E packet \in toReceiver : packet.transfer = t
  \/ \E ack \in toSender : ack.to = EndpointOf[t]

\* SO_RCVTIMEO expires after TIMEOUT_SEC.
Timeout(t) ==
  /\ Sending(t)
  /\ Timely => ~UnderWay(t)
  /\ Retry(t)
  /\ UNCHANGED <<acked, toSender>>
=============================================================================
