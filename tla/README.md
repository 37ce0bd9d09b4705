# Verification of sibsutis_labs

The repository collects laboratory work: two network programs in C++ (a DHCP
server and client, a file transfer over UDP), a small cryptography library, two
radio-link exercises, and many scripts that compute and plot. This directory
holds TLA+ models of the parts that have behaviour of their own, TLC
configurations that check them, and proofs for TLAPS about every one of them.

Run from this directory: `tlc -config DhcpPool.cfg MCDhcp.tla` checks a
configuration, `tlapm DhcpProofs.tla` the proofs of a module. `PROJECT.json`
lists components, runs, the source lines of every definition, the hazards and
the properties that watch them, and the theorems.

## 1. Inventory

| Component | State it keeps | Operations | Interacts by |
|---|---|---|---|
| DHCP server, `spo/lab3/server` | `allocatedIps`: MAC to address, in memory; the pool 172.18.0.100-200 | receive, `handleDiscover`, `handleRequest`, `sendPacket`, start, kill | UDP ports 67 and 68 |
| DHCP client, `spo/lab3/client` | progress of one exchange, MAC, `xid`, `clientAddr` | `sendDiscover`, `handleOffer`, `sendRequest`, `handleAck`, time-out | UDP, one socket per host (port 68 can be bound once) |
| File transfer, `spo/lab2/main.cpp` | sender: packet, retries; receiver: `client_data` (a vector per address and port), files on disk | send, receive ACK, time-out, retry, give up; receive, drop, store, acknowledge, save, erase | UDP, data one way and sequence numbers back |
| RSA coder, `cryptography_lib/RSAcoder.cpp`, `Functions.cpp` | p, q, n, phi, d, c | `configure`, `gen_keys`, `encode`, `decode` | called by a program |
| Vernam coder, `Fileworker`, `BMPworker`, `cryptography/main.cpp` | the key; the header of the last image | read, encode, write, decode, compare | files |
| CRC, `bmcs/lab5` | `lab5.cpp`, `lab5.py`: the counts of errors found and missed | `calculate_crc`, `check_for_errors`, `compute_crc`; flip every bit in turn; flip two bits, for each of four generators | the radio link computes its CRC the same way |
| Radio link, `bmcs/rgr/rgr.py` | the signal, the decoded bits | frame, sample, add noise, synchronise, decide, validate | a noisy channel |
| Gold sequences, `bmcs/lab4/lab4.c` | two shift registers, a sequence of 31 bits | generate, test for an m-sequence, print the table of shifts | - |
| `bmcs/rgr/rgr_extra.py`, `bmcs/lab1`-`lab3`, `dsp`, `signals-processing`, `tmo` | none | floating-point computations, plots | - |
| `aocs/lab1`, `lab3` | none | scripts, Ansible playbooks | other programs |
| `aocs/lab2/main.go` | a channel of one signal | print signals for ever | signals |

What is hard here, component by component, and the properties that answer it:

* **DHCP.** Several clients share one table; datagrams are lost, repeated and
  late, and every client process draws the same transaction number because
  `rand()` is never seeded, so an answer to one exchange may reach another. The
  server may be killed and has nothing on disk. The pool may be used up, and
  `setIp("")` does not do what its callers think. Correct means: no address is
  given twice, what was promised stays in the table, only an exhausted pool
  turns a client away, and every client ends. A datagram without the magic
  cookie or option 53 passes for a DISCOVER and takes an address as well.
* **File transfer.** Stop-and-wait with three attempts: late and repeated
  acknowledgements meet later packets, a packet given up is followed by the
  rest, the receiver forgets everything when it is restarted, two runs of the
  client may use one port, and the file is written without a look at the
  stream, perhaps over an earlier one, by a server that may die meanwhile.
  Correct means: a file that passed the integrity check is a file that was sent,
  a reported success is a saved file or one reported as failed, the receiver
  stays within its vectors, senders end, and files arrive if the network lets
  them.
* **RSA coder.** Random primes from a weak test, an extended Euclid whose
  cofactors may be negative, two loops that draw until a number fits, and bytes
  that may exceed the modulus. Correct means: primes are prime, c is the inverse
  of d, the constructor ends and decoding restores what it can.
* **Cryptography program.** It decodes what it has in memory, not the file it
  wrote, does not look at what `fwrite` returns, and prints a verdict. Correct
  means: the verdict is true of the files, as far as the disk took them.
* **CRC and radio link.** Off-by-one errors in the division and in cutting the
  frame; correlation peaks in the wrong place; errors a CRC cannot see. Correct
  means: what is accepted is what was sent under all noise the CRC is made for,
  no single error is missed, and two are missed exactly where algebra says.
* **Gold sequences.** Bit operations that do not deliver bits (`x & 2`), a
  loop that always compares the same shift.

## 2. Modules

| Module | Models | EXTENDS |
|---|---|---|
| `DhcpNetwork` | packets, address conversions, datagrams in flight | |
| `DhcpServer` | `IpPool`, `DHCPServer` | `DhcpNetwork` |
| `DhcpClient` | `DHCPClient` | `DhcpNetwork` |
| `Dhcp` | the system, its properties, `IInv` | both |
| `LeaseRegistry` | what the server promises: an abstract registry | |
| `FileNetwork`, `FileSender`, `FileReceiver`, `FileTransfer` | the file transfer, in the same arrangement | |
| `FileDelivery` | what the transfer promises: whole files, reported after they are there | |
| `NumberTheory` | `pow_mod`, `gcd`, `ferm_test` | |
| `RsaCoder` | `RSAcoder` with `algorithm_Euclid` step by step | `NumberTheory` |
| `Cryptography` | the program with either coder and either worker | `RsaCoder` |
| `Crc` | `calculate_crc`, `check_for_errors`, `compute_crc` | |
| `CrcExperiment` | the loops of `lab5.cpp` and `lab5.py` | `Crc` |
| `Transmission` | `rgr.py` | `Crc` |
| `GoldSequence` | `lab4.c` | |
| `MCDhcp`, `MCFileTransfer`, `MCCryptography`, `MCGoldSequence` | instances for TLC | the module named |
| `MCTransmission` | instances for TLC of the programs with a CRC, of which one runs at a time | `Transmission`, `CrcExperiment` |
| `Arithmetic` | lemmas that are not about the programs: induction, functions defined by recursion, divisibility, congruence, powers, Fermat's theorem, the identity of RSA | |
| `DhcpProofs`, `FileTransferProofs`, `RsaCoderProofs`, `CryptographyProofs`, `TransmissionProofs`, `GoldSequenceProofs` | theorems and proofs | the module named |
| `CrcProofs` | theorems and proofs about `Crc` and `CrcExperiment` | `CrcExperiment` |

### State and actions

**One thread, one action.** Both servers receive a datagram, handle it to the end
and receive the next, so a handler with every call it makes is one action:
`ServerReceive` is a turn of the loop in `DHCPServer::start` with
`handlePacket`, and `ReceivePacket` a turn of the loop in `server` of
`spo/lab2`, from the simulated loss to the erased vector. A client's send belongs
to the step that decides it (`HandleOffer` contains `sendRequest`; `GoTo` sends
the next packet), because nothing can happen to the client between the two.

**Network.** `toServer`, `toClient`, `toReceiver` and `toSender` are sets of
datagrams in flight. On an unreliable network receiving does not remove a
datagram: it may be received again, late, after others, or never. That covers
loss, duplication and reordering at once. On a reliable (`Timely`) network a
datagram is received once, and a time-out cannot happen while one is under way.

**Data.** An address is its last octet, with 0 and 255 for 0.0.0.0 and
255.255.255.255; `InetAddr` keeps the one conversion that matters, from the
empty string to `INADDR_NONE`, and `GetMessageType` the other one: no option is
DISCOVER. A packet of a file is represented by the transfer it comes from and its
number. A damaged packet is dropped by the receiver and is the same as a lost one.
Files of the cryptography program are bytes, and `^` is `BitXor`, a constant of
which the proofs use only that it is its own inverse; the runs put the exclusive
or of the community modules in its place. Samples of the radio link are 0 or 1;
noise carries a sample across the threshold or leaves it.

**Disks.** A write whose result the code ignores may leave part of the file.
The receiver of `spo/lab2` then compares sizes, so `saved` is what is on its disk
and `verdict` what it printed: a file cut short is noticed; an earlier file of the
same endpoint that could not be opened for writing is not, if it is as long. The
disk cuts a file where a packet begins, since its blocks are multiples of 128
bytes. `CrashWhileSaving` is a death after the last acknowledgement was sent: the
file is untouched, cut or complete, and nothing was printed. The cryptography
program compares nothing it wrote: `OnDisk` says what is left, and `cutShort`
which file it befell.

**Faulty variants.** Definitions commented `Faulty variant` are not used by any
specification. Each is a plausible mistake in the definition after it; put in its
place, it makes a property fail, which is how each property was shown to bite.

**Histories.** `incarnation` and `granted` (which start of the server gave an
address), `acked`, `verdict` of the receiver, `undefined`, `restarts`, `cutShort`,
`distances` and `hit` record what happened, for the properties; no guard of the code's own reads them, except that a server whose
behaviour is undefined takes no further step, that bounds count restarts, noise
strikes once and `lab5.py` makes as many tests as it has distances.

**The cryptography program.** `main.cpp` uses a `VernamCoder` and a `Fileworker`.
`RSAcoder` and `BMPworker` have the same operations but no caller in the
repository, so `Cryptography` sends all four combinations through the steps of
`main`. (For what it is worth, `main` prints that it saved `encoded_text.txt`
whatever the name of the file is.)

## 3. Runs

| Run | Checks | Instance | States |
|---|---|---|---|
| `DhcpRestart` | `TypeOK`, `UniqueAddress`, `ClaimsBacked`, `ImplementsRegistry` | 3 clients on 2 hosts, 2 MACs, 1 address, lossy, 1 restart | 900,000 |
| `DhcpPool` | `IInv`, `RefusalMeansExhausted`, `LeaseIsExclusive`, `ClientTerminates` | 3 clients, 3 MACs, 2 addresses, lossy, with a stranger | 439,000 |
| `DhcpReliable` | `NoReplyWithoutAddress`, `ClientIsServed` | 3 clients, 3 MACs, 3 addresses, reliable, with a stranger | 83,000 |
| `DhcpExhausted` | `NoReplyWithoutAddress`: violated | 2 MACs, 1 address | |
| `DhcpLease` | `LeaseIsExclusive`: violated | 2 MACs, 1 address, 1 restart | |
| `FileLossy` | `IInv`, `PassedIsSent`, `NoOverrun`, `ReportedIsSaved`, `ImplementsDelivery` | 3 transfers of 2, 0, 2 packets, own endpoints, lossy, 1 simulated loss, a disk that may fail, 1 restart | 465,000 |
| `FileReuse` | `TypeOK`, `SenderTerminates` | 2 and 3 packets over one endpoint, lossy, 1 restart | 209,000 |
| `FileTimely` | `FileArrives` | files of 2, 1, 3 packets, two over one endpoint in turn, 2 simulated losses | 1,600 |
| `FileMixed` | `PassedIsSent`: violated | two files over one endpoint, 3 simulated losses | |
| `Transmission` | `CleanIsAccepted`, `FrameIsFound`, `AcceptedIsSent`, `AcceptedIsMultiple`, `SinglesAreDetected`, `DoublesMissedByOrder` | the link: 3 messages, 1 or 3 samples per bit; the experiments: 2 data, 4 generators | 78,000 |
| `Cryptography` | 9 properties of coder and program | all primes, 6 random numbers, 3 files, 4 combinations, a disk that may be full | 381,000 |
| `GoldSequence` | `SequenceIsSum`, `YIsMaximal`, `TableIsPeriodic`, `OneShiftIsEnough` | every pair of registers | 108,000 |

### Why the instances are large enough

* *DHCP.* Clients c1 and c3 share a host, so that a run meets the leftovers of an
  earlier one and port 68 is contended; c2 is elsewhere. Two clients may draw the
  same MAC. One address and two MACs is the smallest exhausted pool that restarts
  can hand to two machines; two addresses and three MACs distinguishes first, last
  and none left. A stranger, on a host of its own, has one datagram or reply under
  way at a time: as datagrams of an unreliable network are never used up it then
  sends one in a run of `DhcpPool` and any number in one of `DhcpReliable`; its MAC
  may be a client's. `MaxRestarts = 1` gives a before and an after; what happens at a
  second restart is what happened at the first, and the proofs are for any number.
* *File transfer.* Three transfers, among them an empty file and one longer than
  the other at its endpoint, which is what leads out of the vector;
  `MAX_RETRIES = 3` is the code's. A file of two packets can be cut to nothing
  and to its first packet, and `DiskMayFail` allows that at every save. `packet_loss_count` is below the retries where
  files must arrive and equal to them where one is to be given up.
* *Radio link.* The generator and the registers are the program's, and 31 is its
  length of the Gold sequence; a message is one letter (8 bits), so that a frame
  has 46 bits. The program uses 10 samples per bit; 1 and 3 are the smallest
  odd numbers, with no ties of the mean. `Burst = 7` samples is the length of the
  CRC in bits: the longest burst a CRC of 7 bits is certain to see. With 8,
  `AcceptedIsSent` is violated, as theory says. Any two bits may be wrong as well.
* *CRC experiments.* Generators are the programs' own. One data has 122 bits, so
  that two errors can be 127 bits apart, the distance at which the generators of 8
  and 16 bits miss them; the other the 21 bits of the first sample of `lab5.cpp`.
  The first error is in position 1 or 8 (`FirstError`), the second anywhere after
  it, and each generator is tested once (`num_tests` is 1 instead of 2000):
  tests of one generator share nothing but the count.
* *Cryptography.* Every number `gen_prime` can draw is in the instance. Six values
  stand for those of `gen_random`: small ones so that every pair of primes has
  a key, larger ones up to the limit, and an even one that is always
  rejected. Of a file cut short nothing is left, or all but one byte (`OnDisk`),
  which cuts through a number. The files are empty, as short as the header, and one
  with bytes above the smallest n. `HeaderSize` is 1 instead of 54.
* *Gold sequences.* All pairs of five-bit registers from which the second round's
  `x + 1` and `y - 5` are again five-bit registers; the source has (18, 10).

`CHECK_DEADLOCK FALSE` stands where programs end: the file transfer once every
client has ended and nothing is in flight, the link, the cryptography program and
`lab4`; and in `DhcpReliable`, where every datagram may have been received and
every client have ended while a reply to the stranger is left that nobody takes.
The other DHCP runs need it not: their network never runs dry.

### What the runs show

The protocols keep their promises under loss, repetition and restarts. Three
runs find disagreements between the code and what its own text says:

1. `DhcpExhausted`. `handlePacket` means to send nothing when there is no address
   ("No response sent for MAC ... (no IP available)", `server.cpp:251`), but the
   test is `getIp().empty()`, and `getIp` formats a number: after `setIp("")` that
   is 255.255.255.255, which is sent, and the client takes it for its address.
2. `DhcpLease`. Every ACK grants 24 hours (`server.hpp:19`); the table is gone
   after a restart and the address is given to the next client.
3. `FileMixed`. The "integrity check" (`spo/lab2/main.cpp:148`) compares the size
   of the file with the sizes of the packets it was made of. When a transfer is
   given up half-way and another run of the client gets the same port, the file
   saved is a mixture, and the check passes.

Facts the models brought to light that contradict no text:

* With endpoints of their own, what passed the integrity check of `spo/lab2` is the
  file sent, although only sizes are compared and the disk may fail or the server
  die while it writes (`PassedIsSent` in `FileLossy`).
* A client of `spo/lab2` that printed success may belong to a file the server
  reported as failed: the last acknowledgement is sent before the file is written
  (the second half of `ReportedIsSaved`).
* Datagrams that are no requests, even those without the magic cookie, take
  addresses from the pool (`Stray`); as long as there is one for every MAC this
  harms nobody (`ClientIsServed`, `NoReplyWithoutAddress` in `DhcpReliable`).
* The generators of 8 and 16 bits in `lab5.py` miss the same pairs of errors, those
  127 bits apart or a multiple of it; that of 4 bits those a multiple of 7 apart,
  that of 24 bits none in these data (`DoublesMissedByOrder`).
* `main` of the cryptography program prints that it saved what a full disk has
  cut short. "Correctly encoded and decoded" is then true of as much as there is
  (`VerdictIsTrue`).
* Only one shift is ever compared in `check_autocorrelation`, but no pair of
  registers exists for which comparing all of them would decide otherwise
  (`OneShiftIsEnough`); the first register of `lab4.c` has lost a tap to `x & 2` and
  repeats every second bit (`SequenceIsSum`), while the second is of maximal length
  (`YIsMaximal`).
* The loop around `gen_keys` is never entered (`NoSecondDraw`).

## 4. Fairness

* `Dhcp`: a client that waits in `recvfrom` is weakly fair, since
  `SO_RCVTIMEO` ends every wait. Receiving each packet at the server is weakly
  fair only if `Reliable`: the server is one loop over the queue of its socket.
  Nobody is assumed to start a client.
* `FileTransfer`: the same, with `TIMEOUT_SEC` at the sender. For `FileArrives`
  the budget of simulated losses is finite in the code (`packet_loss_count`), so no
  assumption about the random generator is needed.
* `Cryptography`: weak fairness of the next step of a sequential program. The
  loops that draw until a number fits are single steps: they end with
  probability 1.
* `Transmission`, `CrcExperiment` and `GoldSequence` have safety properties only:
  their loops count up to a bound.

## 5. Proofs

For every value of the constants that satisfies the named assumptions of the
modules (a pool within the octet, functions of the right type, a marker that is no
transfer, a `BitXor` that is its own inverse):

* `DhcpProofs`. `TypeCorrect`; `InvCorrect`, from which `UniqueAddressCorrect`,
  `ClaimsBackedCorrect` and `RefusalCorrect` follow, and `RegistryCorrect`:
  the protocol implements `LeaseRegistry`. `UniqueAddress` is not inductive: an
  ACK still in flight may make two clients equal later. `IInv` therefore speaks of
  all claims, those in packets and those clients hold, and says that the table is
  injective (`Injective`), that the claims of the running server are in the table
  (`ClaimsBacked`), that claims of one start agree with each other although a
  restart has dropped the table they came from (`ClaimsAgree`), and, for
  `RefusalMeansExhausted`, what REQUESTs and refusals in flight imply about the
  table (`RefusalsAgree`). The proof goes action by action; most of it is the lemma
  that the table only ever grows within a run of the server. Two theorems say
  when the promises hold that `DhcpLease` and `DhcpExhausted` refute:
  `LeaseCorrect`, leases are exclusive if the server is never restarted, and
  `PoolCorrect`, no reply goes out without an address if, moreover, the pool is at
  least as large as the set of MACs (`PoolSuffices`: an injective table with an
  entry short leaves an address free, by counting). `RegistryKeeps` is about the
  abstract registry alone: its table is injective and the leases in force are in
  it, whatever it does, so that to implement it is a promise. The last section
  assumes `GoodService`, what the run `DhcpReliable` has: no datagram is lost, the
  server lives, the pool suffices, and no other program runs on a client's host.
  `ExchangeCorrect` then says that exactly one packet is under way for each running
  client, the request it sent last or the reply it waits for, and that nothing of
  an earlier client on its host is left. Hence `EndsServedCorrect`, a client
  that was started ends only with an address, and `ExchangeMovesOnCorrect`: DISCOVER
  sent, OFFER sent, REQUEST sent, ACK sent, and no step of anyone leads back.
  `ReceivesRunOutCorrect` is about any network: a client has two receives, its own
  steps use them up, and nobody else's change how many are left.
* `FileTransferProofs`. `TypeCorrect` for any endpoints; for distinct endpoints
  (`Distinct`) `InvCorrect`, `PassedIsSentCorrect`, `ReportedIsSavedCorrect` and
  `DeliveryCorrect`, the implementation of `FileDelivery`, with a disk that may
  fail and a server that may die at any point. The assumption is needed:
  `FileMixed` refutes `PassedIsSent` without it. `IInv` adds that each vector belongs
  to one transfer and has a gap (`VectorsOwned`: a full one is saved in the step that
  fills it), that a file on the disk holds packets of its own transfer only, however
  short it was cut (`FilesOwned`, which is why a size that matches means the whole
  file), and that every acknowledgement, in flight or received, is of a packet still
  in the vector, of a file already saved or of one reported as failed (`AcksBacked`).
  `NoOverrunCorrect` needs less: that runs which share an endpoint have files of as
  many packets (`SameLength`), since a vector is as long as the packet that created
  it says. `DeliveryKeeps` is about the abstract delivery alone: it keeps
  `ReportedIsSaved` whatever it does.
  The last section is about the network of `FileTimely`, where endpoints are used
  again: nothing comes late or is lost but what the server drops on purpose, fewer
  datagrams than a client has attempts (`EnoughAttempts`). The invariant `TurnInv`
  says that clients take turns (`EndpointsTaken`, `OneUnderWay`), that a vector holds
  the first packets of the client whose turn it is (`VectorInTurn`), and that each
  attempt used is a datagram dropped (`AttemptsBacked`), so that no packet is given
  up. Hence `TimelyNoOverrun`; `TimelyPassedIsSent`, for a disk that takes everything,
  which is what `FileMixed` refutes when the server drops as many datagrams as
  there are attempts; and `EndsWellCorrect`, a client ends only with its file on the
  server's disk, unless the disk failed. `AttemptsRunOutCorrect` holds on any network: each step of
  a client uses up an attempt, and nothing gives one back.
* `RsaCoderProofs`, for every set of candidates and random numbers. `TypeCorrect`;
  `RowsCorrect`, the invariant of the extended Euclid algorithm; `CofactorCorrect`,
  that the exponent is the inverse of d modulo phi up to the divisor found,
  negative cofactors included. `KeysCorrect`, the invariant `KeysInv`, adds that
  the two ends of the rows have the divisors of phi and d (`EuclidInv`) and that
  keys that are ready are inverse to each other modulo phi. `Gcd` accepts only d with
  no divisor in common with phi, so that the loop ends with divisor 1: hence
  `KeysAreKept`, the loop around `gen_keys` in `configure` is never entered. Lemmas say
  what `PowMod` and `Gcd` compute and that every odd prime passes `FermTest`.
  The converse is false of 341: `PrimesCorrect`, the factors are prime, assumes
  candidates from 5 to 124 (`CandidatesOfProgram`), among which `gen_prime` draws. It
  rests on `TestIsExact`: an odd composite below 125 is the square of a prime, a
  multiple of 9, or a prime times 3, 5, 7 or 15, and passing the test would make a
  power of 2 that is known be 1 modulo that prime.
* `CryptographyProofs`, for every file, pad and size of a header. From
  `CryptoInvCorrect`: `VernamCorrect`, a `VernamCoder` restores every file;
  `VerdictCorrect`, for either coder and worker what `main` prints is true of its
  files if decoding does what `DecodedIsData` says; `ClaimCorrect`, success is
  never claimed wrongly, whatever the coder does. `CryptoInv` says how header and data
  make up the file that was read (`InputSplit`) and that what was decoded is on
  the disk behind the same header, as far as the disk took it (`FileBacked`); bytes
  survive `LowByte`, and a common header can be cancelled. `DecodedCorrect` then
  covers the `RSAcoder`: if the factors are prime (`FactorsArePrime`), every number
  is restored modulo n, by the identity of RSA, m^(c d) = m modulo p q when c d = 1
  modulo (p - 1)(q - 1), and what the keys are by `KeysInv`; so is what `main` says
  (`VerdictOfPrimes`). For the candidates of the program they are prime
  (`ProgramPrimes`), which leaves nothing to assume: `ProgramDecodes` and
  `ProgramVerdict`. `ProgramMovesOn`: every step brings `main` or the constructor
  further, or lowers a natural number. `EncodedFileCorrect`: what the disk took of
  the encoded file is enough to restore the beginning of the data, in the formats of
  both workers, a number cut in two included.
* `CrcProofs`, for every generator whose first and last bits are 1 and all
  data. A division is a recursive function over the bits; the proofs see the bits
  as the set of positions that are 1, and a turn of the loop as a symmetric
  difference with a shifted generator. Then the remainder of a sum is the sum of the
  remainders (`DivisionOfSum`), data with its CRC leaves nothing
  (`CodewordDivides`), and only the error decides (`ErrorDecides`). One wrong bit
  always leaves something (`SinglesDetected`); two leave nothing exactly
  when the power of x for their distance is 1 (`DoublesMissed`): dividing is
  multiplying by x one bit at a time (`ResidueIsPower`), and x can be cancelled. The
  invariant `ExperimentInv` relates the counters to the distances tested so far.
* `TransmissionProofs`, for all messages, registers, generators and numbers of
  samples per bit. `AcceptedAreMultiples`: a division that leaves nothing has found
  the quotient, and a product leaves nothing. `CleanFramesAccepted`: at offset 0
  all ones of the pattern are met, nowhere more can be, and `argmax` takes the first
  such offset, so that the frame is found and cut where it was put together.
  `AcceptedCorrect`: when the frame is found (`FrameIsFound`), what is accepted is what
  was sent. `NoiseInv` says that the signal is the clean one with a burst or
  two samples hit; samples decide bits by majority, so that the bits that are wrong
  lie within the burst or are two at most (`ErrorsAreStruck`); no burst within the
  length of the CRC is a multiple of the generator (`BurstIsDetected`), and no pair
  whose distance is not an order of x (`PairIsDetected`). The hypothesis
  `NoiseWithinCrc` states these bounds: `Burst` is at most the length of the CRC,
  and no two positions of a message with its CRC are an order of x apart. The order
  of the program's generator is 127, so that this is true of names of up to 15
  letters, as in the run; a longer name can be changed in two places unnoticed.
  `FrameFound` says when the hypothesis `FrameIsFound` is true: if noise hits none of
  the ones of the Gold sequence (`SparesPattern`, it may hit all the rest), or no
  more samples than the peak of the frame as sent stands out by (`PeakStandsOut`):
  a sample that is hit changes the correlation at an offset by one at most. With
  it, `SparedIsSent` assumes nothing of what the receiver finds. With three samples
  per bit one or the other is true of all noise of the run; with one sample per
  bit a burst of 7 may hit more.
* `GoldSequenceProofs`, for all registers. `TableCorrect`: 31 shifts restore the
  sequence, and the column of correlations reads the same from both ends.
  `TableInv` says that row k is the sequence rotated by k; for sequences of any
  length and elements, a shift rotates once more (`ShiftRotates`), and rotating by n
  one way or the other compares the same pairs (`AutocorrSymmetric`, by a bijection
  between the places that agree). `SequenceCorrect`: the sequence is the sum of the
  two recurrences; `SumInv` says that each register holds the next five bits of its
  recurrence and that the sequence ends with the sums so far. `PeriodCorrect`: the
  second register is of maximal length; `PeriodInv` counts its place in the one
  cycle of the 31 numbers other than 0. `OneShiftCorrect`: `check_autocorrelation`
  compares a single shift and finds what a comparison with all of them would.
  `UncorrelatedMeans` says what that is: the sequence passes exactly when the second
  register was not 0. If it was, the sequence repeats itself or its complement from
  the fourth bit on (`ShiftRepeats`). If it was not, no shift agrees in fewer than 8
  or more than 23 of the 31 places (`ShiftsDiffer`). Of this there is no shorter
  reason than the sums themselves: `Agreements` writes a correlation out over the
  places (`CorrelationCounts`), `SumBits` each bit over the first five bits of both
  recurrences, and the solver decides the 15 sums that remain; the other shifts are
  the same from the other end of the table.

What the theorems assume of the constants is what the named assumptions say: RSA
candidates and random numbers are natural numbers; a generator begins and ends with
1 (`GeneratorAssumption`, `GeneratorsAssumption`), as those of the programs do; data
are bits, positions and numbers of samples are positive (`SampleAssumption`,
`FirstErrorAssumption`, `SamplesAssumption`); the registers of the link are bits and
its pattern is no shorter than the CRC (`LengthAssumption`: the frame is cut by
counting from both ends); the registers of `lab4.c` leave room for its `x += 1` and
`y -= 5`.

**Recursive functions.** The provers cannot use the library's induction
theorems, whose parameter is an operator. `Arithmetic` states induction about a
set instead: a set that contains 0, and with a number the next one, contains all
of them (`NatSet`), and the same for an interval (`IntervalSet`). `LoopExists`
and `TailRecursionExists` say that there is a function that satisfies a recursive
definition, which is what CHOOSE needs to be expanded. On these rest what is said of
`PowMod`, `Gcd`, the remainder of the CRC, the registers, and powers.

Only model-checked:

* Liveness. That a step is taken at all follows from fairness, which is out of the
  prover's reach, as is ENABLED. What it rests on is proved: where a behaviour may
  end (`EndsServedCorrect` for `ClientIsServed`, `EndsWellCorrect` for `FileArrives`)
  and that every step leads there (`ExchangeMovesOnCorrect`, `ReceivesRunOutCorrect`
  for `ClientTerminates`, `AttemptsRunOutCorrect` for `SenderTerminates`,
  `ProgramMovesOn` for `ProgramEnds`).
* `FrameIsFound` for noise that hits both ones of the pattern and more samples than
  the peak stands out by. Where the correlation is best then depends on the Gold
  sequence and on the message: another part of the frame may resemble it.

The runs `DhcpLease`, `DhcpExhausted` and `FileMixed`, which expect a violation,
show that `LeaseCorrect`, `PoolCorrect` and the theorems about distinct endpoints
and about enough attempts need their hypotheses.

## 6. Not modelled

* Bytes of packets. Options can be longer than the packet, and a 0xFF in one of
  them ends the search of `getMessageType` early; the model sends what the client
  builds, packets of an unknown type and packets without a type.
* Failing system calls, except `bind` of the second client on a host, opening and
  writing files, and receives. A failed send is a lost datagram; a server whose
  constructor fails does not exist.
* The signal handlers of `spo/lab3`: they set a flag that nothing reads. `stop()` is
  only called by destructors, that is when the process ends.
* The sum that `spo/lab2` uses as a checksum: damage is loss. A sum cannot see
  swapped bytes, which is a statement about arithmetic and not about the protocol.
* Gaussian noise, correlations of real numbers, spectra and plots; the
  Monte-Carlo loop of `rgr_extra.py`.
* `lab4.m`, which takes its taps from other bits than `lab4.c`, and the printed run
  lengths of `check_cycle_distribution`, which do not enter the verdict.
* `aocs/lab2/main.go`: a goroutine prints signals from a channel of capacity 1 while
  `main` sleeps for ever. Its line 22 announces that Ctrl+C ends the program,
  which it does not, since nothing but the handler takes the signal; a
  model would have no step that ends the program, and what it refutes would be its
  own shape.
* `dsp`, `signals-processing`, `tmo`, `bmcs/lab1`-`lab3` (`lab3.c` correlates constant
  arrays and prints): numerical scripts without state. `aocs/lab1`, `aocs/lab3` and
  the build files: configuration.

## 7. Plan

Done, in this order: DHCP with its registry and proofs; the file transfer with its
delivery and proofs; CRC and radio link; RSA coder with proofs; the cryptography
program; Gold sequences; strangers at the DHCP server; disks that fail and a
server that dies while it writes; the experiments with the CRC; proofs for leases
and pools, for the cryptography program and for the table of shifts; induction
over data, and with it proofs for the CRC, the experiments, the radio link, the
keys and the decoding of RSA, the encoded file and the Gold sequence; what the
abstract specifications promise by themselves; networks that lose nothing, and
the safety half of what is live there; the primes of the program; frames found in
spite of noise; the one shift of `check_autocorrelation`.

Left: `ClaimsAgree` as a refinement of its own, with a registry per start of the
server, so that `UniqueAddress` becomes a theorem about `LeaseRegistry`.
