---------------------------- MODULE Cryptography ----------------------------
(***************************************************************************)
(* The cryptography library as its program (main.cpp) uses it: read a      *)
(* file, construct a coder, encode, save, decode, save, compare. main.cpp  *)
(* does this with a VernamCoder and a Fileworker; RSAcoder and BMPworker   *)
(* have the same operations and no program of their own, and are put       *)
(* through the same steps here.                                            *)
(*                                                                         *)
(* A file is a sequence of bytes. A disk that is full takes only the first *)
(* bytes of a file, which neither the workers nor main notice.             *)
(***************************************************************************)
EXTENDS RsaCoder, SequencesExt

CONSTANTS
  Input,           \* the contents of the file named on standard input
  KeyByte,         \* what rand() % 256 returns
  HeaderSize,      \* BMP_H_SIZE
  BitXor(_, _)     \* ^ of two bytes

ASSUME InputAssumption == Input \subseteq Seq(0 .. 255)
ASSUME KeyByteAssumption == KeyByte \subseteq 0 .. 255
ASSUME HeaderSizeAssumption == HeaderSize \in Nat
ASSUME BitXorAssumption ==
  \A a, b \in 0 .. 255 : BitXor(a, b) \in 0 .. 255 /\ BitXor(BitXor(a, b), b) = a

VARIABLES
  coder,           \* the class of the coder: "Vernam" or "RSA"
  worker,          \* the class that reads and writes: "file" or "bmp"
  input,           \* the file read
  step,            \* where main is
  header,          \* BMPworker::header
  key,             \* VernamCoder::key
  data, encoded_data, decoded_data,
  encodedFile, decodedFile,
  cutShort,        \* which of the two files the disk did not take all of
  is_correct

choice == <<coder, worker, input>>
vectors == <<data, encoded_data, decoded_data>>
files == <<encodedFile, decodedFile, cutShort>>
vars == <<rsa, choice, step, header, key, vectors, files, is_correct>>

LowByte(value) == value % 256

\* Faulty variant: the header is forgotten.
WriteBmpBody(values) == [i \in DOMAIN values |-> LowByte(values[i])]

\* BMPworker::write: the header that was read last, and a byte per value.
WriteBmp(values) == header \o [i \in DOMAIN values |-> LowByte(values[i])]

\* An ll on disk, low byte first. Every value is a byte or a residue modulo n,
\* so that only the first two bytes can differ from 0.
Long(value) == <<LowByte(value), value \div 256, 0, 0, 0, 0, 0, 0>>

\* Faulty variant: the modes are mixed up.
WriteFileSwapped(values, mode) ==
  IF mode = 2 THEN FlattenSeq([i \in DOMAIN values |-> Long(values[i])])
  ELSE [i \in DOMAIN values |-> LowByte(values[i])]

\* Fileworker::write, which is called in mode 1 and in mode 2.
WriteFile(values, mode) ==
  IF mode = 1 THEN FlattenSeq([i \in DOMAIN values |-> Long(values[i])])
  ELSE [i \in DOMAIN values |-> LowByte(values[i])]

Write(values, mode) ==
  IF worker = "bmp" THEN WriteBmp(values) ELSE WriteFile(values, mode)

\* What is on disk of a file that was written: all of it, or what a full disk
\* had room for. Nothing, and all but one byte, stand for what lies between.
OnDisk(file) == {SubSeq(file, 1, k) : k \in {0, Len(file) - 1, Len(file)} \cap Nat}

\* VernamCoder::encode, and VernamCoder::decode as well.
VernamCode(values) == [i \in DOMAIN values |-> BitXor(values[i], key[i])]

Encode(values) == IF coder = "RSA" THEN RsaEncode(values) ELSE VernamCode(values)
Decode(values) == IF coder = "RSA" THEN RsaDecode(values) ELSE VernamCode(values)

-----------------------------------------------------------------------------
Init ==
  /\ RsaInit
  /\ coder \in {"Vernam", "RSA"} /\ worker \in {"file", "bmp"} /\ input \in Input
  /\ step = "read"
  /\ header = <<>> /\ key = <<>>
  /\ data = <<>> /\ encoded_data = <<>> /\ decoded_data = <<>>
  /\ encodedFile = <<>> /\ decodedFile = <<>> /\ cutShort = {}
  /\ is_correct = FALSE

\* How many bytes of the file BMPworker keeps apart; an image shorter than a
\* header has a short header and no data.
HeaderLength ==
  IF worker = "file" THEN 0 ELSE IF Len(input) < HeaderSize THEN Len(input) ELSE HeaderSize

\* Fileworker::read or BMPworker::read.
Read ==
  /\ step = "read"
  /\ header' = SubSeq(input, 1, HeaderLength)
  /\ data' = SubSeq(input, HeaderLength + 1, Len(input))
  /\ step' = "construct"
  /\ UNCHANGED <<rsa, choice, key, encoded_data, decoded_data, files, is_correct>>

\* A file that cannot be opened ends the program: read and write throw.
OpenFails ==
  /\ step \in {"read", "encode", "decode"}
  /\ step' = "failed"
  /\ encoded_data' = IF step = "encode" THEN Encode(data) ELSE encoded_data
  /\ decoded_data' = IF step = "decode" THEN Decode(encoded_data) ELSE decoded_data
  /\ UNCHANGED <<rsa, choice, header, key, data, files, is_correct>>

\* VernamCoder::configure.
ConstructVernam ==
  /\ step = "construct" /\ coder = "Vernam"
  /\ key' \in [DOMAIN data -> KeyByte]
  /\ step' = "encode"
  /\ UNCHANGED <<rsa, choice, header, vectors, files, is_correct>>

\* The constructor of RSAcoder, one step of it.
ConstructRsa ==
  /\ step = "construct" /\ coder = "RSA"
  /\ Configure
  /\ step' = IF pc' = "ready" THEN "encode" ELSE "construct"
  /\ UNCHANGED <<choice, header, key, vectors, files, is_correct>>

\* Encode and save, in mode 1.
EncodeData ==
  /\ step = "encode"
  /\ encoded_data' = Encode(data)
  /\ encodedFile' \in OnDisk(Write(encoded_data', 1))
  /\ cutShort' = IF encodedFile' = Write(encoded_data', 1) THEN {} ELSE {"encoded"}
  /\ step' = "decode"
  /\ UNCHANGED <<rsa, choice, header, key, data, decoded_data, decodedFile, is_correct>>

\* Decode what is in memory and save it, in mode 2.
DecodeData ==
  /\ step = "decode"
  /\ decoded_data' = Decode(encoded_data)
  /\ decodedFile' \in OnDisk(Write(decoded_data', 2))
  /\ cutShort' = IF decodedFile' = Write(decoded_data', 2) THEN cutShort ELSE cutShort \cup {"decoded"}
  /\ step' = "check"
  /\ UNCHANGED <<rsa, choice, header, key, data, encoded_data, encodedFile, is_correct>>

\* Faulty variant: the sizes are compared and no more.
CheckSizes ==
  /\ step = "check"
  /\ is_correct' = (Len(data) = Len(decoded_data))
  /\ step' = "done"
  /\ UNCHANGED <<rsa, choice, header, key, vectors, files>>

\* The comparison in main, sizes first.
Check ==
  /\ step = "check"
  /\ is_correct' = /\ Len(data) = Len(decoded_data)
                   /\ \A i \in DOMAIN data : data[i] = decoded_data[i]
  /\ step' = "done"
  /\ UNCHANGED <<rsa, choice, header, key, vectors, files>>

Next ==
  \/ Read \/ OpenFails
  \/ ConstructVernam \/ ConstructRsa
  \/ EncodeData \/ DecodeData \/ Check

Spec == Init /\ [][Next]_vars

\* main is sequential and nothing in it waits. The loops that draw again until
\* a number fits end with probability 1; they are single steps here.
FairSpec == Spec /\ WF_vars(Next)

-----------------------------------------------------------------------------
(* Properties *)

\* Decoding returns the data read and, with RSA, what is left of it modulo n,
\* whatever primes and keys were drawn: a byte that is not below n is lost.
DecodedIsData ==
  step \in {"check", "done"} =>
    decoded_data = IF coder = "RSA" THEN [i \in DOMAIN data |-> data[i] % n] ELSE data

\* What main prints in the end is true of the files, of which it compares
\* neither: the restored file is the file read if and only if it says so. Of a
\* file that was cut short "correctly decoded" is true as far as it goes.
VerdictIsTrue ==
  step = "done" =>
    /\ "decoded" \notin cutShort => (is_correct <=> decodedFile = input)
    /\ is_correct => IsPrefix(decodedFile, input)

\* The numbers in a saved file, as far as they are whole.
Saved(file) ==
  IF worker = "bmp" THEN SubSeq(file, Len(header) + 1, Len(file))
  ELSE [i \in 1 .. Len(file) \div 8 |-> file[8 * i - 7] + 256 * file[8 * i - 6]]

\* The encoded file and the keys are enough to restore the data, although main
\* never decodes the file: only an image loses what RSA puts into the higher
\* bytes. What a full disk took is enough for the beginning.
EncodedFileIsEnough ==
  step \in {"check", "done"} /\ (coder = "RSA" => worker = "file") =>
    LET restored == Decode(Saved(encodedFile))
    IN  /\ IsPrefix(restored, decoded_data)
        /\ "encoded" \notin cutShort => restored = decoded_data

\* The program ends, that is the constructor of RSAcoder does, for all primes
\* and keys it may draw.
ProgramEnds == <>(step \in {"done", "failed"})
=============================================================================
