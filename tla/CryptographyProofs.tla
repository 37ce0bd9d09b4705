------------------------- MODULE CryptographyProofs -------------------------
(***************************************************************************)
(* Proofs about Cryptography, for every file, pad and header size, every   *)
(* set of primes and random numbers, and a disk that may cut files short:  *)
(* with a VernamCoder decoding restores the data, with an RSAcoder it      *)
(* does so if the factors of n are prime, as they are for the candidates   *)
(* of the program, and with either coder what main prints is then true of  *)
(* the files and the part of the encoded file that the disk took is        *)
(* enough to restore the beginning of the data. Every step brings the      *)
(* program nearer to its end.                                              *)
(***************************************************************************)
EXTENDS Cryptography, RsaCoderProofs, SequenceTheorems

Byte == 0 .. 255

\* How far main has come.
Constructed == step \in {"encode", "decode", "check", "done"}
Encoded == step \in {"decode", "check", "done"}
Decoded == step \in {"check", "done"}

StepsOK ==
  /\ step \in {"read", "construct", "encode", "decode", "check", "done", "failed"}
  /\ coder \in {"Vernam", "RSA"}
  /\ coder = "RSA" /\ Constructed => pc = "ready"

\* The file that was read is header and data; only images have a header.
InputSplit ==
  /\ input \in Seq(Byte) /\ header \in Seq(Byte) /\ data \in Seq(Byte)
  /\ step \notin {"read", "failed"} => input = header \o data
  /\ worker = "file" => header = <<>>
  /\ worker \in {"file", "bmp"}

\* What a VernamCoder has done so far.
VernamProgress ==
  coder = "Vernam" =>
    /\ Constructed => key \in [DOMAIN data -> Byte]
    /\ Encoded => encoded_data = VernamCode(data)
    /\ Decoded => decoded_data = data

\* The restored file holds what was decoded, as far as the disk took it.
FileBacked ==
  Decoded =>
    /\ decodedFile \in OnDisk(Write(decoded_data, 2))
    /\ "decoded" \notin cutShort => decodedFile = Write(decoded_data, 2)

\* What main has found out, of data of the same length.
Compared ==
  step = "done" => (is_correct <=> decoded_data = data)

DecodedDomain ==
  Decoded => decoded_data = [i \in DOMAIN data |-> decoded_data[i]]

EncodedDomain ==
  Encoded => DOMAIN encoded_data = DOMAIN data

CryptoInv ==
  /\ KeysTypeOK
  /\ StepsOK /\ InputSplit /\ VernamProgress
  /\ EncodedDomain /\ DecodedDomain
  /\ FileBacked /\ Compared

-----------------------------------------------------------------------------
(* Sequences of bytes *)

\* A file cut in two is put together again.
LEMMA SplitAt ==
  ASSUME NEW s \in Seq(Byte), NEW h \in 0 .. Len(s)
  PROVE  /\ SubSeq(s, 1, h) \in Seq(Byte)
         /\ SubSeq(s, h + 1, Len(s)) \in Seq(Byte)
         /\ s = SubSeq(s, 1, h) \o SubSeq(s, h + 1, Len(s))
<1>1. Len(s) \in Nat /\ \A i \in 1 .. Len(s) : s[i] \in Byte
  BY LenProperties, ElementOfSeq
<1>2. SubSeq(s, 1, h) \in Seq(Byte)
  <2>1. \A i \in 1 .. h : s[i] \in Byte
    BY <1>1
  <2> QED
    BY <1>1, <2>1, SubSeqProperties
<1>3. SubSeq(s, h + 1, Len(s)) \in Seq(Byte)
  <2>1. \A i \in h + 1 .. Len(s) : s[i] \in Byte
    BY <1>1
  <2> QED
    BY <1>1, <2>1, SubSeqProperties
<1>4. SubSeq(s, 1, h) \o SubSeq(s, h + 1, Len(s)) = SubSeq(s, 1, Len(s))
  <2>1. 1 \in 1 .. Len(s) + 1 /\ h \in 1 - 1 .. Len(s) /\ Len(s) \in h .. Len(s)
    BY <1>1
  <2> QED
    BY <2>1, ConcatAdjacentSubSeq
<1> QED
  BY <1>2, <1>3, <1>4, SubSeqFull

\* What a disk took of a file is a prefix of it.
LEMMA OnDiskIsPrefix ==
  ASSUME NEW file \in Seq(Byte), NEW part \in OnDisk(file)
  PROVE  IsPrefix(part, file)
<1>1. Len(file) \in Nat /\ \A i \in 1 .. Len(file) : file[i] \in Byte
  BY LenProperties, ElementOfSeq
<1>2. PICK k \in {0, Len(file) - 1, Len(file)} \cap Nat : part = SubSeq(file, 1, k)
  BY DEF OnDisk
<1>3. k \in 0 .. Len(file)
  BY <1>1, <1>2
<1>4. part \in Seq(Byte) /\ Len(part) = k
  <2>1. \A i \in 1 .. k : file[i] \in Byte
    BY <1>1, <1>3
  <2> QED
    BY <1>2, <1>3, <2>1, SubSeqProperties
<1>5. SubSeq(part, 1, Len(part)) = part
  BY <1>4, SubSeqFull
<1> QED
  BY <1>1, <1>2, <1>3, <1>4, <1>5 DEF IsPrefix

\* Data that is a function on the bytes is a sequence of them, and writing it
\* in mode 2 puts it behind the header.
LEMMA WriteBytes ==
  ASSUME InputSplit, NEW values \in [DOMAIN data -> Byte]
  PROVE  /\ values \in Seq(Byte)
         /\ Write(values, 2) = header \o values
<1>1. values \in Seq(Byte)
  <2>1. Len(data) \in Nat /\ DOMAIN data = 1 .. Len(data)
    BY LenProperties DEF InputSplit
  <2> QED
    BY <2>1, SeqDef
<1>2. [i \in DOMAIN values |-> LowByte(values[i])] = values
  <2>1. \A j \in Byte : LowByte(j) = j
    BY DEF LowByte, Byte
  <2>2. \A i \in DOMAIN values : values[i] \in Byte
    OBVIOUS
  <2>3. values = [i \in DOMAIN values |-> values[i]]
    OBVIOUS
  <2> QED
    BY <2>1, <2>2, <2>3
<1>3. CASE worker = "bmp"
  BY <1>1, <1>2, <1>3 DEF Write, WriteBmp
<1>4. CASE worker = "file"
  <2>1. header = <<>> /\ worker # "bmp"
    BY <1>4 DEF InputSplit
  <2>2. header \o values = values
    BY <1>1, <2>1, ConcatEmptySeq
  <2>3. Write(values, 2) = WriteFile(values, 2)
    BY <2>1 DEF Write
  <2>4. WriteFile(values, 2) = [i \in DOMAIN values |-> LowByte(values[i])]
    BY DEF WriteFile
  <2>5. Write(values, 2) = values
    BY <1>2, <2>3, <2>4, Zenon
  <2> QED
    BY <1>1, <2>2, <2>5, Zenon
<1> QED
  BY <1>1, <1>3, <1>4 DEF InputSplit

\* The one-time pad is its own inverse.
LEMMA VernamInverse ==
  ASSUME NEW f \in Seq(Byte), NEW k \in [DOMAIN f -> Byte],
         NEW g, g = [i \in DOMAIN f |-> BitXor(f[i], k[i])]
  PROVE  [i \in DOMAIN g |-> BitXor(g[i], k[i])] = f
<1>1. f \in [1 .. Len(f) -> Byte]
  BY LenProperties
<1>2. \A i \in DOMAIN f : BitXor(BitXor(f[i], k[i]), k[i]) = f[i]
  BY <1>1, BitXorAssumption DEF Byte
<1> QED
  BY <1>1, <1>2

\* The residue of a byte is a byte.
LEMMA ResidueOfByte ==
  ASSUME NEW a \in Byte, NEW m \in Nat \ {0}
  PROVE  a % m \in Byte
<1>1. CASE a < m
  BY <1>1 DEF Byte
<1>2. CASE m <= a
  <2>1. a % m \in 0 .. m - 1
    BY DEF Byte
  <2> QED
    BY <1>2, <2>1 DEF Byte
<1> QED
  BY <1>1, <1>2 DEF Byte

-----------------------------------------------------------------------------
(* The invariant *)

\* The invariant before the input is read.
LEMMA CryptoInit == Init => CryptoInv
<1> SUFFICES ASSUME Init PROVE CryptoInv
  OBVIOUS
<1>1. KeysTypeOK
  BY TypeInit DEF Init
<1>2. <<>> \in Seq(Byte)
  BY EmptySeq
<1>3. input \in Seq(Byte)
  BY InputAssumption DEF Init, Byte
<1>4. InputSplit
  BY <1>2, <1>3 DEF Init, InputSplit
<1>5. ~Constructed /\ ~Encoded /\ ~Decoded /\ step # "done"
  BY DEF Init, Constructed, Encoded, Decoded
<1>6. StepsOK
  BY <1>5 DEF Init, StepsOK
<1> QED
  BY <1>1, <1>4, <1>5, <1>6
  DEF CryptoInv, VernamProgress, EncodedDomain, DecodedDomain, FileBacked, Compared

\* Reading the file splits it into header and data.
LEMMA InvRead == CryptoInv /\ Read => CryptoInv'
<1> SUFFICES ASSUME CryptoInv, Read PROVE CryptoInv'
  OBVIOUS
<1>1. KeysTypeOK'
  BY DEF CryptoInv, KeysTypeOK, Read, rsa, keys, phi
<1>2. step' = "construct" /\ UNCHANGED <<pc, coder, worker, input>>
  BY DEF Read, rsa, choice
<1>3. HeaderLength \in 0 .. Len(input)
  BY LenProperties, HeaderSizeAssumption DEF CryptoInv, InputSplit, HeaderLength
<1>4. InputSplit'
  <2>1. /\ header' = SubSeq(input, 1, HeaderLength)
        /\ data' = SubSeq(input, HeaderLength + 1, Len(input))
    BY DEF Read
  <2>2. header' \in Seq(Byte) /\ data' \in Seq(Byte) /\ input = header' \o data'
    BY <1>3, <2>1, SplitAt DEF CryptoInv, InputSplit
  <2>3. worker = "file" => header' = <<>>
    BY <2>1, SubSeqEmpty DEF HeaderLength
  <2> QED
    BY <1>2, <2>2, <2>3 DEF CryptoInv, InputSplit
<1>5. (~Constructed /\ ~Encoded /\ ~Decoded /\ step # "done")'
  BY <1>2 DEF Constructed, Encoded, Decoded
<1>6. StepsOK'
  BY <1>2, <1>5 DEF CryptoInv, StepsOK
<1> QED
  BY <1>1, <1>4, <1>5, <1>6
  DEF CryptoInv, VernamProgress, EncodedDomain, DecodedDomain, FileBacked, Compared

\* A file that does not open ends the program.
LEMMA InvOpenFails == CryptoInv /\ OpenFails => CryptoInv'
<1> SUFFICES ASSUME CryptoInv, OpenFails PROVE CryptoInv'
  OBVIOUS
<1>1. step' = "failed" /\ UNCHANGED <<rsa, choice, header, data>>
  BY DEF OpenFails
<1>2. KeysTypeOK'
  BY <1>1 DEF CryptoInv, KeysTypeOK, rsa, keys, phi
<1>3. (~Constructed /\ ~Encoded /\ ~Decoded /\ step # "done")'
  BY <1>1 DEF Constructed, Encoded, Decoded
<1>4. InputSplit' /\ StepsOK'
  BY <1>1, <1>3 DEF CryptoInv, InputSplit, StepsOK, choice
<1> QED
  BY <1>2, <1>3, <1>4
  DEF CryptoInv, VernamProgress, EncodedDomain, DecodedDomain, FileBacked, Compared

\* The pad is as long as the data.
LEMMA InvConstructVernam == CryptoInv /\ ConstructVernam => CryptoInv'
<1> SUFFICES ASSUME CryptoInv, ConstructVernam PROVE CryptoInv'
  OBVIOUS
<1>1. /\ step = "construct" /\ step' = "encode" /\ coder = "Vernam"
      /\ UNCHANGED <<rsa, choice, header, data>>
      /\ key' \in [DOMAIN data -> KeyByte]
  BY DEF ConstructVernam, vectors
<1>2. KeysTypeOK'
  BY <1>1 DEF CryptoInv, KeysTypeOK, rsa, keys, phi
<1>3. (~Encoded /\ ~Decoded /\ step # "done")'
  BY <1>1 DEF Encoded, Decoded
<1>4. InputSplit' /\ StepsOK'
  BY <1>1 DEF CryptoInv, InputSplit, StepsOK, choice
<1>5. VernamProgress'
  BY <1>1, <1>3, KeyByteAssumption DEF VernamProgress, Byte
<1> QED
  BY <1>2, <1>3, <1>4, <1>5
  DEF CryptoInv, EncodedDomain, DecodedDomain, FileBacked, Compared

\* A step of the RSAcoder's constructor; the last one makes the keys ready.
LEMMA InvConstructRsa == CryptoInv /\ ConstructRsa => CryptoInv'
<1> SUFFICES ASSUME CryptoInv, ConstructRsa PROVE CryptoInv'
  OBVIOUS
<1>1. /\ step = "construct" /\ coder = "RSA" /\ Configure
      /\ step' = IF pc' = "ready" THEN "encode" ELSE "construct"
      /\ UNCHANGED <<choice, header, data>>
  BY DEF ConstructRsa, vectors
<1>2. KeysTypeOK'
  BY <1>1, TypeStep DEF CryptoInv
<1>3. (~Encoded /\ ~Decoded /\ step # "done")'
  BY <1>1 DEF Encoded, Decoded
<1>4. InputSplit'
  BY <1>1 DEF CryptoInv, InputSplit, choice
<1>5. StepsOK'
  BY <1>1 DEF CryptoInv, StepsOK, choice, Constructed
<1>6. VernamProgress'
  BY <1>1 DEF VernamProgress, choice
<1> QED
  BY <1>2, <1>3, <1>4, <1>5, <1>6
  DEF CryptoInv, EncodedDomain, DecodedDomain, FileBacked, Compared

\* Encoding keeps the length of the data.
LEMMA InvEncodeData == CryptoInv /\ EncodeData => CryptoInv'
<1> SUFFICES ASSUME CryptoInv, EncodeData PROVE CryptoInv'
  OBVIOUS
<1>1. /\ step = "encode" /\ step' = "decode"
      /\ UNCHANGED <<rsa, choice, header, key, data>>
      /\ encoded_data' = Encode(data)
  BY DEF EncodeData
<1>2. KeysTypeOK'
  BY <1>1 DEF CryptoInv, KeysTypeOK, rsa, keys, phi
<1>3. (~Decoded /\ step # "done")' /\ Constructed
  BY <1>1 DEF Decoded, Constructed
<1>4. InputSplit'
  BY <1>1 DEF CryptoInv, InputSplit, choice
<1>5. StepsOK'
  BY <1>1, <1>3 DEF CryptoInv, StepsOK, choice, rsa
<1>6. EncodedDomain'
  BY <1>1 DEF EncodedDomain, Encode, RsaEncode, VernamCode
<1>7. VernamProgress'
  BY <1>1, <1>3 DEF CryptoInv, VernamProgress, Encode, VernamCode, choice
<1> QED
  BY <1>2, <1>3, <1>4, <1>5, <1>6, <1>7
  DEF CryptoInv, DecodedDomain, FileBacked, Compared

\* Decoding with a VernamCoder restores the data; the disk may cut the file.
LEMMA InvDecodeData == CryptoInv /\ DecodeData => CryptoInv'
<1> SUFFICES ASSUME CryptoInv, DecodeData PROVE CryptoInv'
  OBVIOUS
<1>1. /\ step = "decode" /\ step' = "check"
      /\ UNCHANGED <<rsa, choice, header, key, data, encoded_data>>
      /\ decoded_data' = Decode(encoded_data)
  BY DEF DecodeData
<1>2. KeysTypeOK'
  BY <1>1 DEF CryptoInv, KeysTypeOK, rsa, keys, phi
<1>3. (step # "done")' /\ Constructed /\ Encoded
  BY <1>1 DEF Encoded, Constructed
<1>4. InputSplit'
  BY <1>1 DEF CryptoInv, InputSplit, choice
<1>5. StepsOK'
  BY <1>1, <1>3 DEF CryptoInv, StepsOK, choice, rsa
<1>6. EncodedDomain'
  BY <1>1, <1>3 DEF CryptoInv, EncodedDomain
<1>7. DecodedDomain'
  BY <1>1, <1>3 DEF CryptoInv, EncodedDomain, DecodedDomain, Decode, RsaDecode, VernamCode
<1>8. VernamProgress'
  <2> SUFFICES ASSUME coder = "Vernam" PROVE VernamProgress'
    BY <1>1 DEF VernamProgress, choice
  <2>1. key \in [DOMAIN data -> Byte] /\ encoded_data = VernamCode(data) /\ data \in Seq(Byte)
    BY <1>3 DEF CryptoInv, VernamProgress, InputSplit
  <2>2. decoded_data' = VernamCode(encoded_data)
    BY <1>1 DEF Decode
  <2>3. decoded_data' = data
    <3>1. encoded_data = [i \in DOMAIN data |-> BitXor(data[i], key[i])]
      BY <2>1, Zenon DEF VernamCode
    <3>2. [i \in DOMAIN encoded_data |-> BitXor(encoded_data[i], key[i])] = data
      BY <2>1, <3>1, VernamInverse
    <3>3. decoded_data' = [i \in DOMAIN encoded_data |-> BitXor(encoded_data[i], key[i])]
      BY <2>2, Zenon DEF VernamCode
    <3> QED
      BY <3>2, <3>3, Zenon
  <2>4. encoded_data' = VernamCode(data)'
    BY <1>1, <2>1 DEF VernamCode
  <2> QED
    BY <1>1, <2>1, <2>3, <2>4 DEF VernamProgress
<1>9. FileBacked'
  <2>1. Write(decoded_data', 2) = Write(decoded_data, 2)'
    BY <1>1 DEF Write, WriteBmp, WriteFile, choice
  <2>2. decodedFile' \in OnDisk(Write(decoded_data', 2))
    BY DEF DecodeData
  <2>3. "decoded" \notin cutShort' => decodedFile' = Write(decoded_data', 2)
    BY DEF DecodeData
  <2> QED
    BY <2>1, <2>2, <2>3 DEF FileBacked, OnDisk
<1> QED
  BY <1>2, <1>3, <1>4, <1>5, <1>6, <1>7, <1>8, <1>9 DEF CryptoInv, Compared

\* The comparison of main compares the whole of the data.
LEMMA InvCheck == CryptoInv /\ Check => CryptoInv'
<1> SUFFICES ASSUME CryptoInv, Check PROVE CryptoInv'
  OBVIOUS
<1>1. /\ step = "check" /\ step' = "done"
      /\ UNCHANGED <<rsa, choice, header, key, vectors, files>>
      /\ is_correct' = (/\ Len(data) = Len(decoded_data)
                         /\ \A i \in DOMAIN data : data[i] = decoded_data[i])
  BY DEF Check
<1>2. KeysTypeOK'
  BY <1>1 DEF CryptoInv, KeysTypeOK, rsa, keys, phi
<1>3. Constructed /\ Encoded /\ Decoded
  BY <1>1 DEF Encoded, Constructed, Decoded
<1>4. InputSplit' /\ EncodedDomain' /\ DecodedDomain'
  BY <1>1, <1>3 DEF CryptoInv, InputSplit, EncodedDomain, DecodedDomain, choice, vectors
<1>5. StepsOK'
  BY <1>1, <1>3 DEF CryptoInv, StepsOK, choice, rsa
<1>6. VernamProgress'
  BY <1>1, <1>3 DEF CryptoInv, VernamProgress, VernamCode, choice, vectors
<1>7. FileBacked'
  <2>1. Write(decoded_data, 2) = Write(decoded_data, 2)'
    BY <1>1 DEF Write, WriteBmp, WriteFile, choice, vectors
  <2> QED
    BY <1>1, <1>3, <2>1 DEF CryptoInv, FileBacked, OnDisk, files
<1>8. Compared'
  <2>1. DOMAIN decoded_data = DOMAIN data /\ decoded_data = [i \in DOMAIN data |-> decoded_data[i]]
    BY <1>3 DEF CryptoInv, DecodedDomain
  <2>2. data = [i \in DOMAIN data |-> data[i]]
    BY LenProperties DEF CryptoInv, InputSplit
  <2>3. is_correct' <=> decoded_data = data
    BY <1>1, <2>1, <2>2
  <2> QED
    BY <1>1, <2>3 DEF Compared, vectors
<1> QED
  BY <1>2, <1>4, <1>5, <1>6, <1>7, <1>8 DEF CryptoInv

\* A step in which nothing changes.
LEMMA InvStutter == CryptoInv /\ UNCHANGED vars => CryptoInv'
<1> SUFFICES ASSUME CryptoInv, UNCHANGED vars PROVE CryptoInv'
  OBVIOUS
<1>1. UNCHANGED <<rsa, coder, worker, input, step, header, key, data, encoded_data, decoded_data,
                  decodedFile, cutShort, is_correct>>
  BY DEF vars, choice, vectors, files
<1>2. KeysTypeOK'
  BY <1>1 DEF CryptoInv, KeysTypeOK, rsa, keys, phi
<1>3. StepsOK' /\ InputSplit' /\ EncodedDomain' /\ DecodedDomain' /\ Compared'
  BY <1>1 DEF CryptoInv, StepsOK, InputSplit, EncodedDomain, DecodedDomain, Compared, Constructed,
              Encoded, Decoded, rsa
<1>4. VernamProgress'
  BY <1>1 DEF CryptoInv, VernamProgress, Constructed, Encoded, Decoded, VernamCode
<1>5. Write(decoded_data, 2) = Write(decoded_data, 2)'
  BY <1>1 DEF Write, WriteBmp, WriteFile
<1>6. FileBacked'
  BY <1>1, <1>5 DEF CryptoInv, FileBacked, OnDisk, Decoded
<1> QED
  BY <1>2, <1>3, <1>4, <1>6 DEF CryptoInv

\* The invariant of the program, on which the theorems below rest.
THEOREM CryptoInvCorrect == Spec => []CryptoInv
<1>1. CryptoInv /\ [Next]_vars => CryptoInv'
  BY InvRead, InvOpenFails, InvConstructVernam, InvConstructRsa, InvEncodeData, InvDecodeData,
     InvCheck, InvStutter
  DEF Next
<1> QED
  BY CryptoInit, <1>1, PTL DEF Spec

-----------------------------------------------------------------------------
(* Theorems *)

\* What was decoded, if it is what it should be, consists of bytes.
LEMMA DecodedBytes ==
  ASSUME CryptoInv, DecodedIsData, Decoded
  PROVE  decoded_data \in [DOMAIN data -> Byte]
<1>1. data \in [DOMAIN data -> Byte]
  BY LenProperties DEF CryptoInv, InputSplit
<1>2. CASE coder = "RSA"
  <2>1. decoded_data = [i \in DOMAIN data |-> data[i] % n]
    BY <1>2 DEF DecodedIsData, Decoded
  <2>2. n \in Nat \ {0}
    <3>1. pc = "ready"
      BY <1>2 DEF CryptoInv, StepsOK, Constructed, Decoded
    <3>2. p \in Nat \ {0} /\ q \in Nat \ {0}
      BY <3>1 DEF CryptoInv, KeysTypeOK
    <3>3. \A a, b \in Nat \ {0} : a * b \in Nat \ {0}
      OBVIOUS
    <3> QED
      BY <3>2, <3>3 DEF n
  <2>3. \A i \in DOMAIN data : data[i] % n \in Byte
    BY <1>1, <2>2, ResidueOfByte
  <2> QED
    BY <2>1, <2>3
<1>3. CASE coder = "Vernam"
  BY <1>1, <1>3 DEF DecodedIsData, Decoded
<1> QED
  BY <1>2, <1>3 DEF CryptoInv, StepsOK

\* The verdict follows from the invariant: both files are header and values.
LEMMA VerdictFromInv ==
  ASSUME CryptoInv, DecodedIsData
  PROVE  VerdictIsTrue
<1> SUFFICES ASSUME step = "done" PROVE VerdictIsTrue!2
  BY DEF VerdictIsTrue
<1>1. Decoded
  BY DEF Decoded
<1>2. decoded_data \in Seq(Byte) /\ Write(decoded_data, 2) = header \o decoded_data
  BY <1>1, DecodedBytes, WriteBytes DEF CryptoInv
<1>3. /\ header \in Seq(Byte) /\ data \in Seq(Byte)
      /\ input = header \o data
  BY DEF CryptoInv, InputSplit
<1>4. is_correct <=> decoded_data = data
  BY DEF CryptoInv, Compared
<1>5. ASSUME "decoded" \notin cutShort
      PROVE  is_correct <=> decodedFile = input
  <2>1. decodedFile = header \o decoded_data
    BY <1>1, <1>2, <1>5 DEF CryptoInv, FileBacked
  <2>2. header \o decoded_data = header \o data => decoded_data = data
    BY <1>2, <1>3, ConcatSimplifications
  <2> QED
    BY <1>3, <1>4, <2>1, <2>2
<1>6. ASSUME is_correct
      PROVE  IsPrefix(decodedFile, input)
  <2>1. decodedFile \in OnDisk(input)
    BY <1>1, <1>2, <1>3, <1>4, <1>6 DEF CryptoInv, FileBacked
  <2>2. input \in Seq(Byte)
    BY DEF CryptoInv, InputSplit
  <2> QED
    BY <2>1, <2>2, OnDiskIsPrefix
<1> QED
  BY <1>5, <1>6

\* With a VernamCoder, decoding always restores the data.
THEOREM VernamCorrect == Spec => [](coder = "Vernam" => DecodedIsData)
<1>1. CryptoInv => (coder = "Vernam" => DecodedIsData)
  BY DEF CryptoInv, VernamProgress, Decoded, DecodedIsData
<1> QED
  BY <1>1, CryptoInvCorrect, PTL

\* With either coder, what main prints is true of its files if decoding does
\* what it should, however little of them the disk took.
THEOREM VerdictCorrect == Spec => [](DecodedIsData => VerdictIsTrue)
<1>1. CryptoInv => (DecodedIsData => VerdictIsTrue)
  BY VerdictFromInv
<1> QED
  BY <1>1, CryptoInvCorrect, PTL

\* What main says when it is content.
ClaimIsTrue ==
  step = "done" /\ is_correct =>
    /\ "decoded" \notin cutShort => decodedFile = input
    /\ IsPrefix(decodedFile, input)

\* "Correctly encoded and decoded" is never said wrongly: this needs no number
\* theory, as main has compared what it decoded.
THEOREM ClaimCorrect == Spec => []ClaimIsTrue
<1>1. ASSUME CryptoInv
      PROVE  ClaimIsTrue
  <2> SUFFICES ASSUME step = "done", is_correct
               PROVE  /\ "decoded" \notin cutShort => decodedFile = input
                      /\ IsPrefix(decodedFile, input)
    BY DEF ClaimIsTrue
  <2>1. Decoded /\ decoded_data = data
    BY <1>1 DEF Decoded, CryptoInv, Compared
  <2>2. data \in [DOMAIN data -> Byte] /\ input \in Seq(Byte) /\ input = header \o data
    BY <1>1, LenProperties DEF CryptoInv, InputSplit
  <2>3. Write(decoded_data, 2) = input
    BY <1>1, <2>1, <2>2, WriteBytes DEF CryptoInv
  <2>4. /\ decodedFile \in OnDisk(input)
        /\ "decoded" \notin cutShort => decodedFile = input
    BY <1>1, <2>1, <2>3 DEF CryptoInv, FileBacked
  <2> QED
    BY <2>2, <2>4, OnDiskIsPrefix
<1> QED
  BY <1>1, CryptoInvCorrect, PTL

-----------------------------------------------------------------------------
(* RSA *)

\* What the coder has done so far.
CodeProgress ==
  /\ Encoded => encoded_data = Encode(data)
  /\ Decoded => decoded_data = Decode(encoded_data)

\* The encoded file holds what was encoded, as far as the disk took it.
EncodedBacked ==
  Encoded =>
    /\ encodedFile \in OnDisk(Write(encoded_data, 1))
    /\ "encoded" \notin cutShort => encodedFile = Write(encoded_data, 1)

\* The keys and what was made of them.
CoderInv == KeysInv /\ CodeProgress /\ EncodedBacked

\* The invariant before the keys are drawn.
LEMMA CoderInit == Init => CoderInv
BY KeysInit DEF Init, CoderInv, CodeProgress, EncodedBacked, Encoded, Decoded

\* Steps that leave the coder and its data alone.
LEMMA CodeUnchanged ==
  ASSUME UNCHANGED <<rsa, choice, key, header>>
  PROVE  /\ \A values : Encode(values)' = Encode(values)
         /\ \A values : Decode(values)' = Decode(values)
         /\ \A values : \A mode : Write(values, mode)' = Write(values, mode)
BY DEF rsa, keys, choice, n, Encode, Decode, RsaEncode, RsaDecode, VernamCode, Write, WriteBmp, WriteFile

\* Steps before the data is encoded.
LEMMA CoderBefore ==
  ASSUME CoderInv, [Configure]_rsa, step' \in {"construct", "encode", "failed"}
  PROVE  CoderInv'
<1>1. KeysInv'
  BY KeysStep DEF CoderInv
<1>2. ~Encoded' /\ ~Decoded'
  BY DEF Encoded, Decoded
<1> QED
  BY <1>1, <1>2 DEF CoderInv, CodeProgress, EncodedBacked

\* Every step keeps the invariant: the keys do not change once data is encoded.
LEMMA CoderStep == CoderInv /\ [Next]_vars => CoderInv'
<1> SUFFICES ASSUME CoderInv, [Next]_vars PROVE CoderInv'
  OBVIOUS
<1>1. CASE Read
  BY <1>1, CoderBefore DEF Read
<1>2. CASE OpenFails
  BY <1>2, CoderBefore DEF OpenFails
<1>3. CASE ConstructVernam
  BY <1>3, CoderBefore DEF ConstructVernam
<1>4. CASE ConstructRsa
  BY <1>4, CoderBefore DEF ConstructRsa
<1>5. CASE EncodeData
  <2>1. /\ step' = "decode" /\ UNCHANGED <<rsa, choice, key, header, data>>
        /\ encoded_data' = Encode(data)
        /\ encodedFile' \in OnDisk(Write(encoded_data', 1))
        /\ "encoded" \notin cutShort' => encodedFile' = Write(encoded_data', 1)
    BY <1>5 DEF EncodeData
  <2>2. KeysInv'
    BY <2>1, KeysStep DEF CoderInv
  <2>3. Encode(data)' = Encode(data)
    BY <2>1, CodeUnchanged
  <2>4. Write(encoded_data, 1)' = Write(encoded_data', 1)
    BY <2>1, CodeUnchanged DEF choice, Write, WriteBmp, WriteFile
  <2>5. ~Decoded'
    BY <2>1 DEF Decoded
  <2> QED
    BY <2>1, <2>2, <2>3, <2>4, <2>5 DEF CoderInv, CodeProgress, EncodedBacked, OnDisk
<1>6. CASE DecodeData
  <2>1. /\ step = "decode" /\ step' = "check"
        /\ UNCHANGED <<rsa, choice, key, header, data, encoded_data, encodedFile>>
        /\ decoded_data' = Decode(encoded_data)
        /\ "encoded" \in cutShort => "encoded" \in cutShort'
    BY <1>6 DEF DecodeData
  <2>2. KeysInv'
    BY <2>1, KeysStep DEF CoderInv
  <2>3. Encode(data)' = Encode(data) /\ Decode(encoded_data)' = Decode(encoded_data)
    BY <2>1 DEF rsa, keys, choice, n, Encode, Decode, RsaEncode, RsaDecode, VernamCode
  <2>4. Write(encoded_data, 1)' = Write(encoded_data, 1)
    BY <2>1 DEF choice, Write, WriteBmp, WriteFile
  <2>5. Encoded
    BY <2>1 DEF Encoded
  <2> QED
    BY <2>1, <2>2, <2>3, <2>4, <2>5 DEF CoderInv, CodeProgress, EncodedBacked, OnDisk
<1>7. CASE Check \/ UNCHANGED vars
  <2>1. /\ UNCHANGED <<rsa, choice, key, header, vectors, files>>
        /\ Encoded' => Encoded
        /\ Decoded' => Decoded
    BY <1>7 DEF Check, vars, Encoded, Decoded
  <2>2. KeysInv'
    BY <2>1, KeysStep DEF CoderInv
  <2>3. Encode(data)' = Encode(data) /\ Decode(encoded_data)' = Decode(encoded_data)
    BY <2>1 DEF vectors, rsa, keys, choice, n, Encode, Decode, RsaEncode, RsaDecode, VernamCode
  <2>4. Write(encoded_data, 1)' = Write(encoded_data, 1)
    BY <2>1 DEF vectors, choice, Write, WriteBmp, WriteFile
  <2> QED
    BY <2>1, <2>2, <2>3, <2>4
    DEF CoderInv, CodeProgress, EncodedBacked, OnDisk, vectors, files
<1> QED
  BY <1>1, <1>2, <1>3, <1>4, <1>5, <1>6, <1>7 DEF Next

\* The invariant about the coder.
THEOREM CoderInvCorrect == Spec => []CoderInv
BY CoderInit, CoderStep, PTL DEF Spec

\* A number that trial division does not take apart is prime.
LEMMA TrialDivision ==
  ASSUME NEW x \in Nat, x > 1, \A k \in 2 .. x - 1 : x % k # 0
  PROVE  IsPrime(x)
<1> SUFFICES ASSUME NEW k \in 2 .. x - 1, Divides(k, x) PROVE FALSE
  BY DEF IsPrime
<1>1. k \in Nat /\ k > 0
  OBVIOUS
<1>2. Congruent(x, 0, k)
  BY DEF Congruent
<1>3. 0 \in Int /\ 0 % k = 0
  BY <1>1
<1>4. x % k = 0 % k
  BY <1>1, <1>2, <1>3, CongruentMeans
<1> QED
  BY <1>3, <1>4

\* pow_mod with the one key and then with the other returns the residue of
\* what it is given.
LEMMA KeysInverse ==
  ASSUME KeysInv, pc = "ready", FactorsArePrime, NEW x \in Nat
  PROVE  PowMod(PowMod(x, d, n), c, n) = x % n
<1> DEFINE e == PowMod(x, d, n)
           f == Pow(x, d)
           g == Pow(f, c)
           h == Pow(e, c)
<1>1. /\ p \in Nat /\ p > 1 /\ q \in Nat /\ q > 1 /\ d \in Nat /\ c \in Nat
      /\ p # q /\ (c * d) % ((p - 1) * (q - 1)) = 1
  BY DEF KeysInv, KeysTypeOK, KeysFit, phi
<1>2. IsPrime(p) /\ IsPrime(q)
  <2>1. p \in {p, q} \ {0} /\ q \in {p, q} \ {0}
    BY <1>1
  <2>2. \A k \in 2 .. p - 1 : p % k # 0
    BY <2>1, Zenon DEF FactorsArePrime
  <2>3. \A k \in 2 .. q - 1 : q % k # 0
    BY <2>1, Zenon DEF FactorsArePrime
  <2> QED
    BY <1>1, <2>2, <2>3, TrialDivision
<1>3. n \in Nat /\ n > 0
  <2>1. \A a, b \in Nat : a > 1 /\ b > 1 => a * b \in Nat /\ a * b > 0
    OBVIOUS
  <2> QED
    BY <1>1, <2>1 DEF n
<1>4. f \in Int /\ x \in Int
  BY <1>1, PowLaws
<1>5. e = f % n
  BY <1>1, <1>3, PowModMeans
<1>6. e \in Nat /\ Congruent(e, f, n)
  <2>1. f % n \in 0 .. n - 1 /\ Congruent(f % n, f, n)
    <3> HIDE DEF f
    <3> QED
      BY <1>3, <1>4, ResidueProperties
  <2> QED
    BY <1>3, <1>5, <2>1
<1> HIDE DEF e
<1>7. PowMod(e, c, n) = h % n
  BY <1>1, <1>3, <1>6, PowModMeans
<1>8. Congruent(g, x, n)
  <2>1. Congruent(Pow(Pow(x, d), c), x, p * q)
    BY <1>1, <1>2, <1>4, RsaIdentity, Zenon
  <2> QED
    BY <2>1 DEF n
<1> HIDE DEF f
<1>9. Congruent(h, g, n)
  BY <1>1, <1>3, <1>4, <1>6, CongruentPow
<1>10. g \in Int /\ h \in Int
  <2>1. e \in Int
    BY <1>6
  <2> QED
    BY <1>1, <1>4, <2>1, PowLaws
<1> HIDE DEF g, h
<1>11. Congruent(h, x, n)
  BY <1>3, <1>4, <1>8, <1>9, <1>10, CongruentTransitive
<1>12. h % n = x % n
  BY <1>3, <1>4, <1>10, <1>11, CongruentMeans
<1> QED
  BY <1>7, <1>12 DEF e

\* Decoding returns what was read, modulo n.
LEMMA DecodedFromInv ==
  ASSUME CryptoInv, CoderInv, FactorsArePrime
  PROVE  DecodedIsData
<1> SUFFICES ASSUME Decoded
             PROVE  decoded_data = IF coder = "RSA" THEN [i \in DOMAIN data |-> data[i] % n] ELSE data
  BY DEF DecodedIsData, Decoded
<1>1. CASE coder = "RSA"
  <2>1. pc = "ready" /\ Encoded
    BY <1>1 DEF CryptoInv, StepsOK, Constructed, Encoded, Decoded
  <2>2. encoded_data = RsaEncode(data) /\ decoded_data = RsaDecode(encoded_data)
    BY <1>1, <2>1 DEF CoderInv, CodeProgress, Encode, Decode
  <2>3. \A i \in DOMAIN data : data[i] \in Nat
    <3>1. data \in Seq(Byte)
      BY DEF CryptoInv, InputSplit
    <3>2. \A i \in 1 .. Len(data) : data[i] \in Byte
      BY <3>1, ElementOfSeq
    <3>3. DOMAIN data = 1 .. Len(data)
      BY <3>1, LenProperties
    <3>4. Byte \subseteq Nat
      BY DEF Byte
    <3> QED
      BY <3>2, <3>3, <3>4, Zenon
  <2>4. \A i \in DOMAIN data : PowMod(PowMod(data[i], d, n), c, n) = data[i] % n
    BY <2>1, <2>3, KeysInverse DEF CoderInv
  <2>5. decoded_data = [i \in DOMAIN data |-> PowMod(PowMod(data[i], d, n), c, n)]
    BY <2>2 DEF RsaEncode, RsaDecode
  <2> QED
    BY <1>1, <2>4, <2>5
<1>2. CASE coder = "Vernam"
  BY <1>2 DEF CryptoInv, VernamProgress, DecodedIsData
<1> QED
  BY <1>1, <1>2 DEF CryptoInv, StepsOK

\* With either coder, decoding returns the data read, modulo n with RSA,
\* if the numbers that passed the test are prime: for every set of candidates
\* and of random numbers, every file and every pad.
THEOREM DecodedCorrect == Spec => [](FactorsArePrime => DecodedIsData)
BY CryptoInvCorrect, CoderInvCorrect, DecodedFromInv, PTL

\* What main prints is then true of its files, whatever the disk took of them.
THEOREM VerdictOfPrimes == Spec => [](FactorsArePrime => VerdictIsTrue)
BY DecodedCorrect, VerdictCorrect, PTL

\* The keys are inverse to each other as soon as they are ready, and the first
\* ones drawn are kept, in the program as in the coder.
THEOREM ProgramKeys == Spec => []KeysInv /\ NoSecondDraw
<1>1. KeysInv /\ [Next]_vars => [Configure]_rsa
  BY DEF Next, Read, OpenFails, ConstructVernam, ConstructRsa, EncodeData, DecodeData, Check, vars
<1>2. KeysInv /\ [Configure]_rsa => [pc = "euclid" => pc' # "keys"]_rsa
  <2> SUFFICES ASSUME KeysInv, Configure, pc = "euclid"
               PROVE  pc' # "keys"
    OBVIOUS
  <2>1. CASE EuclidEnd
    BY <2>1, KeysPass DEF KeysInv
  <2>2. CASE EuclidStep
    BY <2>2 DEF EuclidStep
  <2> QED
    BY <2>1, <2>2 DEF Configure, DrawP, DrawQ, DrawKey
<1>3. Spec => []KeysInv
  BY CoderInvCorrect, PTL DEF CoderInv
<1> QED
  BY <1>1, <1>2, <1>3, PTL DEF Spec, NoSecondDraw

-----------------------------------------------------------------------------
(* The encoded file *)

\* What FlattenSeq makes of the first k of tuples of eight numbers.
IsFlat(file, seqs, k) ==
  /\ file \in Seq(Nat) /\ Len(file) = 8 * k
  /\ \A i \in 1 .. k : \A j \in 1 .. 8 : file[8 * i - 8 + j] = seqs[i][j]

\* One more tuple.
LEMMA FlatStep ==
  ASSUME NEW seqs, NEW k \in Nat, NEW file, IsFlat(file, seqs, k),
         seqs[k + 1] \in Seq(Nat), Len(seqs[k + 1]) = 8
  PROVE  IsFlat(file \o seqs[k + 1], seqs, k + 1)
<1> DEFINE s == seqs[k + 1]
<1>0. /\ file \in Seq(Nat) /\ Len(file) = 8 * k /\ s \in Seq(Nat) /\ Len(s) = 8
      /\ \A i \in 1 .. k : \A j \in 1 .. 8 : file[8 * i - 8 + j] = seqs[i][j]
  BY DEF IsFlat
<1> HIDE DEF s
<1>1. /\ file \o s \in Seq(Nat) /\ Len(file \o s) = Len(file) + Len(s)
      /\ \A i \in 1 .. Len(file) + Len(s) :
           (file \o s)[i] = IF i <= Len(file) THEN file[i] ELSE s[i - Len(file)]
  BY <1>0, ConcatProperties
<1>2. Len(file \o s) = 8 * (k + 1)
  BY <1>0, <1>1
<1>3. ASSUME NEW i \in 1 .. k, NEW j \in 1 .. 8
      PROVE  (file \o s)[8 * i - 8 + j] = file[8 * i - 8 + j]
  <2> DEFINE l == 8 * i - 8 + j
  <2>1. l \in 1 .. Len(file) + Len(s) /\ l <= Len(file)
    <3>1. l \in 1 .. 8 * k /\ 8 * k <= 8 * k + 8
      OBVIOUS
    <3> HIDE DEF l
    <3> QED
      BY <1>0, <3>1
  <2> HIDE DEF l
  <2>2. (file \o s)[l] = file[l]
    BY <1>1, <2>1
  <2> QED
    BY <2>2 DEF l
<1>4. ASSUME NEW j \in 1 .. 8
      PROVE  (file \o s)[8 * (k + 1) - 8 + j] = s[j]
  <2> DEFINE l == 8 * (k + 1) - 8 + j
  <2>1. l \in 1 .. Len(file) + Len(s) /\ ~(l <= Len(file)) /\ l - Len(file) = j
    BY <1>0
  <2> HIDE DEF l
  <2>2. (file \o s)[l] = s[j]
    BY <1>1, <2>1
  <2> QED
    BY <2>2 DEF l
<1>5. ASSUME NEW i \in 1 .. k + 1, NEW j \in 1 .. 8
      PROVE  (file \o s)[8 * i - 8 + j] = seqs[i][j]
  <2>1. CASE i \in 1 .. k
    BY <1>0, <1>3, <2>1
  <2>2. CASE i = k + 1
    BY <1>4, <2>2, Zenon DEF s
  <2>3. i \in 1 .. k \/ i = k + 1
    OBVIOUS
  <2> QED
    BY <2>1, <2>2, <2>3
<1>6. file \o s \in Seq(Nat)
  BY <1>1
<1> QED
  BY <1>2, <1>5, <1>6 DEF IsFlat, s

\* FlattenSeq puts the tuples one behind the other.
LEMMA FlattenMeans ==
  ASSUME NEW m \in Nat, NEW seqs \in [1 .. m -> Seq(Nat)], \A i \in 1 .. m : Len(seqs[i]) = 8
  PROVE  IsFlat(FlattenSeq(seqs), seqs, m)
<1>1. seqs \in Seq(Seq(Nat)) /\ Len(seqs) = m
  <2>1. seqs \in Seq(Seq(Nat))
    BY SeqDef
  <2>2. DOMAIN seqs = 1 .. Len(seqs) /\ Len(seqs) \in Nat /\ DOMAIN seqs = 1 .. m
    BY <2>1, LenProperties
  <2> QED
    BY <2>1, <2>2
<1>2. CASE m = 0
  <2>1. FlattenSeq(seqs) = seqs
    BY <1>1, <1>2 DEF FlattenSeq
  <2>2. seqs = <<>>
    BY <1>1, <1>2
  <2>3. seqs \in Seq(Nat) /\ Len(seqs) = 0
    BY <1>1, <1>2, <2>2, EmptySeq
  <2> QED
    BY <1>2, <2>1, <2>3 DEF IsFlat
<1>3. CASE m > 0
  <2> DEFINE S == Seq(Nat)
             h == [i \in 1 .. m |-> [s \in S |-> s \o seqs[i]]]
             flatten[i \in 1 .. Len(seqs)] == IF i = 1 THEN seqs[i] ELSE flatten[i - 1] \o seqs[i]
             Table(f) == f = [i \in 1 .. Len(seqs) |-> IF i = 1 THEN seqs[i] ELSE f[i - 1] \o seqs[i]]
  <2>1. h \in [1 .. m -> [S -> S]]
    <3>1. \A i \in 1 .. m : \A s \in S : s \o seqs[i] \in S
      BY ConcatProperties
    <3> QED
      BY <3>1
  <2>2. \A i \in 1 .. m : \A s \in S : h[i][s] = s \o seqs[i]
    OBVIOUS
  <2>3. <<>> \in S
    BY EmptySeq
  <2> HIDE DEF h, S
  <2>4. PICK g : IsLoop(g, m, S, <<>>, h)
    BY <2>1, <2>3, LoopExists
  <2>5. /\ g \in [0 .. m -> S] /\ g[0] = <<>>
        /\ \A i \in 1 .. m : i - 1 \in 0 .. m /\ g[i] = g[i - 1] \o seqs[i]
    <3>1. /\ g \in [0 .. m -> S] /\ g[0] = <<>>
          /\ \A i \in 1 .. m : g[i] = h[i][g[i - 1]]
      BY <2>4 DEF IsLoop
    <3>2. \A i \in 1 .. m : i - 1 \in 0 .. m
      OBVIOUS
    <3>3. \A i \in 1 .. m : g[i - 1] \in S
      BY <3>1, <3>2
    <3> QED
      BY <2>2, <3>1, <3>2, <3>3
  <2>6. g[1] = seqs[1]
    <3>1. 1 \in 1 .. m /\ 1 - 1 = 0
      BY <1>3
    <3>2. g[1] = <<>> \o seqs[1] /\ seqs[1] \in Seq(Nat)
      BY <2>5, <3>1
    <3> QED
      BY <3>2, ConcatEmptySeq
  <2> DEFINE f0 == [i \in 1 .. m |-> g[i]]
  <2>7. Table(f0)
    <3>1. \A i \in 1 .. m : f0[i] = IF i = 1 THEN seqs[i] ELSE f0[i - 1] \o seqs[i]
      <4> SUFFICES ASSUME NEW i \in 1 .. m
                   PROVE  f0[i] = IF i = 1 THEN seqs[i] ELSE f0[i - 1] \o seqs[i]
        OBVIOUS
      <4>1. CASE i = 1
        BY <2>6, <4>1
      <4>2. CASE i # 1
        <5>1. i - 1 \in 1 .. m
          BY <4>2
        <5> QED
          BY <2>5, <4>2, <5>1
      <4> QED
        BY <4>1, <4>2
    <3> QED
      BY <1>1, <3>1
  <2>8. Table(flatten)
    <3> HIDE DEF f0
    <3> QED
      BY <2>7, Zenon
  <2>9. FlattenSeq(seqs) = flatten[m]
    BY <1>1, <1>3 DEF FlattenSeq
  <2> HIDE DEF flatten
  <2>10. \A i \in 1 .. m : flatten[i] = IF i = 1 THEN seqs[i] ELSE flatten[i - 1] \o seqs[i]
    BY <1>1, <2>8
  <2> HIDE DEF Table
  <2> HIDE DEF f0
  <2> DEFINE T == {k \in 0 .. m : k > 0 => IsFlat(flatten[k], seqs, k)}
  <2>11. 0 \in T
    OBVIOUS
  <2>12. \A k \in 0 .. m - 1 : k \in T => k + 1 \in T
    <3> SUFFICES ASSUME NEW k \in 0 .. m - 1, k \in T PROVE IsFlat(flatten[k + 1], seqs, k + 1)
      OBVIOUS
    <3>0. k + 1 \in 1 .. m /\ (k + 1) - 1 = k /\ k \in Nat
      OBVIOUS
    <3>1. CASE k = 0
      <4>1. flatten[1] = seqs[1] /\ seqs[1] \in Seq(Nat) /\ Len(seqs[1]) = 8
        BY <1>3, <2>10
      <4>2. \A i \in 1 .. 1 : \A j \in 1 .. 8 : flatten[1][8 * i - 8 + j] = seqs[i][j]
        <5>1. \A i \in 1 .. 1 : \A j \in 1 .. 8 : i = 1 /\ 8 * i - 8 + j = j
          OBVIOUS
        <5> QED
          BY <4>1, <5>1
      <4>3. IsFlat(flatten[1], seqs, 1)
        BY <4>1, <4>2 DEF IsFlat
      <4> QED
        BY <3>1, <4>3
    <3>2. CASE k # 0
      <4>1. IsFlat(flatten[k], seqs, k)
        BY <3>2
      <4>2. flatten[k + 1] = flatten[k] \o seqs[k + 1]
        <5>1. flatten[k + 1] = IF k + 1 = 1 THEN seqs[k + 1] ELSE flatten[(k + 1) - 1] \o seqs[k + 1]
          BY <2>10, <3>0, Zenon
        <5>2. k + 1 # 1
          BY <3>2
        <5> QED
          BY <3>0, <5>1, <5>2
      <4>3. seqs[k + 1] \in Seq(Nat) /\ Len(seqs[k + 1]) = 8
        BY <3>0
      <4>4. IsFlat(flatten[k] \o seqs[k + 1], seqs, k + 1)
        BY <3>0, <4>1, <4>3, FlatStep
      <4> QED
        BY <4>2, <4>4
    <3> QED
      BY <3>1, <3>2
  <2>13. 0 .. m \subseteq T
    <3> HIDE DEF T
    <3> QED
      BY <2>11, <2>12, IntervalSet
  <2>14. IsFlat(flatten[m], seqs, m)
    BY <1>3, <2>13
  <2> QED
    BY <2>9, <2>14
<1> QED
  BY <1>2, <1>3

\* The beginning of a file that a disk took.
LEMMA OnDiskMeans ==
  ASSUME NEW S, NEW file \in Seq(S), NEW part \in OnDisk(file)
  PROVE  /\ part \in Seq(S) /\ Len(part) \in 0 .. Len(file)
         /\ \A i \in 1 .. Len(part) : part[i] = file[i]
<1>1. Len(file) \in Nat /\ \A i \in 1 .. Len(file) : file[i] \in S
  BY LenProperties, ElementOfSeq
<1>2. PICK k \in {0, Len(file) - 1, Len(file)} \cap Nat : part = SubSeq(file, 1, k)
  BY DEF OnDisk
<1>3. k \in 0 .. Len(file)
  BY <1>1, <1>2
<1>4. \A i \in 1 .. k : file[i] \in S
  BY <1>1, <1>3
<1>5. /\ SubSeq(file, 1, k) \in Seq(S)
      /\ Len(SubSeq(file, 1, k)) = IF 1 <= k THEN k - 1 + 1 ELSE 0
      /\ \A i \in 1 .. k - 1 + 1 : SubSeq(file, 1, k)[i] = file[1 + i - 1]
  BY <1>3, <1>4, SubSeqProperties
<1>6. Len(part) = k /\ \A i \in 1 .. k : part[i] = file[i]
  BY <1>2, <1>3, <1>5
<1> QED
  BY <1>2, <1>3, <1>5, <1>6

\* The numbers of which the first ones are in a file.
HasFirst(numbers, values, k) ==
  k \in 0 .. Len(values) /\ numbers = [i \in 1 .. k |-> values[i]]

\* The numbers in what is left of a file of an ll per number.
LEMMA SavedLongs ==
  ASSUME NEW values \in Seq(Nat), worker = "file", NEW part \in OnDisk(Write(values, 1))
  PROVE  /\ HasFirst(Saved(part), values, Len(part) \div 8)
         /\ part = Write(values, 1) => Len(part) \div 8 = Len(values)
<1> DEFINE m == Len(values)
           seqs == [i \in DOMAIN values |-> Long(values[i])]
           file == FlattenSeq(seqs)
           k == Len(part) \div 8
<1>1. m \in Nat /\ DOMAIN values = 1 .. m /\ \A i \in 1 .. m : values[i] \in Nat
  BY LenProperties, ElementOfSeq
<1>2. Write(values, 1) = file
  BY DEF Write, WriteFile
<1>3. \A x \in Nat : LowByte(x) \in Nat /\ x \div 256 \in Nat /\ LowByte(x) + 256 * (x \div 256) = x
  BY DEF LowByte
<1>4. \A x \in Nat : /\ Long(x) \in Seq(Nat) /\ Len(Long(x)) = 8
                     /\ Long(x)[1] = LowByte(x) /\ Long(x)[2] = x \div 256
  <2>1. \A a, b \in Nat :
          /\ <<a, b, 0, 0, 0, 0, 0, 0>> \in Seq(Nat) /\ Len(<<a, b, 0, 0, 0, 0, 0, 0>>) = 8
          /\ <<a, b, 0, 0, 0, 0, 0, 0>>[1] = a /\ <<a, b, 0, 0, 0, 0, 0, 0>>[2] = b
    OBVIOUS
  <2> QED
    BY <1>3, <2>1 DEF Long
<1>5. seqs \in [1 .. m -> Seq(Nat)] /\ \A i \in 1 .. m : Len(seqs[i]) = 8 /\ seqs[i] = Long(values[i])
  BY <1>1, <1>4
<1> HIDE DEF seqs
<1>6. /\ file \in Seq(Nat) /\ Len(file) = 8 * m
      /\ \A i \in 1 .. m : \A j \in 1 .. 8 : file[8 * i - 8 + j] = seqs[i][j]
  BY <1>1, <1>5, FlattenMeans DEF IsFlat
<1> HIDE DEF m, file
<1>7. /\ part \in Seq(Nat) /\ Len(part) \in 0 .. 8 * m
      /\ \A i \in 1 .. Len(part) : part[i] = file[i]
  BY <1>2, <1>6, OnDiskMeans
<1>8. k \in 0 .. m /\ 8 * k <= Len(part)
  BY <1>1, <1>7
<1>9. ASSUME NEW i \in 1 .. k
      PROVE  part[8 * i - 7] + 256 * part[8 * i - 6] = values[i]
  <2>1. i \in 1 .. m /\ values[i] \in Nat
    BY <1>1, <1>8
  <2>2. 8 * i - 7 = 8 * i - 8 + 1 /\ 8 * i - 6 = 8 * i - 8 + 2
    OBVIOUS
  <2>3. 8 * i - 7 \in 1 .. Len(part) /\ 8 * i - 6 \in 1 .. Len(part)
    BY <1>7, <1>8
  <2>4. file[8 * i - 8 + 1] = seqs[i][1] /\ file[8 * i - 8 + 2] = seqs[i][2]
    BY <1>6, <2>1
  <2>5. seqs[i][1] = LowByte(values[i]) /\ seqs[i][2] = values[i] \div 256
    BY <1>4, <1>5, <2>1
  <2>6. part[8 * i - 7] = LowByte(values[i]) /\ part[8 * i - 6] = values[i] \div 256
    BY <1>7, <2>2, <2>3, <2>4, <2>5
  <2> QED
    BY <1>3, <2>1, <2>6
<1>10. Saved(part) = [i \in 1 .. k |-> values[i]]
  <2>1. Saved(part) = [i \in 1 .. k |-> part[8 * i - 7] + 256 * part[8 * i - 6]]
    BY DEF Saved
  <2> QED
    BY <1>9, <2>1
<1>11. part = file => k = m
  <2> SUFFICES ASSUME part = file PROVE k = m
    OBVIOUS
  <2>1. Len(part) = 8 * m /\ (8 * m) \div 8 = m
    BY <1>1, <1>6
  <2> QED
    BY <2>1
<1> QED
  BY <1>2, <1>8, <1>10, <1>11 DEF HasFirst, m

\* The numbers in what is left of an image.
LEMMA SavedPixels ==
  ASSUME header \in Seq(Byte), NEW values \in Seq(Byte), worker = "bmp",
         NEW part \in OnDisk(Write(values, 1))
  PROVE  \E k : /\ HasFirst(Saved(part), values, k)
                /\ part = Write(values, 1) => k = Len(values)
<1> DEFINE m == Len(values)
           l == Len(header)
           file == header \o values
           k == IF Len(part) <= l THEN 0 ELSE Len(part) - l
<1>1. /\ m \in Nat /\ l \in Nat /\ DOMAIN values = 1 .. m
      /\ \A i \in 1 .. m : values[i] \in Byte
  BY LenProperties, ElementOfSeq
<1>2. /\ file \in Seq(Byte) /\ Len(file) = l + m
      /\ \A i \in 1 .. l + m : file[i] = IF i <= l THEN header[i] ELSE values[i - l]
  BY ConcatProperties
<1>3. Write(values, 1) = file
  <2>1. [i \in DOMAIN values |-> LowByte(values[i])] = values
    <3>1. \A i \in 1 .. m : LowByte(values[i]) = values[i]
      <4>1. ASSUME NEW x \in Byte PROVE LowByte(x) = x
        <5>1. x \in Nat /\ 0 <= x /\ x < 256
          BY DEF Byte
        <5>2. x % 256 = x
          BY <5>1
        <5> QED
          BY <5>2 DEF LowByte
      <4> QED
        BY <1>1, <4>1
    <3>2. values = [i \in 1 .. m |-> values[i]]
      BY LenProperties
    <3> QED
      BY <1>1, <3>1, <3>2
  <2> QED
    BY <2>1 DEF Write, WriteBmp
<1> HIDE DEF m, l, file
<1>4. /\ part \in Seq(Byte) /\ Len(part) \in 0 .. l + m
      /\ \A i \in 1 .. Len(part) : part[i] = file[i]
  BY <1>2, <1>3, OnDiskMeans
<1>5. k \in 0 .. m /\ k = IF l + 1 <= Len(part) THEN Len(part) - (l + 1) + 1 ELSE 0
  BY <1>1, <1>4
<1>6. Saved(part) = SubSeq(part, l + 1, Len(part))
  BY DEF Saved, l
<1>7. /\ Saved(part) \in Seq(Byte) /\ Len(Saved(part)) = k
      /\ \A i \in 1 .. Len(part) - (l + 1) + 1 : Saved(part)[i] = part[l + 1 + i - 1]
  <2>1. \A i \in l + 1 .. Len(part) : part[i] \in Byte
    <3>1. \A i \in 1 .. Len(part) : part[i] \in Byte
      BY <1>4, ElementOfSeq
    <3>2. \A i \in l + 1 .. Len(part) : i \in 1 .. Len(part)
      BY <1>1, <1>4
    <3> QED
      BY <3>1, <3>2
  <2>2. l + 1 \in Int /\ Len(part) \in Int
    BY <1>1, <1>4
  <2> HIDE DEF k
  <2> QED
    BY <1>5, <1>6, <2>1, <2>2, SubSeqProperties
<1>8. \A i \in 1 .. k : Saved(part)[i] = values[i]
  <2> SUFFICES ASSUME NEW i \in 1 .. k PROVE Saved(part)[i] = values[i]
    OBVIOUS
  <2>1. /\ i \in 1 .. Len(part) - (l + 1) + 1 /\ l + 1 + i - 1 = l + i /\ l + i \in 1 .. Len(part)
        /\ l + i \in 1 .. l + m /\ ~(l + i <= l) /\ (l + i) - l = i
    BY <1>1, <1>4
  <2>2. Saved(part)[i] = part[l + i]
    BY <1>7, <2>1
  <2>3. part[l + i] = file[l + i]
    BY <1>4, <2>1
  <2>4. file[l + i] = values[i]
    BY <1>2, <2>1
  <2> QED
    BY <2>2, <2>3, <2>4
<1>9. Saved(part) = [i \in 1 .. k |-> values[i]]
  <2>1. Saved(part) = [i \in 1 .. k |-> Saved(part)[i]]
    BY <1>7, LenProperties
  <2> QED
    BY <1>8, <2>1
<1>10. part = file => k = m
  BY <1>1, <1>2
<1> QED
  BY <1>3, <1>5, <1>9, <1>10 DEF HasFirst, m

\* The first elements of a sequence are a prefix of it.
LEMMA FirstIsPrefix ==
  ASSUME NEW values \in Seq(Nat), NEW k, NEW numbers, HasFirst(numbers, values, k)
  PROVE  IsPrefix(numbers, values) /\ (k = Len(values) => numbers = values)
<1>1. /\ Len(values) \in Nat /\ values = [i \in 1 .. Len(values) |-> values[i]]
      /\ \A i \in 1 .. Len(values) : values[i] \in Nat
  BY LenProperties, ElementOfSeq
<1>2. /\ k \in Nat /\ k <= Len(values) /\ numbers = [i \in 1 .. k |-> values[i]]
      /\ \A i \in 1 .. k : values[i] \in Nat
  BY <1>1 DEF HasFirst
<1>3. numbers \in Seq(Nat)
  <2>1. numbers \in [1 .. k -> Nat]
    BY <1>2
  <2> QED
    BY <1>2, <2>1, SeqDef
<1>4. Len(numbers) = k
  <2>1. DOMAIN numbers = 1 .. Len(numbers) /\ Len(numbers) \in Nat /\ DOMAIN numbers = 1 .. k
    BY <1>2, <1>3, LenProperties
  <2> QED
    BY <1>2, <2>1
<1>5. /\ SubSeq(values, 1, k) \in Seq(Nat)
      /\ Len(SubSeq(values, 1, k)) = IF 1 <= k THEN k - 1 + 1 ELSE 0
      /\ \A i \in 1 .. k - 1 + 1 : SubSeq(values, 1, k)[i] = values[1 + i - 1]
  BY <1>2, SubSeqProperties
<1>6. Len(SubSeq(values, 1, k)) = k /\ \A i \in 1 .. k : SubSeq(values, 1, k)[i] = values[i]
  BY <1>2, <1>5
<1>7. SubSeq(values, 1, k) = numbers
  <2>1. SubSeq(values, 1, k) = [i \in 1 .. k |-> SubSeq(values, 1, k)[i]]
    BY <1>5, <1>6, LenProperties
  <2> QED
    BY <1>2, <1>6, <2>1
<1>8. SubSeq(numbers, 1, Len(numbers)) = numbers
  BY <1>3, SubSeqFull
<1> QED
  BY <1>1, <1>2, <1>4, <1>7, <1>8 DEF IsPrefix

\* What decoding makes of one number, at its place.
DecodeAt(x, i) == IF coder = "RSA" THEN PowMod(x, c, n) ELSE BitXor(x, key[i])

\* Decoding goes number by number.
LEMMA DecodeIs == \A values : Decode(values) = [i \in DOMAIN values |-> DecodeAt(values[i], i)]
BY DEF Decode, RsaDecode, VernamCode, DecodeAt

\* The modulus that RSA works with.
LEMMA ModulusType ==
  ASSUME CryptoInv, Encoded, coder = "RSA"
  PROVE  n \in Nat /\ n > 0 /\ d \in Nat /\ c \in Nat
<1>1. p \in Nat /\ p > 1 /\ q \in Nat /\ q > 1 /\ d \in Nat /\ c \in Nat
  BY DEF CryptoInv, StepsOK, Constructed, Encoded, KeysTypeOK
<1>2. \A a, b \in Nat : a > 1 /\ b > 1 => a * b \in Nat /\ a * b > 0
  OBVIOUS
<1> QED
  BY <1>1, <1>2 DEF n

\* Residues are natural numbers.
LEMMA PowModType ==
  ASSUME NEW a \in Nat, NEW b \in Nat, NEW m \in Nat, m > 0
  PROVE  PowMod(a, b, m) \in Nat
<1>1. PowMod(a, b, m) = Pow(a, b) % m
  BY PowModMeans
<1>2. Pow(a, b) \in Int
  BY PowLaws
<1>3. Pow(a, b) % m \in 0 .. m - 1
  BY <1>2, ResidueProperties
<1> QED
  BY <1>1, <1>3

\* What was encoded are numbers, bytes with a VernamCoder, as many as were read.
LEMMA EncodedType ==
  ASSUME CryptoInv, CoderInv, Encoded
  PROVE  /\ encoded_data \in Seq(Nat)
         /\ DOMAIN encoded_data = DOMAIN data
         /\ coder = "Vernam" => encoded_data \in Seq(Byte)
<1> DEFINE m == Len(data)
<1>1. m \in Nat /\ DOMAIN data = 1 .. m /\ \A i \in 1 .. m : data[i] \in Byte
  <2>1. data \in Seq(Byte)
    BY DEF CryptoInv, InputSplit
  <2> QED
    BY <2>1, LenProperties, ElementOfSeq
<1>2. Byte \subseteq Nat
  BY DEF Byte
<1>3. encoded_data = Encode(data)
  BY DEF CoderInv, CodeProgress
<1>4. CASE coder = "RSA"
  <2>1. encoded_data = [i \in 1 .. m |-> PowMod(data[i], d, n)]
    BY <1>1, <1>3, <1>4 DEF Encode, RsaEncode
  <2>2. \A i \in 1 .. m : PowMod(data[i], d, n) \in Nat
    BY <1>1, <1>2, <1>4, ModulusType, PowModType
  <2>3. encoded_data \in [1 .. m -> Nat]
    BY <2>1, <2>2
  <2>4. encoded_data \in Seq(Nat)
    BY <1>1, <2>3, SeqDef
  <2> QED
    BY <1>1, <1>4, <2>3, <2>4
<1>5. CASE coder = "Vernam"
  <2>1. encoded_data = [i \in 1 .. m |-> BitXor(data[i], key[i])]
    BY <1>1, <1>3, <1>5 DEF Encode, VernamCode
  <2>2. key \in [1 .. m -> Byte]
    BY <1>1, <1>5 DEF CryptoInv, VernamProgress, Encoded, Constructed
  <2>3. \A i \in 1 .. m : BitXor(data[i], key[i]) \in Byte
    BY <1>1, <2>2, BitXorAssumption DEF Byte
  <2>4. encoded_data \in [1 .. m -> Byte]
    BY <2>1, <2>3
  <2>5. encoded_data \in Seq(Byte)
    BY <1>1, <2>4, SeqDef
  <2>6. encoded_data \in Seq(Nat)
    BY <1>2, <2>5, SeqMonotonic
  <2> QED
    BY <1>1, <2>4, <2>5, <2>6
<1> QED
  BY <1>4, <1>5 DEF CryptoInv, StepsOK

\* So does decoding.
LEMMA DecodedType ==
  ASSUME CryptoInv, CoderInv, Decoded
  PROVE  decoded_data \in Seq(Nat) /\ DOMAIN decoded_data = DOMAIN encoded_data
<1> DEFINE m == Len(encoded_data)
<1>1. Encoded
  BY DEF Encoded, Decoded
<1>2. m \in Nat /\ DOMAIN encoded_data = 1 .. m /\ DOMAIN data = 1 .. m
      /\ \A i \in 1 .. m : encoded_data[i] \in Nat
  BY <1>1, EncodedType, LenProperties, ElementOfSeq
<1>3. decoded_data = [i \in 1 .. m |-> DecodeAt(encoded_data[i], i)]
  BY <1>2, DecodeIs DEF CoderInv, CodeProgress
<1>4. \A i \in 1 .. m : DecodeAt(encoded_data[i], i) \in Nat
  <2>1. CASE coder = "RSA"
    <3>1. \A i \in 1 .. m : PowMod(encoded_data[i], c, n) \in Nat
      BY <1>1, <1>2, <2>1, ModulusType, PowModType
    <3> QED
      BY <2>1, <3>1 DEF DecodeAt
  <2>2. CASE coder = "Vernam"
    <3>1. encoded_data \in Seq(Byte)
      BY <1>1, <2>2, EncodedType
    <3>2. \A i \in 1 .. m : encoded_data[i] \in Byte
      BY <3>1, ElementOfSeq
    <3>3. key \in [1 .. m -> Byte]
      BY <1>1, <1>2, <2>2 DEF CryptoInv, VernamProgress, Encoded, Constructed
    <3>4. \A i \in 1 .. m : BitXor(encoded_data[i], key[i]) \in Byte
      BY <3>2, <3>3, BitXorAssumption DEF Byte
    <3>5. Byte \subseteq Nat
      BY DEF Byte
    <3> QED
      BY <2>2, <3>4, <3>5 DEF DecodeAt
  <2> QED
    BY <2>1, <2>2 DEF CryptoInv, StepsOK
<1>5. decoded_data \in [1 .. m -> Nat]
  BY <1>3, <1>4
<1>6. decoded_data \in Seq(Nat)
  BY <1>2, <1>5, SeqDef
<1> QED
  BY <1>2, <1>5, <1>6

\* Decoding what is left of the encoded file returns what is left of the data.
LEMMA RestoredFromInv ==
  ASSUME CryptoInv, CoderInv
  PROVE  EncodedFileIsEnough
<1> DEFINE restored == Decode(Saved(encodedFile))
<1> SUFFICES ASSUME Decoded, coder = "RSA" => worker = "file"
             PROVE  /\ IsPrefix(restored, decoded_data)
                    /\ "encoded" \notin cutShort => restored = decoded_data
  BY DEF EncodedFileIsEnough, Decoded
<1>1. Encoded
  BY DEF Encoded, Decoded
<1>2. /\ encodedFile \in OnDisk(Write(encoded_data, 1))
      /\ "encoded" \notin cutShort => encodedFile = Write(encoded_data, 1)
  BY <1>1 DEF CoderInv, EncodedBacked
<1>3. encoded_data \in Seq(Nat) /\ header \in Seq(Byte) /\ worker \in {"file", "bmp"}
  BY <1>1, EncodedType DEF CryptoInv, InputSplit
<1>4. \E k : /\ HasFirst(Saved(encodedFile), encoded_data, k)
             /\ encodedFile = Write(encoded_data, 1) => k = Len(encoded_data)
  <2>1. CASE worker = "file"
    BY <1>2, <1>3, <2>1, SavedLongs
  <2>2. CASE worker = "bmp"
    <3>1. encoded_data \in Seq(Byte)
      BY <1>1, <2>2, EncodedType DEF CryptoInv, StepsOK
    <3> QED
      BY <1>2, <1>3, <2>2, <3>1, SavedPixels
  <2> QED
    BY <1>3, <2>1, <2>2
<1>5. PICK k : /\ HasFirst(Saved(encodedFile), encoded_data, k)
               /\ encodedFile = Write(encoded_data, 1) => k = Len(encoded_data)
  BY <1>4
<1>6. /\ decoded_data \in Seq(Nat) /\ DOMAIN decoded_data = DOMAIN encoded_data
      /\ decoded_data = [i \in DOMAIN encoded_data |-> DecodeAt(encoded_data[i], i)]
  BY DecodedType, DecodeIs DEF CoderInv, CodeProgress
<1>7. Len(decoded_data) = Len(encoded_data) /\ DOMAIN encoded_data = 1 .. Len(encoded_data)
      /\ Len(encoded_data) \in Nat
  <2>1. /\ DOMAIN decoded_data = 1 .. Len(decoded_data) /\ DOMAIN encoded_data = 1 .. Len(encoded_data)
        /\ Len(decoded_data) \in Nat /\ Len(encoded_data) \in Nat
    BY <1>3, <1>6, LenProperties
  <2> QED
    BY <1>6, <2>1
<1>8. HasFirst(restored, decoded_data, k)
  <2>1. k \in 0 .. Len(encoded_data) /\ Saved(encodedFile) = [i \in 1 .. k |-> encoded_data[i]]
    BY <1>5 DEF HasFirst
  <2>2. restored = [i \in 1 .. k |-> DecodeAt(encoded_data[i], i)]
    BY <2>1, DecodeIs
  <2>3. \A i \in 1 .. k : decoded_data[i] = DecodeAt(encoded_data[i], i)
    BY <1>6, <1>7, <2>1
  <2>4. restored = [i \in 1 .. k |-> decoded_data[i]]
    BY <2>2, <2>3
  <2> QED
    BY <1>7, <2>1, <2>4 DEF HasFirst
<1> HIDE DEF restored
<1>9. IsPrefix(restored, decoded_data) /\ (k = Len(decoded_data) => restored = decoded_data)
  BY <1>6, <1>8, FirstIsPrefix
<1> QED
  BY <1>2, <1>5, <1>7, <1>9

\* The encoded file and the keys are enough to restore the data, and what a
\* full disk took of the file is enough for its beginning: for every file, pad
\* and pair of keys; that the keys fit does not matter here.
THEOREM EncodedFileCorrect == Spec => []EncodedFileIsEnough
BY CryptoInvCorrect, CoderInvCorrect, RestoredFromInv, PTL

-----------------------------------------------------------------------------
(* The candidates of the program *)

\* The factors are primes in the program as in the coder.
THEOREM ProgramPrimes ==
  ASSUME CandidatesOfProgram
  PROVE  Spec => []FactorsArePrime
<1>1. Init => FactorsPassed
  BY DEF Init, RsaInit, FactorsPassed
<1>2. [Next]_vars => [Configure]_rsa
  BY DEF Next, Read, OpenFails, ConstructVernam, ConstructRsa, EncodeData, DecodeData, Check, vars
<1>3. FactorsPassed /\ [Next]_vars => FactorsPassed'
  BY <1>2, FactorsPassedStep
<1>4. FactorsPassed => FactorsArePrime
  BY PassedArePrime
<1> QED
  BY <1>1, <1>3, <1>4, PTL DEF Spec

\* With the numbers gen_prime draws decoding restores the data modulo n, for every
\* key drawn and every file.
THEOREM ProgramDecodes ==
  ASSUME CandidatesOfProgram
  PROVE  Spec => []DecodedIsData
BY ProgramPrimes, DecodedCorrect, PTL

\* ... and what main prints is true of its files, with either coder.
THEOREM ProgramVerdict ==
  ASSUME CandidatesOfProgram
  PROVE  Spec => []VerdictIsTrue
BY ProgramPrimes, VerdictOfPrimes, PTL

-----------------------------------------------------------------------------
(* Why the program ends *)

\* How far main is, and within it the constructor of RSAcoder.
MainPlace ==
  [read |-> 0, construct |-> 1, encode |-> 2, decode |-> 3, check |-> 4, done |-> 5, failed |-> 5][step]
CoderPlace == [p |-> 0, q |-> 1, keys |-> 2, euclid |-> 3, ready |-> 4][pc]

\* One of them comes further, or algorithm_Euclid lowers the remainder.
MovesOn ==
  \/ MainPlace' > MainPlace
  \/ /\ MainPlace' = MainPlace
     /\ \/ CoderPlace' > CoderPlace
        \/ CoderPlace' = CoderPlace /\ V'[1] < V[1]

\* A step of the constructor either goes on or divides once more; it never goes
\* back, because the first keys drawn are kept.
LEMMA CoderMovesOn ==
  ASSUME KeysInv, Configure
  PROVE  CoderPlace' > CoderPlace \/ (CoderPlace' = CoderPlace /\ V'[1] < V[1])
<1>1. CASE EuclidStep
  <2>1. U[1] \in Nat /\ V[1] \in Nat /\ V[1] # 0 /\ V'[1] = U[1] % V[1] /\ pc' = pc
    BY <1>1 DEF KeysInv, KeysTypeOK, EuclidStep, Row
  <2>2. V'[1] < V[1]
    BY <2>1
  <2> QED
    BY <2>1, <2>2 DEF CoderPlace
<1>2. CASE EuclidEnd
  <2>1. pc = "euclid" /\ pc' = "ready"
    BY <1>2, KeysPass DEF KeysInv, EuclidEnd
  <2> QED
    BY <2>1 DEF CoderPlace
<1>3. CASE DrawP \/ DrawQ \/ DrawKey
  BY <1>3 DEF DrawP, DrawQ, DrawKey, CoderPlace
<1> QED
  BY <1>1, <1>2, <1>3 DEF Configure

\* No step of the program can be repeated forever: each brings main or the
\* constructor further, or lowers a natural number. This is why it ends as soon
\* as its steps are taken.
THEOREM ProgramMovesOn == Spec => [][MovesOn]_vars
<1>1. KeysInv /\ [Next]_vars => [MovesOn]_vars
  <2> SUFFICES ASSUME KeysInv, Next
               PROVE  MovesOn
    OBVIOUS
  <2>1. CASE ConstructRsa
    <3>1. Configure /\ step = "construct" /\ step' \in {"encode", "construct"}
      BY <2>1 DEF ConstructRsa
    <3>2. CoderPlace' > CoderPlace \/ (CoderPlace' = CoderPlace /\ V'[1] < V[1])
      BY <3>1, CoderMovesOn
    <3>3. MainPlace' > MainPlace \/ MainPlace' = MainPlace
      BY <3>1 DEF MainPlace
    <3> QED
      BY <3>2, <3>3 DEF MovesOn
  <2>2. CASE ~ConstructRsa
    <3> DEFINE From(here, there) == step = here /\ step' = there
    <3>1. \/ From("read", "construct") \/ From("construct", "encode") \/ From("encode", "decode")
          \/ From("decode", "check") \/ From("check", "done")
          \/ (step \in {"read", "encode", "decode"} /\ step' = "failed")
      BY <2>2, Zenon DEF Next, Read, OpenFails, ConstructVernam, EncodeData, DecodeData, Check
    <3>2. MainPlace' > MainPlace
      BY <3>1 DEF MainPlace
    <3> QED
      BY <3>2 DEF MovesOn
  <2> QED
    BY <2>1, <2>2
<1>2. Spec => []KeysInv
  BY ProgramKeys, PTL
<1> QED
  BY <1>1, <1>2, PTL DEF Spec
=============================================================================
