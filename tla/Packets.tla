------------------------------- MODULE Packets -------------------------------
(***************************************************************************)
(* The packets of the IT-100's protocol, as It100Message and IT100 build   *)
(* them (it100message.cpp; it100.cpp has the same two functions again).    *)
(* Bytes are numbers.                                                      *)
(***************************************************************************)
EXTENDS Naturals, Sequences

Byte == 0..255
CR == 13
LF == 10

\* The ASCII code of a hexadecimal digit, in upper case.
Hex(d) == IF d < 10 THEN 48 + d ELSE 55 + d

\* QString::setNum(n, 16): the digits of n without leading zeros, the codes of
\* small letters then raised by toUpper.
HexDigits[n \in Nat] ==
  IF n < 16 THEN <<Hex(n)>> ELSE Append(HexDigits[n \div 16], Hex(n % 16))

Count[bytes \in Seq(Byte)] ==
  IF bytes = <<>> THEN 0 ELSE Head(bytes) + Count[Tail(bytes)]

\* Faulty: the first two digits of the sum.
ChecksumFirst(bytes) == SubSeq(HexDigits[Count[bytes]], 1, 2)

\* generateChecksum(): the last two digits of the sum, which has at least two:
\* a command is three ASCII digits.
Checksum(bytes) ==
  LET asciiint == HexDigits[Count[bytes]] IN
  SubSeq(asciiint, Len(asciiint) - 1, Len(asciiint))

\* generatePacket(), without the line's end.
Sealed(bytes) == bytes \o Checksum(bytes)

Packet(bytes) == Sealed(bytes) \o <<CR, LF>>

\* What a receiver that checks does: the sum, as a byte, in two digits.
Verifies(line) ==
  LET n    == Len(line)
      byte == Count[SubSeq(line, 1, n - 2)] % 256
  IN n > 2 /\ line[n - 1] = Hex(byte \div 16) /\ line[n] = Hex(byte % 16)
=============================================================================
