------------------------------- MODULE BitField -------------------------------
(***************************************************************************)
(* The 64-bit words of src/src/bitfield.c and the eight bytes of a CAN     *)
(* frame.  A word is the set of the positions of its bits, 0 the least     *)
(* significant, so that the shifts and masks of the code are shifts and    *)
(* intersections of sets, at their real width.  The processors are little- *)
(* endian: byte i of a word in memory holds its bits 8 * i to 8 * i + 7,   *)
(* and bigEndian() is false.                                               *)
(***************************************************************************)
EXTENDS Integers, FiniteSetsExt

WordBits == 0 .. 63

\* Words and numbers.  TLC's numbers end at 2^31 - 1, and so do the signals' raw values.
Word(n) == IF n >= 0 THEN {b \in 0 .. 30 : (n \div 2 ^ b) % 2 = 1}
           ELSE WordBits \ {b \in 0 .. 30 : ((-n - 1) \div 2 ^ b) % 2 = 1}

Unsigned(word) == MapThenSumSet(LAMBDA b : 2 ^ b, word)

Signed(word) == IF 63 \in word THEN -Unsigned(WordBits \ word) - 1 ELSE Unsigned(word)

ShiftLeft(word, n) == {b + n : b \in word} \cap WordBits

ShiftRight(word, n) == {b - n : b \in word} \cap WordBits

\* __builtin_bswap64
Swapped(word) == {8 * (7 - (b \div 8)) + (b % 8) : b \in word}

MemoryByte(word, i) == ShiftRight(word, 8 * i) \cap 0 .. 7

-----------------------------------------------------------------------------
findEndBit(startBit, numBits) == LET endBit == (startBit + numBits) % 8
                                 IN  IF endBit = 0 THEN 8 ELSE endBit

bitmask(numBits) == 0 .. numBits - 1

startingByte(startBit) == startBit \div 8

endingByte(startBit, numBits) == (startBit + numBits - 1) \div 8

\* Mutant: the end of a field that fills its last byte is taken for the byte's start.
getBitFieldUnaligned(data, startBit, numBits) ==
    LET last == endingByte(startBit, numBits)
        joined == UNION {ShiftLeft(MemoryByte(data, i), 8 * (last - i)) :
                            i \in startingByte(startBit) .. last}
    IN  ShiftRight(joined, 8 - ((startBit + numBits) % 8)) \cap bitmask(numBits)

\* The bytes the field touches, the first the most significant, cut to the field.
getBitField(data, startBit, numBits) ==
    LET last == endingByte(startBit, numBits)
        joined == UNION {ShiftLeft(MemoryByte(data, i), 8 * (last - i)) :
                            i \in startingByte(startBit) .. last}
    IN  ShiftRight(joined, 8 - findEndBit(startBit, numBits)) \cap bitmask(numBits)

\* For numBits < 31: the code's shifts of an int are undefined for wider signals.
getTwosComplement(data, numBits) == IF numBits - 1 \in data
                                    THEN data \cup (numBits .. 63) ELSE data

\* The value is not masked: if it is too wide, it spills over the bits before the field.
setBitField(data, value, startBit, numBits) ==
    LET shiftDistance == 64 - startBit - numBits
    IN  (data \ ShiftLeft(bitmask(numBits), shiftDistance)) \cup ShiftLeft(value, shiftDistance)

nthByte(source, n) == ShiftRight(source, 64 - (n + 1) * 8) \cap 0 .. 7

-----------------------------------------------------------------------------
(* A frame is the function from the place of a byte on the wire to the byte. *)

\* Mutant: the bytes of the two words in the processor's own order.
copyToMessageBufferReversed(source, board) ==
    [i \in 0 .. 7 |-> IF board = "LPC17xx" THEN nthByte(source, i) ELSE MemoryByte(source, i)]

\* The LPC17xx fills the controller's two words from the last byte of the source back,
\* the PIC32 copies memory in order.
copyToMessageBuffer(source, board) ==
    [i \in 0 .. 7 |-> IF board = "LPC17xx" THEN nthByte(source, 7 - i)
                                           ELSE MemoryByte(source, i)]

\* The same on both boards.
receiveCanMessage(frame) == UNION {ShiftLeft(frame[i], 8 * i) : i \in 0 .. 7}

\* For the properties: the bits of a frame as its sender numbers them, bit 0 the first
\* on the wire and the most significant of the first byte.
OnWire(frame) == UNION {{8 * i + 7 - b : b \in frame[i]} : i \in 0 .. 7}
=============================================================================
