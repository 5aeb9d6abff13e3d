------------------------------- MODULE Huffman -------------------------------
(***************************************************************************)
(* Huffman coding of HPACK strings (huffman/mod.rs).  The accumulator of   *)
(* the code is a sequence of bits here.                                    *)
(***************************************************************************)
EXTENDS Integers, SequencesExt, HuffmanTable

Octet   == 0 .. 255
EOS     == 256
ZERO    == 48            \* the character 0, whose code is five zeros
Symbols == 0 .. EOS

MAYBE_EOS == 1
DECODED   == 2
ERROR     == 4

IsSet(flags, flag) == (flags \div flag) % 2 = 1

\* The `width` low bits of n, the highest first, and back.
BitsOf(n, width) == [i \in 1 .. width |-> (n \div 2^(width - i)) % 2]
Number(bits) ==
    LET value[n \in 0 .. Len(bits)] ==
          IF n = 0 THEN 0 ELSE 2 * value[n-1] + bits[n]
    IN  value[Len(bits)]

Code == [s \in Symbols |-> BitsOf(ENCODE_TABLE[s+1][2], ENCODE_TABLE[s+1][1])]

-----------------------------------------------------------------------------
(* encode and decode                                                       *)

Padding(bits) == (8 - (Len(bits) % 8)) % 8

\* The padding is the beginning of EOS.
Padded(bits) == bits \o [i \in 1 .. Padding(bits) |-> 1]

Octets(bits) ==
    [i \in 1 .. Len(bits) \div 8 |-> Number(SubSeq(bits, 8*i - 7, 8*i))]

Bits(src) == FlattenSeq([i \in DOMAIN src |-> Code[src[i]]])

encode(src) == Octets(Padded(Bits(src)))

new == [state |-> 0, maybe_eos |-> FALSE]

\* Mutant of Decoded: an octet whose end may also be the end of the string is
\* lost.
DecodedOneFlag(entry) ==
    [err     |-> IsSet(entry[3], ERROR),
     ret     |-> IF entry[3] = DECODED THEN <<entry[2]>> ELSE <<>>,
     decoder |-> [state     |-> entry[1],
                  maybe_eos |-> IsSet(entry[3], MAYBE_EOS)]]

\* What an entry of the table does: an error, or at most one octet and the
\* next state.
Decoded(entry) ==
    [err     |-> IsSet(entry[3], ERROR),
     ret     |-> IF IsSet(entry[3], DECODED) THEN <<entry[2]>> ELSE <<>>,
     decoder |-> [state     |-> entry[1],
                  maybe_eos |-> IsSet(entry[3], MAYBE_EOS)]]

\* Four bits of input.
decode4(dec, input) ==
    Decoded(DECODE_TABLE[dec.state + 1][input + 1])

\* Mutant of is_final: a string may end only where a symbol does.
is_finalState(dec) == dec.state = 0

is_final(dec) == dec.state = 0 \/ dec.maybe_eos

\* What decode has so far, after what decode4 returned.
Extended(r, d) ==
    [ok |-> r.ok /\ ~d.err, decoder |-> d.decoder, buf |-> r.buf \o d.ret]

Finished(r) == [ok |-> r.ok /\ is_final(r.decoder), buf |-> r.buf]

ReadNibble(r, input) == Extended(r, decode4(r.decoder, input))

\* Nothing is read after an error.
ReadOctet(r, octet) ==
    IF r.ok THEN ReadNibble(ReadNibble(r, octet \div 16), octet % 16) ELSE r

\* Whether src decodes, and to what.
decode(src) ==
    LET read[n \in 0 .. Len(src)] ==
          IF n = 0 THEN [ok |-> TRUE, decoder |-> new, buf |-> <<>>]
          ELSE ReadOctet(read[n-1], src[n])
    IN  Finished(read[Len(src)])
=============================================================================
