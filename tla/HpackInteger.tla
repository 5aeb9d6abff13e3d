---------------------------- MODULE HpackInteger ----------------------------
(***************************************************************************)
(* The integers and strings of HPACK, as the crate writes them             *)
(* (hpack_encoder.rs) and as it reads them (hpack_decoder.rs).  A buffer   *)
(* is a sequence of octets 0 .. 255.                                       *)
(***************************************************************************)
EXTENDS Integers, Sequences

\* Reading either fails, or gives a value and the octets it took (`adv`).
\* "panic" is an index or a subtraction out of range.
Ok(value, adv) == [err |-> "none", value |-> value, adv |-> adv]
Err(err)       == [err |-> err, value |-> 0, adv |-> 0]

\* The `?` operator.
Then(result, F(_)) == IF result.err = "none" THEN F(result) ELSE result

\* &buf[adv..]
From(buf, adv) == SubSeq(buf, adv + 1, Len(buf))

-----------------------------------------------------------------------------
(* Writing                                                                 *)

\* The octets after the prefix: seven bits each, the lowest first.
Varint[value \in Nat] ==
    IF value < 128 THEN <<value>>
                   ELSE <<128 + (value % 128)>> \o Varint[value \div 128]

encode_int_one_byte(value, prefix_bits) == value < 2^prefix_bits - 1

encode_int(value, prefix_bits, first_byte) ==
    LET low == 2^prefix_bits - 1
    IN  IF encode_int_one_byte(value, prefix_bits)
          THEN <<first_byte + value>>
          ELSE <<first_byte + low>> \o Varint[value - low]

encode_str(val) == encode_int(Len(val), 7, 0) \o val

-----------------------------------------------------------------------------
(* Reading                                                                 *)

MAX_BYTES == 5

\* Mutant of decode_int: a full prefix is taken for the value.
decode_intFullPrefix(buf, prefix_size) ==
    IF buf = <<>> THEN Err("need more") ELSE Ok(buf[1] % 2^prefix_size, 1)

\* Where the integer may end: after the first octet below 128, if that is
\* among the first MAX_BYTES.
Ends(buf) ==
    {n \in 2 .. MAX_BYTES : /\ n <= Len(buf)
                            /\ buf[n] < 128
                            /\ \A k \in 2 .. n-1 : buf[k] >= 128}

\* `ret` after the n-th octet.
ValueUpTo(buf, prefix_size) ==
    LET value[n \in 1 .. MAX_BYTES] ==
          IF n = 1 THEN buf[1] % 2^prefix_size
                   ELSE value[n-1] + (buf[n] % 128) * 2^(7 * (n - 2))
    IN  value

\* Without an end the value is too large, or the buffer is at its end and
\* indexed past it: the loop tests a condition that never changes.
decode_int(buf, prefix_size) ==
    LET value == ValueUpTo(buf, prefix_size)
    IN  IF buf = <<>> THEN Err("need more")
        ELSE IF value[1] < 2^prefix_size - 1 THEN Ok(value[1], 1)
        ELSE IF Ends(buf) # {}
               THEN LET n == CHOOSE n \in Ends(buf) : TRUE IN Ok(value[n], n)
        ELSE IF Len(buf) < MAX_BYTES THEN Err("panic")
        ELSE Err("integer overflow")

\* OutStr: the octets of a string, and whether they are Huffman coded.
OutStr(huff, msg) == [huff |-> huff, msg |-> msg]

\* Mutant of decode_string: a string that fills the buffer is refused.
decode_stringStrict(buf) ==
    IF buf = <<>> THEN Err("need more")
    ELSE Then(decode_int(buf, 7), LAMBDA len :
           LET end == len.adv + len.value
           IN  IF end >= Len(buf) THEN Err("need more")
               ELSE Ok(OutStr(buf[1] >= 128, SubSeq(buf, len.adv + 1, end)), end))

decode_string(buf) ==
    IF buf = <<>> THEN Err("need more")
    ELSE Then(decode_int(buf, 7), LAMBDA len :
           LET end == len.adv + len.value
           IN  IF end > Len(buf) THEN Err("need more")
               ELSE Ok(OutStr(buf[1] >= 128, SubSeq(buf, len.adv + 1, end)), end))
=============================================================================
