---------------------------- MODULE HuffmanDecoder ----------------------------
(***************************************************************************)
(* The Huffman decoder (decode4 in huffman/mod.rs) as a state machine over *)
(* half octets, against the code that ENCODE_TABLE defines.                *)
(*                                                                         *)
(* The sender may send any bits at all: the code is complete, so whatever  *)
(* comes is a sequence of symbols and the beginning of one.  `begun` is    *)
(* that beginning by the code; the decoder has no bits, only the number of *)
(* a state.                                                                *)
(***************************************************************************)
EXTENDS Huffman

HalfOctets == 0 .. 15
Levels == 16             \* no state of the decoder is further from the first

Codes == Range(Code)
SymbolOf(code) == CHOOSE s \in Symbols : Code[s] = code

\* The bits begun and the first k of four more.
Upto(bits, four, k) == bits \o SubSeq(four, 1, k)

\* After how many of the four bits a code ends: no code is shorter than five
\* bits, so at most one does.
CodeEnds(bits, four) == {k \in 1 .. 4 : Upto(bits, four, k) \in Codes}

\* What has begun after the four bits, and the symbol that ended with them, if
\* any.
BegunAfter(bits, four) ==
    LET ends == CodeEnds(bits, four)
    IN  IF ends = {} THEN bits \o four
        ELSE SubSeq(four, (CHOOSE k \in ends : TRUE) + 1, 4)

DueAfter(bits, four) ==
    LET ends == CodeEnds(bits, four)
    IN  IF ends = {} THEN <<>>
        ELSE <<SymbolOf(Upto(bits, four, CHOOSE k \in ends : TRUE))>>

\* Where a string may end: after fewer than eight ones.
IsPadding(bits) == Len(bits) < 8 /\ \A i \in 1 .. Len(bits) : bits[i] = 1

-----------------------------------------------------------------------------
(* The state machine                                                       *)

VARIABLES
    decoder,  \* Decoder { state, maybe_eos }
    failed,   \* decode4 has returned an error
    gave,     \* what decode4 returned last: no symbol or one
    begun,    \* the bits sent since the last symbol ended
    due       \* the symbol that ended with the last four bits, if any

huffman_vars == <<decoder, failed, gave, begun, due>>

HuffmanInit ==
    /\ decoder = new
    /\ failed = FALSE
    /\ gave = <<>>
    /\ begun = <<>>
    /\ due = <<>>

SendNibble(input) ==
    /\ begun' = BegunAfter(begun, BitsOf(input, 4))
    /\ due' = DueAfter(begun, BitsOf(input, 4))

DecodeNibble(input) ==
    /\ ~failed
    /\ SendNibble(input)
    /\ LET d == decode4(decoder, input)
       IN  \/ /\ d.err
              /\ failed' = TRUE
              /\ gave' = <<>>
              /\ UNCHANGED decoder
           \/ /\ ~d.err
              /\ decoder' = d.decoder
              /\ gave' = d.ret
              /\ UNCHANGED failed

HuffmanNext == \E input \in HalfOctets : DecodeNibble(input)

HuffmanSpec == HuffmanInit /\ [][HuffmanNext]_huffman_vars

\* DECODE_TABLE says what ENCODE_TABLE says, in every one of its states and
\* for every input: an octet comes out when its last bit is in, the right one,
\* and the only error is the end-of-string symbol inside a string.
TablesAgree ==
    IF due = <<EOS>> THEN failed ELSE ~failed /\ gave = due

\* A string may end where fewer than eight ones follow its last symbol, and
\* nowhere else: no symbol cut short passes for padding, and no padding of the
\* sender is refused.
EndsAtPadding == ~failed => (is_final(decoder) <=> IsPadding(begun))

-----------------------------------------------------------------------------
(* The two tables as a fact without variables, for the theorems            *)

\* A code as RFC 7541 means it: no code begins another.
CodeFits ==
    /\ \A s \in Symbols : Code[s] \in Seq({0, 1}) /\ Len(Code[s]) > 4
    /\ \A s, t \in Symbols : IsPrefix(Code[s], Code[t]) => s = t
    /\ Code[EOS] = [i \in 1 .. 30 |-> 1]
    /\ Code[ZERO] = [i \in 1 .. 5 |-> 0]

\* A set of states of the decoder, each with the bits it stands for, is right:
\* the first state stands for no bits, every state knows whether a string may
\* end, and four bits give what the code says and lead to a state of the set.
Agree(pairs) ==
    /\ <<new, <<>>>> \in pairs
    /\ \A pair \in pairs : is_final(pair[1]) <=> IsPadding(pair[2])
    /\ \A pair \in pairs, input \in HalfOctets :
         LET four  == BitsOf(input, 4)
             d     == decode4(pair[1], input)
             ended == DueAfter(pair[2], four)
         IN  IF ended = <<EOS>> THEN d.err
             ELSE /\ ~d.err
                  /\ d.ret = ended
                  /\ <<d.decoder, BegunAfter(pair[2], four)>> \in pairs

\* The states the decoder can be in, level by level.
Following(pair) ==
    {<<decode4(pair[1], input).decoder, BegunAfter(pair[2], BitsOf(input, 4))>> :
         input \in {i \in HalfOctets : ~decode4(pair[1], i).err}}

Reached ==
    LET within[n \in 0 .. Levels] ==
          IF n = 0 THEN {<<new, <<>>>>}
          ELSE LET before == within[n-1]
               IN  before \cup UNION {Following(pair) : pair \in before}
    IN  within[Levels]

\* What the theorems assume of the tables; TLC evaluates it.
TablesFit == CodeFits /\ Agree(Reached)
=============================================================================
