------------------------------ MODULE MCCodec ------------------------------
(***************************************************************************)
(* The octet level of HPACK for TLC: the Huffman decoder in every state    *)
(* and on every input, and header blocks of the representations below.     *)
(* The two share no state; one behaviour runs one of them.                 *)
(***************************************************************************)
EXTENDS HuffmanDecoder, HpackBlock

\* Nobody sends a block.
Idle ==
    /\ sent = <<>> /\ missing = 0 /\ buf = <<>> /\ read = <<>>
    /\ dynamic_table = <<>> /\ outcome = "done"

Init == HuffmanInit /\ (Idle \/ BlockInit)

Next ==
    \/ sent = <<>> /\ HuffmanNext /\ UNCHANGED block_vars
    \/ BlockNext /\ UNCHANGED huffman_vars

Spec == Init /\ [][Next]_<<huffman_vars, block_vars>>

Rep(kind, index, name, value, form) ==
    [kind |-> kind, index |-> index, name |-> name, value |-> value,
     form |-> form]

Letters(n) == [i \in 1 .. n |-> 97]
GZIP == <<103, 122, 105, 112>>
KnownTexts == {GZIP}

\* Around the prefixes of seven, six and four bits, the end of the static
\* table, and the last entry of a table of 200; 2^28 takes six octets.
Indices == {0, 1, 61, 62, 63, 126, 127, 128, 255, 261, 262, 263, 2^28 + 127}

\* String lengths around one and two octets of length, in each form; texts that
\* zeros follow, two of them or the five that are a character.
SmallRepresentations ==
    {Rep("Indexed", i, "none", <<>>, "plain") : i \in Indices}
    \cup {Rep("LiteralWithIndexing", 0, "path", <<47>>, form) : form \in Forms}
    \cup {Rep("LiteralWithIndexing", 0, "path", <<47, 97>>, "mispadded")}
    \cup {Rep("LiteralWithIndexing", i, "other", Letters(1), "plain") :
              i \in {4, 62, 63, 64, 190, 191, 262}}
    \cup {Rep("LiteralWithIndexing", 0, "grpc-encoding", text, "huffman") :
              text \in {GZIP, Letters(1)}}
    \cup {Rep("LiteralWithoutIndexing", i, "other", <<47, 97>>, "huffman") :
              i \in {5, 14, 15, 16, 62, 63, 142, 143, 263}}
    \cup {Rep("LiteralWithoutIndexing", 0, name, <<47>>, form) :
              name \in {"path", "grpc-encoding", "other"},
              form \in {"plain", "mispadded"}}
    \cup {Rep("LiteralNeverIndexed", 0, "other", Letters(n), "plain") :
              n \in {0, 126, 127, 128, 255}}
    \cup {Rep("LiteralNeverIndexed", 0, "path", Letters(204), "huffman")}
    \cup {Rep("SizeUpdate", i, "none", <<>>, "plain") : i \in {0, 30}}

\* What the theorems about the decoder and about blocks assume: that the two
\* Huffman tables say the same in a set of states and bits (TablesFit, which has
\* no bound and no constant), and of the representations, texts and table of
\* this module that they fit.  The set is no other than the states in which the
\* decoder runs.
Hypotheses ==
    /\ ~failed => <<decoder, begun>> \in Reached
    /\ TablesFit /\ SmallSizes /\ EmptyUnknown /\ Roomy

\* A size update that does not fit its first octet.
LargeSizes ==
    {Rep("SizeUpdate", i, "none", <<>>, "plain") : i \in {30, 31, 4096}}
    \cup {Rep("Indexed", 2, "none", <<>>, "plain")}
=============================================================================
