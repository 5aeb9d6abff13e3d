----------------------------- MODULE HpackBlock -----------------------------
(***************************************************************************)
(* A header block as octets: the loop of find_path_and_encoding            *)
(* (hpack_decoder.rs) cuts it into representations, and reads the index,   *)
(* the name and the value of each.  HeaderBlocks goes on from there, with  *)
(* what the fields do to the table, the cache and the request.             *)
(*                                                                         *)
(* The client encodes a sequence of representations by the layouts of      *)
(* RFC 7541, and the block may arrive without its last octets.  One step   *)
(* is one round of the loop.                                               *)
(***************************************************************************)
EXTENDS Huffman, HpackInteger, FiniteSets

CONSTANTS
    Representations, \* what the client may send
    MaxLength,       \* bound: representations in a block
    MaxCut,          \* bound: octets missing at the end of a block
    Earlier,         \* entries of earlier blocks in the table, none with a name
                     \* the decoder looks for
    Known            \* values of grpc-encoding that GrpcEncoding knows

\* How a string is sent; "mispadded" ends in zeros where Huffman asks for ones.
Forms == {"plain", "huffman", "mispadded"}

Kinds == {"Indexed", "LiteralWithIndexing", "LiteralWithoutIndexing",
          "LiteralNeverIndexed", "SizeUpdate"}

\* A literal has an index for its name, or 0 and the name.
Representation == [kind  : Kinds,
                   index : Nat,
                   name  : {"path", "grpc-encoding", "other", "none"},
                   value : Seq(Octet),
                   form  : Forms]

ASSUME RepresentationsAssumption ==
    \A rep \in Representations :
        /\ rep \in Representation
        /\ rep.kind \notin {"Indexed", "SizeUpdate"} /\ rep.index = 0 =>
             rep.name # "none"

ASSUME BoundsAssumption == MaxLength \in Nat /\ MaxCut \in Nat

VARIABLES
    sent,           \* the representations of the block
    missing,        \* how many octets of it did not arrive
    buf,            \* the octets the loop has not read
    read,           \* history: what the loop read, round by round
    dynamic_table,  \* per entry of this block, the name the decoder knows it by
    outcome         \* "reading", "done" or an error

block_vars == <<sent, missing, buf, read, dynamic_table, outcome>>

-----------------------------------------------------------------------------
(* The client                                                              *)

PATH          == <<58, 112, 97, 116, 104>>
GRPC_ENCODING == <<103, 114, 112, 99, 45, 101, 110, 99, 111, 100, 105, 110, 103>>
TE            == <<116, 101>>

Spelling(name) ==
    CASE name = "path" -> PATH
      [] name = "grpc-encoding" -> GRPC_ENCODING
      [] name = "other" -> TE

Mispadded(bits) == bits \o [i \in 1 .. Padding(bits) |-> 0]

\* The octets of a string after its length.
Coded(text, form) ==
    IF form = "plain" THEN text
    ELSE IF form = "huffman" THEN encode(text)
    ELSE Octets(Mispadded(Bits(text)))

StringOctets(text, form) ==
    LET coded == Coded(text, form)
    IN  IF form = "plain" THEN encode_str(text)
                          ELSE encode_int(Len(coded), 7, 128) \o coded

\* A literal: an index for its name, or 0 and the name; then the value.
LiteralOctets(rep, prefix, first) ==
    encode_int(rep.index, prefix, first)
        \o (IF rep.index # 0 THEN <<>> ELSE
              StringOctets(Spelling(rep.name),
                           IF rep.form = "plain" THEN "plain" ELSE "huffman"))
        \o StringOctets(rep.value, rep.form)

RepresentationOctets(rep) ==
    CASE rep.kind = "Indexed" -> encode_int(rep.index, 7, 128)
      [] rep.kind = "LiteralWithIndexing" -> LiteralOctets(rep, 6, 64)
      [] rep.kind = "LiteralWithoutIndexing" -> LiteralOctets(rep, 4, 0)
      [] rep.kind = "LiteralNeverIndexed" -> LiteralOctets(rep, 4, 16)
      [] rep.kind = "SizeUpdate" -> encode_int(rep.index, 5, 32)

BlockOctets(reps) ==
    FlattenSeq([i \in DOMAIN reps |-> RepresentationOctets(reps[i])])

Received == SubSeq(BlockOctets(sent), 1, Len(BlockOctets(sent)) - missing)

BlockInit ==
    /\ sent \in UNION {[1 .. n -> Representations] : n \in 1 .. MaxLength}
    /\ missing \in 0 .. MaxCut
    /\ missing <= Len(BlockOctets(sent))
    /\ buf = Received
    /\ read = <<>>
    /\ dynamic_table = <<>>
    /\ outcome = "reading"

-----------------------------------------------------------------------------
(* The decoder                                                             *)

\* Representation::load; its last arm, an error, is never reached.
load(byte) ==
    CASE byte >= 128 -> "Indexed"
      [] byte \in 64 .. 127 -> "LiteralWithIndexing"
      [] byte \in 0 .. 15 -> "LiteralWithoutIndexing"
      [] byte \in 16 .. 31 -> "LiteralNeverIndexed"
      [] byte \in 32 .. 63 -> "SizeUpdate"

\* Mutant of eq_str: the Huffman form is compared as if it were plain.
eq_strPlain(out, s) == out.msg = s

\* A Huffman string is compared in its coded form.
eq_str(out, s) ==
    IF out.huff THEN Len(out.msg) <= Len(s) /\ out.msg = encode(s)
                ELSE out.msg = s

NameOf(out) ==
    IF eq_str(out, PATH) THEN "path"
    ELSE IF eq_str(out, GRPC_ENCODING) THEN "grpc-encoding"
    ELSE "other"

table_len == Earlier + Len(dynamic_table)

\* Entry k of the table, counted from the newest.
Entry(k) == IF k <= Len(dynamic_table)
              THEN dynamic_table[Len(dynamic_table) - k + 1] ELSE "other"

\* The name of an entry.  An index past the table is not checked here: the
\* subtraction or the access panics.
classify_table_index(index) ==
    IF index <= 61
      THEN IF index \in {4, 5} THEN Ok("path", 0) ELSE Ok("other", 0)
    ELSE IF index > 61 + table_len THEN Err("panic")
    ELSE Ok(Entry(index - 61), 0)

Literal(name, out) == [name |-> name, out |-> out]

decode_literal_header(octets, prefix) ==
    Then(decode_int(octets, prefix), LAMBDA index :
      IF index.value = 0
        THEN Then(decode_string(From(octets, index.adv)), LAMBDA name :
               LET before == index.adv + name.adv
               IN  Then(decode_string(From(octets, before)), LAMBDA value :
                     Ok(Literal(NameOf(name.value), value.value),
                        before + value.adv)))
        ELSE Then(decode_string(From(octets, index.adv)), LAMBDA value :
               Then(classify_table_index(index.value), LAMBDA name :
                 Ok(Literal(name.value, value.value), index.adv + value.adv))))

\* The text of a value.
Text(out) == IF out.huff THEN decode(out.msg) ELSE [ok |-> TRUE, buf |-> out.msg]

\* What a round has read.  Only the value of a path has to decode.
Field(kind, index, name, text) ==
    [kind |-> kind, index |-> index, name |-> name, text |-> text]

FieldOf(kind, literal) ==
    LET text == Text(literal.value.out)
    IN  IF literal.value.name = "path" /\ ~text.ok
          THEN Err("invalid huffman")
          ELSE Ok(Field(kind, 0, literal.value.name,
                        IF text.ok THEN text.buf ELSE <<>>), literal.adv)

\* The octets of a round are consumed, or the loop is left with an error.
Consume(round) ==
    \/ /\ round.err = "none"
       /\ read' = Append(read, round.value)
       /\ buf' = From(buf, round.adv)
       /\ UNCHANGED outcome
    \/ /\ round.err # "none"
       /\ outcome' = round.err
       /\ UNCHANGED <<read, buf>>

Round(kind) ==
    /\ outcome = "reading"
    /\ buf # <<>>
    /\ load(buf[1]) = kind
    /\ UNCHANGED <<sent, missing>>

ReadIndexed ==
    /\ Round("Indexed")
    /\ Consume(Then(decode_int(buf, 7), LAMBDA index :
           IF index.value > 61 + table_len
             THEN Err("invalid index")
             ELSE Ok(Field("Indexed", index.value, "none", <<>>), index.adv)))
    /\ UNCHANGED dynamic_table

\* The entry keeps the name grpc-encoding only with a value that is known.
ReadLiteralWithIndexing ==
    /\ Round("LiteralWithIndexing")
    /\ LET round == Then(decode_literal_header(buf, 6),
                         LAMBDA l : FieldOf("LiteralWithIndexing", l))
           entry == IF round.value.name = "grpc-encoding"
                         /\ round.value.text \notin Known
                      THEN "other" ELSE round.value.name
       IN  /\ Consume(round)
           /\ IF round.err = "none"
                THEN dynamic_table' = Append(dynamic_table, entry)
                ELSE UNCHANGED dynamic_table

ReadLiteral(kind) ==
    /\ Round(kind)
    /\ Consume(Then(decode_literal_header(buf, 4), LAMBDA l : FieldOf(kind, l)))
    /\ UNCHANGED dynamic_table

\* Read with a prefix of seven bits, of which two belong to the kind: the
\* value, which is not used, is never a full prefix, and one octet is taken.
ReadSizeUpdate ==
    /\ Round("SizeUpdate")
    /\ Consume(Then(decode_int(buf, 7), LAMBDA size :
                    Ok(Field("SizeUpdate", 0, "none", <<>>), size.adv)))
    /\ UNCHANGED dynamic_table

EndOfBlock ==
    /\ outcome = "reading"
    /\ buf = <<>>
    /\ outcome' = "done"
    /\ UNCHANGED <<sent, missing, buf, read, dynamic_table>>

BlockNext ==
    \/ ReadIndexed
    \/ ReadLiteralWithIndexing
    \/ ReadLiteral("LiteralWithoutIndexing")
    \/ ReadLiteral("LiteralNeverIndexed")
    \/ ReadSizeUpdate
    \/ EndOfBlock

BlockSpec == BlockInit /\ [][BlockNext]_block_vars

-----------------------------------------------------------------------------
(* Properties                                                              *)

\* After every round the loop stands where the client's next representation
\* begins, having consumed the octets of the ones before it: whatever the
\* prefix of an integer, the length of a string and the kind, and also when
\* the end of the block is missing.
RoundsMatch ==
    BlockOctets(SubSeq(sent, 1, Len(read))) \o buf = Received

\* The representations before the i-th that made an entry of the client's table.
Inserted(reps, i) == {j \in 1 .. i-1 : reps[j].kind = "LiteralWithIndexing"}
Entries(reps, i)  == Cardinality(Inserted(reps, i))
TableLength(i)    == Earlier + Entries(sent, i)

\* Zeros are no error where there is no padding, nor where there are five of
\* them: the code of ZERO, and the text is one character longer.
Readable(rep) == rep.form = "mispadded" => Padding(Bits(rep.value)) \in {0, 5}

MeantValue(rep) ==
    IF rep.form = "mispadded" /\ Padding(Bits(rep.value)) = 5
      THEN Append(rep.value, ZERO) ELSE rep.value

\* The name an entry is of use for: none with an encoding that is not known.
\* What that loses is the question of the run header_blocks_encoding.
Kept(name, rep) ==
    IF name = "grpc-encoding" /\ ~(Readable(rep) /\ MeantValue(rep) \in Known)
      THEN "other" ELSE name

\* The names of the client's representations; the entry that one refers to is
\* found by how many were made since.
NamesMeant(reps) ==
    LET name[n \in DOMAIN reps] ==
          LET index == reps[n].index
              Meant == {j \in Inserted(reps, n) :
                          Entries(reps, n) - Entries(reps, j) = index - 61}
              made  == CHOOSE j \in Meant : TRUE
          IN  IF index = 0 THEN reps[n].name
              ELSE IF index \in {4, 5} THEN "path"
              ELSE IF Meant = {} THEN "other"
              ELSE Kept(name[made], reps[made])
    IN  name

MeantName(i) == NamesMeant(sent)[i]

\* Each round has read what the client put there: the kind, the index or the
\* name, in either of its forms or taken from the table, and the text; no path
\* is taken from a text that is not padded as it should be.
FieldsAsSent ==
    \A i \in DOMAIN read :
        /\ read[i].kind = sent[i].kind
        /\ sent[i].kind = "Indexed" => read[i].index = sent[i].index
        /\ sent[i].kind \notin {"Indexed", "SizeUpdate"} =>
             /\ read[i].name = MeantName(i)
             /\ Readable(sent[i]) => read[i].text = MeantValue(sent[i])
             /\ read[i].name = "path" => Readable(sent[i])

\* Nothing a block may not contain: an index past the table, an integer that
\* takes more than five octets, a path that is not padded as it should be.
Valid ==
    \A i \in DOMAIN sent :
        /\ sent[i].kind # "SizeUpdate" => sent[i].index <= 61 + TableLength(i)
        /\ ~Readable(sent[i]) => MeantName(i) # "path"

\* A block that arrives whole is read to its end, and all of it.
ValidBlockRead ==
    (missing = 0 /\ Valid) =>
        /\ outcome \in {"reading", "done"}
        /\ outcome = "done" => Len(read) = Len(sent)

-----------------------------------------------------------------------------
(* What the theorems about these properties assume of the constants        *)

\* The sizes of table updates fit their first octet.
SmallSizes ==
    \A rep \in Representations : rep.kind = "SizeUpdate" => rep.index < 31

EmptyUnknown == <<>> \notin Known

\* Strings and the table are not longer than five octets can say.
Fits(n) == n < 2^28

Roomy ==
    /\ Earlier \in Nat
    /\ Fits(61 + Earlier + MaxLength)
    /\ \A rep \in Representations : Fits(Len(Coded(rep.value, rep.form)))
=============================================================================
