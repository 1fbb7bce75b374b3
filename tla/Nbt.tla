--------------------------------- MODULE Nbt --------------------------------
(***************************************************************************)
(* nbt.cc, nbt.hh: a tree of tags read from a packet.  A tag is            *)
(* [type, value]; the value of a number is its bytes, of a string or an    *)
(* array its elements' bytes, of a list its tags, of a compound its pairs  *)
(* of a name and a tag.                                                    *)
(*                                                                         *)
(* The constructors call one another; here they are one function of what   *)
(* is constructed and where in the packet its bytes begin.                 *)
(***************************************************************************)
EXTENDS PacketFields

TAG_END == 0
TAG_BYTE == 1
TAG_SHORT == 2
TAG_INT == 3
TAG_LONG == 4
TAG_FLOAT == 5
TAG_DOUBLE == 6
TAG_BYTE_ARRAY == 7
TAG_STRING == 8
TAG_LIST == 9
TAG_COMPOUND == 10
TAG_INT_ARRAY == 11
TAG_LONG_ARRAY == 12

\* Each of them is a byte.
ASSUME NbtAssumption == TAG_LONG_ARRAY \in Byte

\* The bytes of the tags that are one number, TAG_BYTE to TAG_DOUBLE.
NumberBytes == <<1, ShortBytes, IntBytes, LongBytes, IntBytes, LongBytes>>

Tag(type, value) == [type |-> type, value |-> value]

\* A u16 and as many characters.
read_name(s, at, end) ==
    Then(read_int(s, at, end, "u16"), LAMBDA i, n : read_bytes(s, i, end, n))

\* Slip: as many bytes as there are elements.
read_array_Bytes(s, at, end, width) ==
    Then(read_int(s, at, end, "i32"),
         LAMBDA i, n : IF n <= 0 THEN Ok(i, <<>>) ELSE read_bytes(s, i, end, n))

\* An i32 and so many elements of width bytes; none if it is not positive.
read_array(s, at, end, width) ==
    Then(read_int(s, at, end, "i32"),
         LAMBDA i, n : IF n <= 0 THEN Ok(i, <<>>) ELSE read_bytes(s, i, end, n * width))

\* tag::create and the constructor it calls; construct stands for the others.
create(construct, s, end, type, at) ==
    LET tag(r) == Then(r, LAMBDA i, v : Ok(i, Tag(type, v)))
    IN  CASE type \in DOMAIN NumberBytes -> tag(read_bytes(s, at, end, NumberBytes[type]))
          [] type = TAG_END -> Aborted
          [] type = TAG_STRING -> tag(read_name(s, at, end))
          [] type = TAG_INT_ARRAY -> tag(read_array(s, at, end, IntBytes))
          [] type = TAG_LONG_ARRAY -> tag(read_array(s, at, end, LongBytes))
          [] type = TAG_COMPOUND -> tag(construct[<<"pairs", type, 0, at>>])
          [] type = TAG_LIST ->
                tag(Then(read_int(s, at, end, "u8"),
                         LAMBDA i, item : Then(read_int(s, i, end, "i32"),
                             LAMBDA j, n : IF n <= 0 THEN Ok(j, <<>>)
                                           ELSE construct[<<"items", item, n, j>>])))
          [] type = TAG_BYTE_ARRAY \/ type > TAG_LONG_ARRAY -> Thrown

\* The loop of tag_list: n items of a type are left.
items(construct, type, n, at) ==
    IF n = 0 THEN Ok(at, <<>>)
    ELSE Then(construct[<<"tag", type, 0, at>>], LAMBDA i, v :
         Then(construct[<<"items", type, n - 1, i>>], LAMBDA j, vs : Ok(j, <<v>> \o vs)))

\* The loop of tag_compound.
pairs(construct, s, end, at) ==
    Then(read_int(s, at, end, "u8"), LAMBDA i, type :
        IF type = TAG_END THEN Ok(i, <<>>)
        ELSE Then(read_name(s, i, end), LAMBDA j, name :
             Then(construct[<<"tag", type, 0, j>>], LAMBDA k, v :
             Then(construct[<<"pairs", TAG_COMPOUND, 0, k>>], LAMBDA l, vs : Ok(l, <<<<name, v>>>> \o vs)))))

\* What is constructed: a tag of a type, items of a type and how many, or pairs;
\* and where its bytes begin.
Constructed == {"tag", "items", "pairs"} \X Byte \X Nat \X Nat

Construct(s, end) ==
    LET construct[g \in Constructed] ==
            CASE g[1] = "tag"   -> create(construct, s, end, g[2], g[4])
              [] g[1] = "items" -> items(construct, g[2], g[3], g[4])
              [] g[1] = "pairs" -> pairs(construct, s, end, g[4])
    IN  construct

\* The constructor of nbt: a named tag, or TAG_END alone and no root.
read_nbt(s, at, end) ==
    Then(read_int(s, at, end, "u8"), LAMBDA i, type :
        IF type = TAG_END THEN Ok(i, Tag(TAG_END, <<>>))
        ELSE Then(read_name(s, i, end), LAMBDA j, name : Construct(s, end)[<<"tag", type, 0, j>>]))
=============================================================================
