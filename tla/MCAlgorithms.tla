---------------------------- MODULE MCAlgorithms ----------------------------
(***************************************************************************)
(* Bytes of three bits with integers of one, two, four and eight of them;  *)
(* words of eight bits, entries of one to eight; sections of two blocks a  *)
(* side, every one of the 256 there are; boxes that are flat, not flat, or *)
(* inside out, with any faces drawn; tables with each kind of property,    *)
(* among them ones of fifteen, sixteen and twenty-five values; strings of  *)
(* no more bytes than their limit, of more, and of more than four times it.*)
(***************************************************************************)
EXTENDS Algorithms

Ends(kind, n) == IF IsSigned(kind) THEN {-(2 ^ (3 * n - 1)), -1, 0, 1, 2 ^ (3 * n - 1) - 1}
                                  ELSE {0, 1, 10 % 2 ^ (3 * n), 2 ^ (3 * n) - 1}

Fields1 ==
    UNION {[kind : {k}, value : Ends(k, IntWidth[k])] : k \in DOMAIN IntWidth \ {"bool"}}
        \union [kind : {"bool"}, value : {0, 1}]
        \union [kind : {"varint"}, value : {-2048, -1, 0, 3, 4, 2047}]
        \union [kind : {"string"}, max : {2}, value : {<<>>, <<1>>, <<7, 0>>, <<1, 2, 3>>, <<6, 4, 1>>, <<1, 2, 3, 4, 5, 6, 7, 0, 1>>}]
        \union [kind : {"uuid"}, value : [high : {0, 2 ^ 23 + 5}, low : {1, 2 ^ 24 - 1}]]
        \union [kind : {"position"}, value : [x : {-512, -1, 511}, z : {-512, 0, 511}, y : {-8, -1, 7}]]

MCFieldPairs == Fields1 \X Fields1

MCEntryInputs ==
    UNION { { [bits |-> b, words |-> [w \in 1..b |-> IF w = k THEN v ELSE IF full THEN 255 - v ELSE 0]] :
                 k \in 1..b, v \in {1, 128, 165, 255}, full \in BOOLEAN } : b \in 1..8 }

MCSections == [0..7 -> BOOLEAN] \union {generate_debug_chunk2}
                  \union {generate_debug_chunk(h) : h \in [(0..1) \X (0..1) -> 0..2]}

MCElements == [from : {<<0, 0, 0>>, <<1, 0, 2>>}, to : {<<2, 2, 2>>, <<3, 1, 4>>, <<-1, 2, 3>>},
               drawn : {{"down", "north", "east"}, {"up", "south", "west"}, {}, Range(ModelFaces)}]
MCModelPairs ==
    [first : {<<e>> : e \in MCElements}, block : {2},
     second : {<<e, f>> : e \in MCElements, f \in {g \in MCElements : g.from = <<1, 0, 2>>}}]

Enum(key, n) == [key |-> key, kind |-> "enum",
                 values |-> SubSeq(<<"a", "b", "c", "d", "e", "f", "g", "h", "i", "j", "k", "l", "m", "n", "o", "p">>, 1, n)]
Bool(key) == [key |-> key, kind |-> "bool", values |-> <<"true", "false">>]
IntProp(key, from, n) == [key |-> key, kind |-> "int", values |-> [i \in 1..n |-> from + i - 1]]

MCProps == { ps \in [1..3 -> {Enum("half", 2), Enum("facing", 3), Bool("lit"), IntProp("age", 0, 3),
                              IntProp("eggs", 1, 4), IntProp("level", 0, 15), IntProp("power", 0, 16)}] :
               \A i \in 1..3 : parse_props(ps[i]) }
MCVariants ==
    [props : {<<Enum("half", 2), Bool("lit"), IntProp("eggs", 1, 4)>>}, blocks : {<< <<1, 3>>, <<3, 1, 2>> >>},
     block : {1, 2},
     variant : { <<>>, <<[key |-> "half", value |-> "b"]>>,
                 <<[key |-> "eggs", value |-> "3"], [key |-> "half", value |-> "a"]>>,
                 <<[key |-> "lit", value |-> "true"]>> }]
MCTables == [props : MCProps, blocks : {<< <<1>>, <<2, 3>> >>, << <<>>, <<3, 1, 2>>, <<2>> >>}]
                \union [props : {<<Enum("half", 2), IntProp("note", 0, 25), Bool("lit")>>},
                        blocks : {<< <<1, 3>>, <<1, 2, 3>>, <<3, 1>> >>}]
=============================================================================
