----------------------------- MODULE BlockTables ----------------------------
(***************************************************************************)
(* The tables of blocks, their properties and their states: how            *)
(* generator/block_states.py packs them, how data/block.hh takes them      *)
(* apart and how main.cc matches a state with a variant of a resource.     *)
(* The numbers are the code's: sixteen bits hold the count of a property's *)
(* values, its type and where its words begin.                             *)
(*                                                                         *)
(* A property is [key, kind, values]; its kind is "enum", "bool" or "int". *)
(* A block is the sequence of the numbers (from 1) of its properties.  The *)
(* words of an enum are strings, the numbers of an int integers, the       *)
(* values of a bool "true" and "false", in this order.                     *)
(***************************************************************************)
EXTENDS Integers, Sequences, SequencesExt

\* What the generator asserts of a property: parse_props.  (That its tables are
\* not too long for the numbers of their entries it asserts too.)
parse_props(p) ==
    /\ Len(p.values) < 32
    /\ p.kind = "bool" => p.values = <<"true", "false">>
    /\ p.kind = "int"  => /\ p.values[1] \in {0, 1}
                          /\ \A i \in DOMAIN p.values : p.values[i] = p.values[1] + (i - 1)

\* The sum and the product of a sequence of numbers.
Total(s) ==
    LET total[i \in 0..Len(s)] == IF i = 0 THEN 0 ELSE total[i - 1] + s[i] IN total[Len(s)]

Product(s) ==
    LET product[i \in 0..Len(s)] == IF i = 0 THEN 1 ELSE product[i - 1] * s[i] IN product[Len(s)]

Words(p) == IF p.kind = "enum" THEN Len(p.values) ELSE 0

\* Where the words of property i begin in the table of all words.
value_offset(props, i) == Total([j \in 1 .. i - 1 |-> Words(props[j])])

\* write_cpp: flags[], values[], properties[] and property_map[].
flags(props, i) ==
    LET p == props[i]
        type == CASE p.kind = "enum" -> value_offset(props, i) * 256
                  [] p.kind = "bool" -> 32
                  [] p.kind = "int"  -> IF p.values[1] = 0 THEN 64 ELSE 96
    IN  type + Len(p.values)

values(props) == FlattenSeq([i \in DOMAIN props |->
                                IF props[i].kind = "enum" THEN props[i].values ELSE <<>>])

prop_offset(blocks, b) == Total([c \in 1 .. b - 1 |-> Len(blocks[c])])

properties(blocks, b) == prop_offset(blocks, b) + Len(blocks[b]) * 2048

\* Slip: the properties of a block in their own order.
property_map_Forward(blocks) == FlattenSeq(blocks)

property_map(blocks) == FlattenSeq([b \in DOMAIN blocks |-> Reverse(blocks[b])])

\* first_state_id: the game numbers the states of all blocks through.
StateCount(props, block) == Product([j \in 1..Len(block) |-> Len(props[block[j]].values)])

first_state_id(props, blocks, b) ==
    Total([c \in 1 .. b - 1 |-> StateCount(props, blocks[c])])

\* impl::state::block: which block the state is one of.
StateBlock(props, blocks, id) ==
    CHOOSE b \in DOMAIN blocks :
        /\ first_state_id(props, blocks, b) <= id
        /\ id < first_state_id(props, blocks, b) + StateCount(props, blocks[b])

\* How the game numbers a block's states: the last property changes fastest.
GameValue(props, block, k, j) ==
    ((k \div StateCount(props, SubSeq(block, j + 1, Len(block)))) % Len(props[block[j]].values)) + 1
-----------------------------------------------------------------------------
\* Class property: the accessors of flags.
COUNT_MASK == 15
count(f) == f % (COUNT_MASK + 1)
is_enum(f) == (f \div 32) % 4 = 0
is_bool(f) == (f \div 32) % 4 = 1
is_int1(f) == (f \div 32) % 4 = 3
is_int(f)  == (f \div 64) % 2 = 1
values_offset(f) == f \div 256

\* property::operator[] of an enum.
Word(props, f, i) == values(props)[values_offset(f) + i + 1]

\* block_property_view: where its properties begin and end in property_map.
properties_start(blocks, b) == properties(blocks, b) % 2048
properties_count(blocks, b) == properties(blocks, b) \div 2048

\* block_state_property_iterator at property i: its value, and ++.  It divides by
\* count(); by zero it traps.
Advance(props, s, i) ==
    LET n == count(flags(props, i))
    IN  IF s.trap \/ n = 0 THEN [s EXCEPT !.trap = TRUE]
        ELSE [trap |-> FALSE, m_value |-> s.m_value \div n,
              seen |-> Append(s.seen, [property |-> i, value |-> s.m_value % n])]

\* A state's range-for: the properties of its block, each with the index of its value.
StateProperties(props, blocks, id) ==
    LET b == StateBlock(props, blocks, id)
        end == properties_count(blocks, b)
        iterator[n \in 0..end] ==
            IF n = 0
            THEN [trap |-> FALSE, m_value |-> id - first_state_id(props, blocks, b), seen |-> <<>>]
            ELSE Advance(props, iterator[n - 1], property_map(blocks)[properties_start(blocks, b) + n])
    IN  iterator[end]
-----------------------------------------------------------------------------
\* main.cc.  A variant is a sequence of pairs [key, value] of texts.
parse_uint(text) == CHOOSE n \in 0..31 : ToString(n) = text

MatchValue(props, pv, value) ==
    LET f == flags(props, pv.property)
    IN  CASE is_enum(f) -> value = Word(props, f, pv.value)
          [] is_bool(f) -> value = (IF pv.value # 0 THEN "true" ELSE "false")
          [] is_int(f)  -> parse_uint(value) = (IF is_int1(f) THEN 1 ELSE 0) + pv.value

\* Properties the variant does not name match; the first pair of a key counts.
\* (parse_uint throws if it meets no number, a trap ends the program: no variant
\* and no count here does that.)
match_block_state(props, blocks, id, variant) ==
    \A n \in DOMAIN StateProperties(props, blocks, id).seen :
        LET pv == StateProperties(props, blocks, id).seen[n]
            named == {i \in DOMAIN variant : variant[i].key = props[pv.property].key}
        IN  named # {} => MatchValue(props, pv, variant[CHOOSE i \in named : \A j \in named : i <= j].value)

match_block_states(props, blocks, b, variant) ==
    {id \in first_state_id(props, blocks, b) ..
            first_state_id(props, blocks, b) + StateCount(props, blocks[b]) - 1 :
        match_block_state(props, blocks, id, variant)}
=============================================================================
