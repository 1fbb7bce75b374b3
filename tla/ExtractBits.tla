----------------------------- MODULE ExtractBits ----------------------------
(***************************************************************************)
(* utility/extract_bits.hh, and the array load_blocks reads it from: the   *)
(* entries of a section lie side by side in words of WordBits bits (64),   *)
(* the first in the highest bits, and may span two words.                  *)
(***************************************************************************)
EXTENDS Binary, Sequences

CONSTANTS WordBits, Blocks      \* 64, and 4096 blocks to a section

ASSUME ExtractBitsAssumption == WordBits \in Nat \ {0} /\ Blocks \in Nat \ {0}

\* Slip: the second word shifted as if the entry began in it.
SecondPart_Unshifted(word, n) == word % Pow2[n]

\* (word >> (WordBits - n)) & ((1 << n) - 1).  With n = 0 the shift is by the
\* width of the word, whose result the mask makes 0.
SecondPart(word, n) == IF n = 0 THEN 0 ELSE (word \div Pow2[WordBits - n]) % Pow2[n]

\* The bits of the entry in the word it begins in, and in the word after it.  The
\* code's masks, (1 << n) - 1, are made of an int: they are these for entries of up
\* to 30 bits (load_blocks reads entries of four to eight).
extract_bits(data, offset, bits) ==
    LET fl_pos == offset \div WordBits
        fl_off == offset % WordBits
        fl_num == IF bits > WordBits - fl_off THEN WordBits - fl_off ELSE bits
        fl == (data[fl_pos + 1] \div Pow2[WordBits - fl_off - fl_num]) % Pow2[fl_num]
        sl_num == bits - fl_num
    IN  fl * Pow2[sl_num] + SecondPart(data[fl_pos + 2], sl_num)

u64_count(bits_per_entry) == (Blocks * bits_per_entry) \div WordBits

\* The array with the unused word that makes the last entry like the others.
Padded(data) == Append(data, 0)

Entries(data, bits_per_entry) ==
    [i \in 0 .. Blocks - 1 |-> extract_bits(Padded(data), i * bits_per_entry, bits_per_entry)]
=============================================================================
