--------------------------- MODULE MCGlobalCodec ----------------------------
(***************************************************************************)
(* Three characters: a blank, a small letter and a line feed.              *)
(* Contexts of up to three bytes on two levels, one of them with two       *)
(* lengths.                                                                *)
(***************************************************************************)
EXTENDS GlobalCodec

MCLevels == <<[dmin |-> 1, dmax |-> 2, wint |-> 230], [dmin |-> 3, dmax |-> 4, wint |-> 333]>>
MCChar   == [b \in 0 .. 2 |-> <<32, 97, 10>>[b + 1]]
MCCorpora == {<<1, 1, 0, 1, 2, 1, 1>>, <<0, 2, 1, 0, 2, 1, 1, 0>>}

Channel(kind, alpha) == aux_new(kind, alpha)
MCCombos == {<<Channel("byte_type", 0)>>,
             <<Channel("byte_type", 32768), Channel("bigram_type", 20000),
               Channel("case_pattern", 60000), Channel("whitespace_phase", 0)>>}
=============================================================================
