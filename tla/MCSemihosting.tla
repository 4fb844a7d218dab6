--------------------------- MODULE MCSemihosting ---------------------------
(* Vectors of 16 and 20 bytes, the sizes in the wrong order as in the      *)
(* code.  Segments at both ends of both vectors, in the gap between them,  *)
(* with tails, incomplete, of another type, and with the formats "%ua%s",  *)
(* "%x%%", both joined, "%c%q%" and "AB"; layouts with whole and broken    *)
(* words, with and without a gap, and some that leave the vectors.         *)
EXTENDS Semihosting

Load(paddr, data, memsz) ==
  [p_type |-> "PT_LOAD", p_paddr |-> paddr, data |-> data, p_memsz |-> memsz,
   present |-> "all"]

MCSegments ==
  {Load(0, <<1, 0, 2, 0, 37, 117, 97, 37, 115, 0>>, 10),
   Load(8, <<37, 120, 37, 37, 0>>, 5), Load(4, <<37, 99, 37, 113, 37, 0>>, 6),
   Load(12, <<65, 66, 0, 67>>, 4), Load(10, <<1, 2, 3>>, 5), Load(14, <<3, 3, 3>>, 3),
   Load(24, <<3, 2>>, 6), Load(22, <<1>>, 3), Load(43, <<2>>, 1), Load(42, <<2>>, 4),
   Load(29, <<>>, 4),
   [Load(12, <<65, 66, 0, 67>>, 4) EXCEPT !.p_type = "other"],
   [Load(8, <<1, 2>>, 2) EXCEPT !.present = "header"],
   [Load(8, <<1, 2>>, 2) EXCEPT !.present = "nothing"]}

Symbols(sidata, sdata, edata, sbss, ebss) ==
  [sidata |-> sidata, sdata |-> sdata, edata |-> edata, sbss |-> sbss, ebss |-> ebss]

MCLayouts ==
  {Symbols(4, 24, 33, 36, 40), Symbols(4, 24, 30, 30, 37), Symbols(8, 24, 32, 32, 32),
   Symbols(1, 24, 25, 25, 42), Symbols(12, 24, 29, 30, 34), Symbols(12, 28, 31, 37, 39)}

MCCalls == {[fmt |-> 24, args |-> <<7, 26>>], [fmt |-> 24, args |-> <<80, 24>>],
            [fmt |-> 24, args |-> <<0>>],     [fmt |-> 28, args |-> <<43>>],
            [fmt |-> 42, args |-> <<>>],      [fmt |-> 4, args |-> <<7>>]}
=============================================================================
