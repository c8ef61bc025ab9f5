----------------------------- MODULE MCPrintfk -----------------------------
EXTENDS Printfk

Item(conv, pad, value) == [conv |-> conv, pad |-> pad, value |-> value, text |-> << >>]

Letter(ch) == Item(Literal, -1, ch)

Text2 == [conv |-> String, pad |-> -1, value |-> 0, text |-> << 120, 121 >>]

(* Every int and unsigned int, and long numbers about the places where     *)
(* their length or a sign changes.                                         *)
LongValues == {0, 9, 10, 99, 100, 127, 128, 255, 256, 383, 384, 999, 1000, 4095, 4096,
               9999, 10000, 32640, 32767, 32768, 65408, 65535}

Numbers ==
  { Item(Decimal, pad, v) : pad \in {-1, 0, 2, 9}, v \in -128 .. 127 }
    \cup { Item(conv, pad, v) : conv \in {Unsigned, Hex}, pad \in {-1, 2}, v \in 0 .. 255 }
    \cup { Item(conv, -1, v) : conv \in {Long, LongHex}, v \in LongValues }

(* Formats with several items, the date of kmain among them; an unknown    *)
(* conversion; a '%' and a '%5' at the end.                                *)
Mixed ==
  { << Item(Decimal, 2, 7), Letter(47), Item(Decimal, 2, 30), Letter(47), Item(Decimal, 2, 100) >>,
    << Text2, Item(Char, -1, 65), Item(Percent, -1, 0), Item(Hex, -1, 31) >>,
    << Item(122, -1, 0), Letter(97), Item(Percent, 3, 0), Text2 >>,
    << Letter(97), Letter(Percent) >>,
    << Letter(97), Letter(Percent), Letter(53) >>,
    << >> }

MCCalls ==
  [device : {DEVICE_SCREEN}, divisor : {1}, items : { << n >> : n \in Numbers }]
    \cup [device : {DEVICE_SCREEN, 1016}, divisor : {1, 2, 3}, items : Mixed]
    \cup [device : {1016}, divisor : {1}, items : { << n >> : n \in { n \in Numbers : n.value % 50 = 49 } }]
=============================================================================
