------------------------------ MODULE Printfk ------------------------------
(***************************************************************************)
(* vprintfk (src/src/libk/printfk.c) on the screen and on the serial port, *)
(* after serial_init.  A call is given by the items its format is made of, *)
(* from which follows what should be printed; the code gets the text of    *)
(* the format and the arguments.  One step is one turn of the loop or one  *)
(* character put.                                                          *)
(***************************************************************************)
EXTENDS Itoa, Serial

CONSTANTS
  Calls,  \* [device, divisor, items]; an item is [conv, pad, value, text]
  S_VAL   \* size of the buffer s_val (20 in the code)

DEVICE_SCREEN == 0

Literal  == 0   \* an item that is one character of the format
Percent  == 37
Char     == 99
Decimal  == 100
Unsigned == 117
Hex      == 120
Long     == 76
LongHex  == 88
String   == 115

TakesArg == {Char, Decimal, Unsigned, Hex, Long, LongHex, String}

(* An item as it is written in a format, pad < 0 being none, and the       *)
(* argument it takes.                                                      *)
Text(item) ==
  IF item.conv = Literal THEN << item.value >>
  ELSE << Percent >> \o (IF item.pad < 0 THEN << >> ELSE << Zero + item.pad >>) \o << item.conv >>

Argument(item) ==
  CASE item.conv = String   -> << item.text >>
    [] item.conv \in TakesArg \ {String} -> << << item.value >> >>
    [] OTHER -> << >>

ItemType == [conv : Nat, pad : -1 .. 9, value : Int, text : Seq(Int)]

isdigitk(c) == c >= 0 /\ c <= 9

IsLone(item) == item.conv = Literal /\ item.value = Percent

(* The values an argument may have are those of its type.  A conversion    *)
(* character is no digit, and a '%' that is no conversion is the last      *)
(* character of the format or is followed by a last digit.                 *)
ItemOK(items, n) ==
  LET item == items[n]
  IN  /\ item.conv # Literal => ~ isdigitk(item.conv - Zero)
      /\ item.conv = Char => item.value \in 0 .. (BYTE - 1)
      /\ item.conv = Decimal => item.value \in - 2^(INT_BITS - 1) .. 2^(INT_BITS - 1) - 1
      /\ item.conv \in {Unsigned, Hex} => item.value \in 0 .. 2^INT_BITS - 1
      /\ item.conv \in {Long, LongHex} => item.value \in 0 .. 2^LONG_BITS - 1
      /\ IsLone(item) =>
           \/ n = Len(items)
           \/ n + 1 = Len(items) /\ items[n + 1].conv = Literal /\ isdigitk(items[n + 1].value - Zero)

ASSUME CallsAssumption ==
  \A c \in Calls :
    /\ c.device \in Int /\ c.divisor \in 0 .. (BYTE - 1)
    /\ c.items \in Seq(ItemType)
    /\ \A n \in 1 .. Len(c.items) : ItemOK(c.items, n)

(* s_val holds an int with its sign and a long number in base 16, each     *)
(* with its NUL, and the digits of every long number, without it.          *)
ASSUME BufferAssumption ==
  /\ S_VAL \in Nat /\ S_VAL >= 3
  /\ 2^(INT_BITS - 1) <= 10^(S_VAL - 2)
  /\ 2^LONG_BITS <= 16^(S_VAL - 1) /\ 2^LONG_BITS <= 10^S_VAL

(* How powers are multiplied, which the provers do not know.               *)
ASSUME PowerAssumption ==
  \A base \in {10, 16} : \A d \in 1 .. S_VAL : base^d = base * base^(d - 1)

(* The first n of seqs, joined, for every n; and all of them.              *)
Joint(seqs) ==
  LET upTo[n \in 0 .. Len(seqs)] == IF n = 0 THEN << >> ELSE upTo[n - 1] \o seqs[n]
  IN  upTo

Concat(seqs) == Joint(seqs)[Len(seqs)]

VARIABLES
  call, format, args,
  i, arg,        \* positions in the format and in the arguments
  s_val,         \* the buffer
  todo,          \* characters of this turn still to be put
  screen, uart,  \* the devices
  pc,
  said           \* history: characters of all turns so far

vars == << call, format, args, i, arg, s_val, todo, screen, uart, pc, said >>

Init ==
  /\ call \in Calls
  /\ format = Concat([n \in DOMAIN call.items |-> Text(call.items[n])])
  /\ args = Concat([n \in DOMAIN call.items |-> Argument(call.items[n])])
  /\ i = 1 /\ arg = 1
  /\ s_val = << >> /\ todo = << >> /\ said = << >>
  /\ screen = << >> /\ uart = Reset
  /\ pc = "init"

SerialInit ==
  /\ pc = "init"
  /\ uart' = serial_init(uart, call.divisor)
  /\ pc' = "loop"
  /\ UNCHANGED << call, format, args, i, arg, s_val, todo, screen, said >>

-----------------------------------------------------------------------------
(* The character at a position; the NUL follows the last one.              *)
CharAt(n) == IF n <= Len(format) THEN format[n] ELSE 0

(* The number of a conversion as it is left in s_val.                      *)
Number(conv, v) ==
  CASE conv \in {Decimal, Unsigned} -> itoa(ToInt(v), 10)
    [] conv = Hex                   -> itoa(ToInt(v), 16)
    [] conv = Long                  -> ulltoa(ToLong(v), 10)
    [] conv = LongHex               -> ulltoa(ToLong(v), 16)

(* leftpad is counted down to the length of the number.                    *)
Padding(leftpad, str) == [n \in 1 .. leftpad - Len(str) |-> Zero]

(* Fault: the NUL is not passed over.                                      *)
FaultAtNul(at) == IF CharAt(at) = 0 THEN at - 1 ELSE at + 1

(* The two increments after a conversion character.                        *)
Past(at) == at + 1

(* putchark and putsk, one character after the other.                      *)
Say(str) == todo' = str /\ said' = said \o str

Plain ==
  /\ pc = "loop" /\ todo = << >> /\ i <= Len(format)
  /\ format[i] # Percent
  /\ Say(<< format[i] >>)
  /\ i' = i + 1
  /\ UNCHANGED << call, format, args, arg, s_val, screen, uart, pc >>

(* The character after '%', or after '%' and a digit.  An unknown one is   *)
(* passed over.                                                            *)
Conversion ==
  /\ pc = "loop" /\ todo = << >> /\ i <= Len(format)
  /\ format[i] = Percent
  /\ LET digit   == CharAt(i + 1) - Zero
         leftpad == IF isdigitk(digit) THEN digit ELSE 0
         at      == IF isdigitk(digit) THEN i + 2 ELSE i + 1
         conv    == CharAt(at)
     IN  /\ i' = Past(at)
         /\ arg' = IF conv \in TakesArg THEN arg + 1 ELSE arg
         /\ s_val' = IF conv \in TakesArg \ {Char, String} THEN Number(conv, args[arg][1]) ELSE s_val
         /\ Say(CASE conv = Percent -> << Percent >>
                  [] conv = Char    -> << args[arg][1] % BYTE >>
                  [] conv = Decimal -> Padding(leftpad, s_val') \o s_val'
                  [] conv \in {Unsigned, Hex, Long, LongHex} -> s_val'
                  [] conv = String  -> args[arg]
                  [] OTHER          -> << >>)
  /\ UNCHANGED << call, format, args, screen, uart, pc >>

(* One character to the device.                                            *)
screen_write ==
  /\ todo # << >> /\ call.device <= DEVICE_SCREEN
  /\ screen' = Append(screen, Head(todo))
  /\ todo' = Tail(todo)
  /\ UNCHANGED << call, format, args, i, arg, s_val, uart, pc, said >>

(* Fault: the line status is not waited for.                               *)
FaultNoWait ==
  /\ todo # << >> /\ call.device > DEVICE_SCREEN
  /\ uart' = PortOut(uart, SERIAL_DATA_PORT, Head(todo))
  /\ todo' = Tail(todo)
  /\ UNCHANGED << call, format, args, i, arg, s_val, screen, pc, said >>

serial_write ==
  /\ todo # << >> /\ call.device > DEVICE_SCREEN
  /\ serial_is_transmit_fifo_empty(uart)
  /\ uart' = PortOut(uart, SERIAL_DATA_PORT, Head(todo))
  /\ todo' = Tail(todo)
  /\ UNCHANGED << call, format, args, i, arg, s_val, screen, pc, said >>

Returned ==
  /\ pc = "loop" /\ todo = << >> /\ i > Len(format)
  /\ pc' = "done"
  /\ UNCHANGED << call, format, args, i, arg, s_val, todo, screen, uart, said >>

(* The UART sends the byte that waits.                                     *)
Transmit ==
  /\ uart.thr # << >>
  /\ uart' = Transmitted(uart)
  /\ UNCHANGED << call, format, args, i, arg, s_val, todo, screen, pc, said >>

vprintfk == Plain \/ Conversion \/ screen_write \/ serial_write \/ Returned

Done == pc = "done" /\ uart.thr = << >> /\ UNCHANGED vars

Next == SerialInit \/ vprintfk \/ Transmit \/ Done

(* The kernel runs, and the UART sends what it was given.                  *)
Spec ==
  /\ Init /\ [][Next]_vars
  /\ WF_vars(SerialInit \/ vprintfk) /\ WF_vars(Transmit)

-----------------------------------------------------------------------------
(* The numeral of n, from its definition by powers of the base.  No number *)
(* has more than S_VAL digits.                                             *)
Numeral(n, base) ==
  LET length == CHOOSE d \in 1 .. S_VAL : n < base^d /\ (d > 1 => n >= base^(d - 1))
  IN  [d \in 1 .. length |-> Digit((n \div base^(length - d)) % base)]

SignedNumeral(n) == IF n < 0 THEN << Minus >> \o Numeral(- n, 10) ELSE Numeral(n, 10)

(* How much shorter than a width a text is.                                *)
Missing(width, str) == IF width > Len(str) THEN width - Len(str) ELSE 0

(* What an item should print.                                              *)
Shows(item) ==
  CASE item.conv \in {Literal, Char} -> << item.value >>
    [] item.conv = Percent          -> << Percent >>
    [] item.conv = Decimal          ->
         LET str == SignedNumeral(item.value)
         IN  [n \in 1 .. Missing(item.pad, str) |-> Zero] \o str
    [] item.conv \in {Unsigned, Long} -> Numeral(item.value, 10)
    [] item.conv \in {Hex, LongHex}   -> Numeral(item.value, 16)
    [] item.conv = String           -> item.text
    [] OTHER                        -> << >>

(* Where the conversions are exact: not for the least int, which has no    *)
(* negative, for an unsigned number that is negative as an int, nor for a  *)
(* long one in decimal whose low half is.  A lone '%' is no item either.   *)
Exact(item) ==
  CASE item.conv = Decimal         -> item.value # - 2^(INT_BITS - 1)
    [] item.conv \in {Unsigned, Hex} -> item.value < 2^(INT_BITS - 1)
    [] item.conv = Long            -> ToInt(item.value) >= 0
    [] item.conv = Literal         -> item.value # Percent
    [] OTHER                       -> TRUE

Items == { call.items[n] : n \in DOMAIN call.items }

(* vprintfk prints the text and the numbers it was given, in order, padded *)
(* and converted, and takes for every conversion its own argument.         *)
Rendered ==
  pc = "done" /\ (\A item \in Items : Exact(item)) =>
    said = Concat([n \in DOMAIN call.items |-> Shows(call.items[n])])

(* Every character handed to a device is shown, sent or waiting, once and  *)
(* in order: serial_write never replaces a byte that was not sent.         *)
NoneLost ==
  said = (IF call.device > DEVICE_SCREEN THEN uart.wire \o uart.thr ELSE screen) \o todo

(* The numbers fit s_val with their NUL; "%L" is the exception, with as    *)
(* many digits as s_val has bytes.                                         *)
BufferFits ==
  (\A item \in Items : item.conv = Long => Exact(item) /\ item.value < 10^(S_VAL - 1))
    => Len(s_val) < S_VAL

(* serial_init leaves the data port ready for data, with the divisor that  *)
(* was asked for (those of serial.h are less than a byte).                 *)
SpeedSet ==
  pc # "init" => ~ uart.dlab /\ uart.high * BYTE + uart.low = call.divisor

(* Every print ends, as long as the UART sends.                            *)
PrintReturns == <>(pc = "done")
=============================================================================
