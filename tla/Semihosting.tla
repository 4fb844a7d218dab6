----------------------------- MODULE Semihosting -----------------------------
(***************************************************************************)
(* hlprintf, the formatted output of the firmware                          *)
(* (elf/src/semihosting.c).  The repository has no caller of it: a main    *)
(* that Boot has reached calls it once, with a member of Calls.            *)
(*                                                                         *)
(* The steps are those of the C code, not of the instructions it would be  *)
(* compiled to: on this emulator no instruction returns from a function    *)
(* and the loop stops after 104 iterations.                                *)
(*                                                                         *)
(* Formats and strings are bytes that load_elf and Reset_Handler have put  *)
(* into memory, characters their ASCII codes.  A byte is loaded by read8,  *)
(* which looks for every address in RAM.  There is one action for each     *)
(* turn of the loops; uart is what has been stored to UART_DR.             *)
(***************************************************************************)
EXTENDS Boot, SequencesExt

CONSTANTS Calls,            \* what the caller hands over: format and arguments
          MaxValue,         \* of a uint32_t
          Base, BufferSize, \* 10 and 10 in uart_put_uint
          Nibble, Nibbles   \* 16 and 8 in uart_put_hex

ASSUME CallsAssumption ==
  /\ MaxValue \in Nat
  /\ \A c \in Calls : c.fmt \in Nat /\ c.args \in Seq(0 .. MaxValue)

(* There is room in the buffer for the digits of the largest uint32_t. *)
ASSUME DigitsAssumption ==
  /\ Base \in 2 .. 10 /\ Nibble \in 2 .. 16 /\ {BufferSize, Nibbles} \subseteq Nat
  /\ MaxValue < Base^BufferSize

(* The weights of digits and nibbles, 2^(4 * k) for a shift by 4 * k, are  *)
(* powers: the arithmetic of them that the provers do not know.            *)
ASSUME PowersAssumption ==
  /\ \A k \in 0 .. Nibbles : Nibble^k \in Nat \ {0}
  /\ \A k \in 0 .. BufferSize : Base^k \in Nat \ {0}
  /\ Base^0 = 1 /\ \A k \in 1 .. BufferSize : Base^k = Base * Base^(k - 1)

VARIABLES call,
          fmt, args,      \* where the format goes on, the arguments left
          value, buffer,  \* of uart_put_uint; its i is the length of the buffer
          uart

printVars == <<call, fmt, args, value, buffer, uart>>

vars == <<bootVars, printVars>>

-----------------------------------------------------------------------------
NUL == 0

Percent == 37

QuestionMark == 63

Conversions == [c |-> 99, s |-> 115, u |-> 117, x |-> 120]

IsConversion(character) == \E k \in DOMAIN Conversions : Conversions[k] = character

(* '0' + digit or 'A' + (digit - 10). *)
Numeral(digit) == IF digit < 10 THEN 48 + digit ELSE 55 + digit

(* uart_put_hex, behind the prefix: the nibbles from the highest down. *)
Hex(number) ==
  [k \in 1 .. Nibbles |-> Numeral((number \div Nibble^(Nibbles - k)) % Nibble)]

(* The bytes from an address to the NUL behind it. *)
String(address) ==
  LET length == CHOOSE n \in 0 .. FLASH_SIZE :
                  /\ ram[address + n] = NUL
                  /\ \A k \in 0 .. n - 1 : ram[address + k] # NUL
  IN  [k \in 1 .. length |-> ram[address + k - 1]]

IsString(address) ==
  \E a \in RamBytes : /\ address <= a /\ ram[a] = NUL
                      /\ address .. a \subseteq RamBytes

uart_puts(characters) == uart' = uart \o characters

-----------------------------------------------------------------------------
CallHlprintf ==
  /\ phase = "main" /\ phase' = "format"
  /\ call' \in Calls /\ fmt' = call'.fmt /\ args' = call'.args
  /\ UNCHANGED <<value, buffer, uart>>

(* A read of the format outside of the memory. *)
LeaveMemory ==
  /\ phase \in {"format", "conversion"} /\ fmt \notin RamBytes
  /\ phase' = "undefined" /\ UNCHANGED printVars

Literal ==
  /\ phase = "format" /\ fmt \in RamBytes /\ ram[fmt] \notin {NUL, Percent}
  /\ uart_puts(<<ram[fmt]>>) /\ fmt' = fmt + 1
  /\ UNCHANGED <<phase, call, args, value, buffer>>

PercentSign ==
  /\ phase = "format" /\ fmt \in RamBytes /\ ram[fmt] = Percent
  /\ fmt' = fmt + 1 /\ phase' = "conversion"
  /\ UNCHANGED <<call, args, value, buffer, uart>>

(* "%%", and conversions that are not known.  The terminator is one of     *)
(* them: a format that ends in "%" goes on behind it.                      *)
NoArgument ==
  /\ phase = "conversion" /\ fmt \in RamBytes /\ ~IsConversion(ram[fmt])
  /\ uart_puts(<<IF ram[fmt] = Percent THEN Percent ELSE QuestionMark>>)
  /\ fmt' = fmt + 1 /\ phase' = "format"
  /\ UNCHANGED <<call, args, value, buffer>>

(* va_arg without an argument, or a string without an end. *)
BadArgument ==
  /\ phase = "conversion" /\ fmt \in RamBytes /\ IsConversion(ram[fmt])
  /\ args # <<>> => ram[fmt] = Conversions.s /\ ~IsString(Head(args))
  /\ phase' = "undefined" /\ UNCHANGED printVars

(* %c, %s, %x and the zero of %u. *)
Argument ==
  /\ phase = "conversion" /\ fmt \in RamBytes /\ args # <<>>
  /\ LET argument == Head(args)
     IN  \/ ram[fmt] = Conversions.c /\ uart_puts(<<argument % 256>>)
         \/ /\ ram[fmt] = Conversions.s /\ IsString(argument)
            /\ uart_puts(String(argument))
         \/ ram[fmt] = Conversions.x /\ uart_puts(<<48, 120>> \o Hex(argument))
         \/ ram[fmt] = Conversions.u /\ argument = 0 /\ uart_puts(<<Numeral(0)>>)
  /\ args' = Tail(args) /\ fmt' = fmt + 1 /\ phase' = "format"
  /\ UNCHANGED <<call, value, buffer>>

EnterPutUint ==
  /\ phase = "conversion" /\ fmt \in RamBytes /\ args # <<>>
  /\ ram[fmt] = Conversions.u /\ Head(args) # 0
  /\ value' = Head(args) /\ phase' = "digits"
  /\ args' = Tail(args) /\ fmt' = fmt + 1
  /\ UNCHANGED <<call, buffer, uart>>

(* Seeded fault: the buffer has one character less. *)
CollectDigit_SmallBuffer ==
  /\ phase = "digits" /\ value > 0
  /\ buffer' = Append(buffer, Numeral(value % Base))
  /\ value' = value \div Base
  /\ phase' = IF Len(buffer') < BufferSize THEN phase ELSE "undefined"
  /\ UNCHANGED <<call, fmt, args, uart>>

(* Seeded fault: the loop goes on at zero. *)
CollectDigit_AtZero ==
  /\ phase = "digits" /\ value >= 0
  /\ buffer' = Append(buffer, Numeral(value % Base))
  /\ value' = value \div Base
  /\ phase' = IF Len(buffer') <= BufferSize THEN phase ELSE "undefined"
  /\ UNCHANGED <<call, fmt, args, uart>>

(* The loops of uart_put_uint: the digits into the buffer, lowest first,   *)
(* and from its end to the UART.                                           *)
CollectDigit ==
  /\ phase = "digits" /\ value > 0
  /\ buffer' = Append(buffer, Numeral(value % Base))
  /\ value' = value \div Base
  /\ phase' = IF Len(buffer') <= BufferSize THEN phase ELSE "undefined"
  /\ UNCHANGED <<call, fmt, args, uart>>

(* Seeded fault: the digits leave the buffer as they came. *)
WriteDigit_LowestFirst ==
  /\ phase = "digits" /\ value = 0 /\ buffer # <<>>
  /\ uart_puts(<<Head(buffer)>>) /\ buffer' = Tail(buffer)
  /\ phase' = IF buffer' = <<>> THEN "format" ELSE phase
  /\ UNCHANGED <<call, fmt, args, value>>

WriteDigit ==
  /\ phase = "digits" /\ value = 0 /\ buffer # <<>>
  /\ uart_puts(<<Last(buffer)>>) /\ buffer' = Front(buffer)
  /\ phase' = IF buffer' = <<>> THEN "format" ELSE phase
  /\ UNCHANGED <<call, fmt, args, value>>

Return ==
  /\ phase = "format" /\ fmt \in RamBytes /\ ram[fmt] = NUL
  /\ phase' = "returned" /\ UNCHANGED printVars

Hlprintf == \/ CallHlprintf \/ LeaveMemory \/ Literal \/ PercentSign \/ NoArgument
            \/ BadArgument \/ Argument \/ EnterPutUint \/ CollectDigit \/ WriteDigit
            \/ Return

Init == /\ BootInit
        /\ call = [fmt |-> 0, args |-> <<>>]
        /\ fmt = 0 /\ args = <<>> /\ value = 0 /\ buffer = <<>> /\ uart = <<>>

Next == \/ BootNext /\ UNCHANGED printVars
        \/ /\ Hlprintf
           /\ UNCHANGED <<flash, ram, file, i, sp, msp, pc, layout, src, dst>>

(* load_elf is a loop of the host program and does not block, and what     *)
(* follows it is taken to run on until main.  Nothing is assumed of a call *)
(* of hlprintf, which the loop of the emulator may leave at any step.      *)
Spec == Init /\ [][Next]_vars /\ WF_vars(BootNext /\ UNCHANGED printVars)
-----------------------------------------------------------------------------
TypeOK ==
  /\ LoaderTypeOK
  /\ phase \in {"header", "segments", "loaded", "failed", "undefined", "copying",
                "zeroing", "main", "format", "conversion", "digits", "returned"}
  /\ {src, dst, fmt, value} \subseteq Nat
  /\ args \in Seq(Nat) /\ uart \in Seq(0 .. 255)

Data == (layout.sdata .. layout.edata - 1) \cup (layout.sbss .. layout.ebss - 1)

(* What the file has for the data of the firmware. *)
Text == [a \in Data |-> Promised(a)]

(* The NUL behind an address, which a string of data has. *)
Ends(text, address) ==
  {a \in DOMAIN text : /\ address <= a /\ address .. a \subseteq DOMAIN text
                       /\ text[a] = NUL /\ \A b \in address .. a - 1 : text[b] # NUL}

(* How many digits a number has, without leading zeros. *)
Lengths(number) == {n \in 1 .. BufferSize : /\ number < Base^n
                                            /\ n > 1 => number >= Base^(n - 1)}

Decimal(number, n) ==
  [k \in 1 .. n |-> Numeral((number \div Base^(n - k)) % Base)]

(* What a conversion makes of an argument: one sequence of characters, or  *)
(* none for a string that does not end in the data.                        *)
Rendered(text, conversion, argument) ==
  CASE conversion = Conversions.c -> {<<argument % 256>>}
    [] conversion = Conversions.s ->
         {[k \in 1 .. a - argument |-> text[argument + k - 1]] : a \in Ends(text, argument)}
    [] conversion = Conversions.x -> {<<48, 120>> \o Hex(argument)}
    [] conversion = Conversions.u ->
         {Decimal(argument, n) : n \in Lengths(argument)}

Joined(S, T) == {s \o t : s \in S, t \in T}

Behind(meaning, a, k) == IF a \in DOMAIN meaning THEN meaning[a][k] ELSE {}

(* What a format says from an address on, when k arguments have been used, *)
(* given what it says from the addresses behind.  The set is empty where   *)
(* the format does not end in the data or in a lone "%", or where an       *)
(* argument is missing.                                                    *)
Turn(text, arguments, meaning, a, k) ==
  IF text[a] = NUL THEN {<<>>}
  ELSE IF text[a] # Percent
       THEN Joined({<<text[a]>>}, Behind(meaning, a + 1, k))
  ELSE IF a + 1 \notin DOMAIN text \/ text[a + 1] = NUL THEN {}
  ELSE IF ~IsConversion(text[a + 1])
       THEN Joined({<<IF text[a + 1] = Percent THEN Percent ELSE QuestionMark>>},
                   Behind(meaning, a + 2, k))
  ELSE IF k = Len(arguments) THEN {}
  ELSE Joined(Rendered(text, text[a + 1], arguments[k + 1]),
              Behind(meaning, a + 2, k + 1))

Meaning(text, arguments) ==
  LET meaning[a \in DOMAIN text] ==
        [k \in 0 .. Len(arguments) |-> Turn(text, arguments, meaning, a, k)]
  IN  meaning

(* What the format that the file has for an address says. *)
Says(text, first, arguments) == Behind(Meaning(text, arguments), first, 0)

(* uart_put_uint, which counts without looking, never writes beyond its    *)
(* buffer: no uint32_t has more digits, and the digits of one number are   *)
(* gone before those of the next arrive.                                   *)
BufferHoldsEveryNumber == Len(buffer) <= BufferSize

(* From the file to the UART: what a format in the data of the file says,  *)
(* with the arguments of the call and numbers in their shortest form, is   *)
(* what is printed, after the segments have been loaded, .data has been    *)
(* copied and the digits have gone through a buffer the wrong way round.   *)
PrintsTheFormat ==
  phase = "returned" => \A characters \in Says(Text, call.fmt, call.args) :
                          uart = characters

Hlprinting == phase \in {"format", "conversion", "digits", "returned"}

(* A regular call says something: its format ends in the data and asks for *)
(* no more arguments and strings than there are.                           *)
SaysSomething == Says(Text, call.fmt, call.args) # {}

(* Every step of a regular call moves on in the format, in the number that *)
(* is taken apart or in the digits that wait, or returns: none repeats     *)
(* itself, and none reads outside of the memory or the arguments or writes *)
(* beyond a buffer that is just large enough for a uint32_t.               *)
RegularCallsAdvance ==
  [][Hlprinting /\ SaysSomething =>
       \/ phase' = "returned"
       \/ /\ Hlprinting' /\ fmt' \in RamBytes
          /\ \/ fmt' > fmt
             \/ fmt' = fmt /\ value' < value
             \/ fmt' = fmt /\ value' = value /\ Len(buffer') < Len(buffer)]_vars
=============================================================================
