------------------------------- MODULE Serial -------------------------------
(***************************************************************************)
(* The serial port: the registers of the UART (external) and the port      *)
(* writes of src/src/drivers/serial.c.                                     *)
(***************************************************************************)
EXTENDS Integers, Sequences

CONSTANT BYTE  \* values of a byte (256 in the code)

ASSUME ByteAssumption == BYTE \in Nat /\ BYTE > 1

(* Offsets of the ports from the base.                                     *)
SERIAL_DATA_PORT          == 0
SERIAL_FIFO_COMMAND_PORT  == 2
SERIAL_LINE_COMMAND_PORT  == 3
SERIAL_MODEM_COMMAND_PORT == 4

SERIAL_LINE_ENABLE_DLAB == 128

(* The UART (external): the data port is the low byte of the divisor while *)
(* DLAB is set, the high byte is behind the next port; otherwise a byte    *)
(* written while the last one waits replaces it.  Bit 7 of the line        *)
(* command is DLAB; the FIFO command 0xC7 empties the transmitter.         *)
Reset == [dlab |-> FALSE, low |-> 12, high |-> 0, thr |-> << >>, wire |-> << >>]

PortOut(uart, port, byte) ==
  CASE port = SERIAL_DATA_PORT /\ uart.dlab   -> [uart EXCEPT !.low = byte]
    [] port = SERIAL_DATA_PORT /\ ~ uart.dlab -> [uart EXCEPT !.thr = << byte >>]
    [] port = SERIAL_LINE_COMMAND_PORT        -> [uart EXCEPT !.dlab = (byte >= 128)]
    [] port = SERIAL_FIFO_COMMAND_PORT        -> [uart EXCEPT !.thr = << >>]
    [] OTHER                                  -> uart

Transmitted(uart) == [uart EXCEPT !.wire = @ \o uart.thr, !.thr = << >>]

(* Fault: the low byte is written first.                                   *)
FaultSwapped(uart, divisor) ==
  LET dlab == PortOut(uart, SERIAL_LINE_COMMAND_PORT, SERIAL_LINE_ENABLE_DLAB)
      low  == PortOut(dlab, SERIAL_DATA_PORT, divisor % BYTE)
      high == PortOut(low, SERIAL_DATA_PORT, (divisor \div BYTE) % BYTE)
  IN  PortOut(high, SERIAL_LINE_COMMAND_PORT, 3)

(* Both bytes of the divisor go to the data port.                          *)
serial_init(uart, divisor) ==
  LET dlab == PortOut(uart, SERIAL_LINE_COMMAND_PORT, SERIAL_LINE_ENABLE_DLAB)
      high == PortOut(dlab, SERIAL_DATA_PORT, (divisor \div BYTE) % BYTE)
      low  == PortOut(high, SERIAL_DATA_PORT, divisor % BYTE)
      line == PortOut(low, SERIAL_LINE_COMMAND_PORT, 3)
      fifo == PortOut(line, SERIAL_FIFO_COMMAND_PORT, 199)
  IN  PortOut(fifo, SERIAL_MODEM_COMMAND_PORT, 11)

(* Bit 5 of the line status.                                               *)
serial_is_transmit_fifo_empty(uart) == uart.thr = << >>
=============================================================================
