------------------------------- MODULE Serial -------------------------------
(***************************************************************************)
(* The serial port of serial/serial.rs with the printer on its cable, and  *)
(* a program that prints.  The first clock of a transfer hands the whole   *)
(* byte of SB to the printer and takes its answer; eight clocks shift the  *)
(* answer into SB bit by bit; a ninth ends the transfer and requests the   *)
(* interrupt.  The program sends well-formed packets, a byte per           *)
(* interrupt, now and then a single byte between two packets, and may      *)
(* switch the port off and on again in the middle of a byte, which freezes *)
(* and resumes the transfer.                                               *)
(*                                                                         *)
(* The clock that matters is the one on which Serial::clock() is called;   *)
(* how many CPU clocks lie between two of them is left open.               *)
(* A definition Op_Fault is Op with a plausible mistake in it; nothing     *)
(* uses it.                                                                *)
(***************************************************************************)
EXTENDS Printer

CONSTANTS
    Fills,    \* the contents of data packets, sequences of bytes
    Strays,   \* the bytes the program sends between packets
    MaxRam    \* bound on the bytes the program stores between two pages

MaxByte == 255
MaxWord == 65535
Bytes == 0 .. MaxByte
Words == 0 .. MaxWord

\* A packet gives the length of its data in two bytes.
ASSUME SerialConstants ==
    /\ \A fill \in Fills : fill \in Seq(Bytes) /\ Len(fill) \in Words
    /\ Strays \subseteq Bytes /\ 51 \notin Strays
    /\ MaxRam \in Nat

VARIABLES
    sb, shift_counter, incoming, reg_enable, reg_select,
    requested,   \* the SERIAL bit of IF
    line,        \* the program: the bytes of its packet, or a stray one, still to be answered
    sent,        \* history: the bytes of it that were answered
    waiting,     \* it has started a transfer and waits for the interrupt
    answer,      \* the last two bytes it was answered
    job          \* history: what it knows of the printer between packets

port_vars == <<sb, shift_counter, incoming, reg_enable, reg_select>>
program_vars == <<line, sent, waiting, answer, job>>
serial_vars == <<printer_vars, port_vars, requested, program_vars>>

Job == INSTANCE PrinterJob

SerialTypeOK ==
    /\ recv_state \in RecvStates /\ recv_data \in Seq(Bytes) /\ recv_data_length \in Words
    /\ status \in {Idle, Ready, Printing, Done}
    /\ ram \in Seq(Bytes) /\ page \in Seq(Bytes)
    /\ sb \in Bytes /\ shift_counter \in 0 .. 8
    /\ incoming \in Bytes \cup {NoByte}
    /\ {reg_enable, reg_select, requested, waiting, panicked} \subseteq BOOLEAN

SerialInit ==
    /\ PrinterInit
    /\ sb = 0 /\ shift_counter = 0 /\ incoming = NoByte
    /\ reg_enable = FALSE /\ reg_select = FALSE
    /\ requested = FALSE
    /\ line = << >> /\ sent = << >> /\ waiting = FALSE /\ answer = << >>
    /\ job = Job!NewJob

-----------------------------------------------------------------------------
(* The port. *)

Bit(byte, i) == (byte \div 2 ^ i) % 2

Shifted(byte, in, counter) == (2 * byte + Bit(in, 7 - counter)) % 256

\* The printer gets SB on the first clock of a transfer only, and its answer
\* is there at once.
Exchange ==
    /\ shift_counter = 0
    /\ send_byte(sb)
    /\ \/ ~panicked' /\ incoming' = Answer /\ sb' = Shifted(sb, incoming', 0) /\ shift_counter' = 1
       \/ panicked' /\ UNCHANGED <<incoming, sb, shift_counter>>
    /\ UNCHANGED <<reg_enable, reg_select, requested>>

Shift_Stuck ==
    /\ shift_counter \in 1 .. 6
    /\ sb' = Shifted(sb, incoming, shift_counter)
    /\ shift_counter' = shift_counter + 1
    /\ UNCHANGED <<incoming, reg_enable, reg_select, requested, printer_vars>>

Shift ==
    /\ shift_counter \in 1 .. 7
    /\ sb' = Shifted(sb, incoming, shift_counter)
    /\ shift_counter' = shift_counter + 1
    /\ UNCHANGED <<incoming, reg_enable, reg_select, requested, printer_vars>>

finish_transmission ==
    /\ shift_counter = 8
    /\ reg_enable' = FALSE
    /\ shift_counter' = 0
    /\ incoming' = NoByte
    /\ requested' = TRUE
    /\ UNCHANGED <<sb, reg_select, printer_vars>>

clock_serial ==
    /\ reg_enable /\ reg_select
    /\ ~panicked
    /\ Exchange \/ Shift \/ finish_transmission
    /\ UNCHANGED program_vars

write_sc(enable, select) ==
    /\ reg_enable' = enable
    /\ reg_select' = select
    /\ UNCHANGED <<shift_counter, incoming>>

-----------------------------------------------------------------------------
(* The program. *)

\* Magic, command, compression, length, data, checksum, keep-alive, status.
PacketBytes(command, data) ==
    <<136, 51, command, 0, Len(data) % 256, Len(data) \div 256>> \o data \o <<0, 0, 0, 0>>

Packets ==
    {PacketBytes(command, << >>) : command \in {Null, Clear}}
      \cup {PacketBytes(PrintPage, <<1, 0, 228, 64>>)}
      \cup {PacketBytes(Fill, data) : data \in {f \in Fills : Len(ram) + Len(f) <= MaxRam}}

\* Bound: what the program still tries with a printer that no longer answers.
DeafPackets == {PacketBytes(Null, << >>)}

BeginPacket ==
    /\ line = << >>
    /\ line' \in IF job.lost THEN DeafPackets ELSE Packets \cup {<<byte>> : byte \in Strays}
    /\ sent' = << >>
    /\ UNCHANGED <<waiting, answer, job, requested, port_vars, printer_vars>>

StartTransfer ==
    /\ line # << >> /\ ~waiting
    /\ sb' = Head(line)
    /\ write_sc(TRUE, TRUE)
    /\ waiting' = TRUE
    /\ UNCHANGED <<line, sent, answer, job, requested, printer_vars>>

\* The program looks away in the middle of a transfer: SC with the enable
\* bit off, or with the clock taken from the other side.
Pause ==
    /\ waiting
    /\ \E enable \in BOOLEAN : write_sc(enable, ~enable)
    /\ UNCHANGED <<sb, program_vars, requested, printer_vars>>

Resume ==
    /\ waiting /\ ~requested /\ ~(reg_enable /\ reg_select)
    /\ write_sc(TRUE, TRUE)
    /\ UNCHANGED <<sb, program_vars, requested, printer_vars>>

\* The handler of the interrupt reads the answer; the last two bytes of the
\* packet tell it how the printer is.  A byte alone was a stray one.
Interrupt ==
    /\ requested
    /\ requested' = FALSE
    /\ waiting' = FALSE
    /\ line' = Tail(line)
    /\ sent' = Append(sent, Head(line))
    /\ answer' = IF answer = << >> THEN <<sb>> ELSE <<answer[Len(answer)], sb>>
    /\ job' = IF Len(line) > 1 THEN job
              ELSE IF sent = << >> THEN [job EXCEPT !.lost = TRUE]
              ELSE [status |-> status, ram |-> ram, page |-> page, answer |-> answer',
                    lost |-> job.lost]
    /\ UNCHANGED <<port_vars, printer_vars>>

SerialNext ==
    clock_serial \/ BeginPacket \/ StartTransfer \/ Pause \/ Resume \/ Interrupt

\* The emulator clocks the port, and the program finishes what it begins.
Fairness ==
    /\ WF_serial_vars(clock_serial) /\ WF_serial_vars(StartTransfer)
    /\ SF_serial_vars(Resume) /\ WF_serial_vars(Interrupt)

SerialSpec == SerialInit /\ [][SerialNext]_serial_vars /\ Fairness

-----------------------------------------------------------------------------
(* Properties. *)

\* The part of its packet the printer waits for after n bytes of it.
ExpectedAfter(n, length) ==
    CASE n < 2              -> "Magic"
      [] n = 2              -> "Command"
      [] n = 3              -> "Compression"
      [] n \in 4 .. 5       -> "Length"
      [] n \in 6 .. 5 + length -> "Data"
      [] n \in 6 + length .. 7 + length -> "Checksum"
      [] n = 8 + length     -> "KeepAlive"
      [] n = 9 + length     -> "Status"
      [] OTHER              -> "Magic"

\* The bytes of the packet the printer has got: those that were answered and
\* the one whose bits are on the line.
Delivered == Len(sent) + (IF shift_counter > 0 \/ requested THEN 1 ELSE 0)

\* Whatever the program does to SC in the middle of a transfer, each byte
\* reaches the printer once: the printer and the program agree on the place
\* in the packet, so that the printer is ready for the next one at its end.
\* From a byte between two packets on it waits for the start of one for ever.
Aligned ==
    Len(sent) + Len(line) > 0 /\ ~panicked
      => recv_state = IF job.lost \/ Len(sent) + Len(line) = 1 THEN "Magic"
                      ELSE ExpectedAfter(Delivered, Len(sent) + Len(line) - 10)

\* Packet by packet, the program sees the printer PrinterJob describes, also
\* when a stray byte has made it deaf.
JobSpec == Job!JobSpec

\* Every packet the program begins is answered, unless the program keeps
\* looking away or has a page printed that ends in the middle of a row.
PacketAnswered ==
    []<><<Pause>>_serial_vars \/ (line # << >> ~> line = << >> \/ (panicked /\ Unprintable(ram)))
=============================================================================
