------------------------------ MODULE Printer ------------------------------
(***************************************************************************)
(* The printer of serial/printer.rs: a byte of a packet at a time, each    *)
(* answered at once.  An unknown command, a keep-alive byte that is not 0, *)
(* a print command without its 4 bytes of settings and a page with an      *)
(* unfinished row of tiles panic.  The checksum is not looked at and       *)
(* compressed data is not expanded.                                        *)
(* A definition Op_Fault is Op with a plausible mistake in it; nothing     *)
(* uses it.                                                                *)
(***************************************************************************)
EXTENDS Integers, Sequences

CONSTANTS
    BytesPerLine,   \* 40, the bytes of a line of pixels
    LinesPerTile,   \* 8, the lines of a row of tiles
    BytesPerPage    \* 5760, what print() reads of the memory at most

ASSUME PrinterConstants == {BytesPerLine, LinesPerTile, BytesPerPage} \subseteq Nat \ {0}

VARIABLES
    recv_state,         \* the part of a packet the printer waits for
    recv_data,          \* the bytes of that part so far
    recv_data_length,
    status,
    ram,
    page,               \* history: the memory the last page was printed from
    panicked

printer_vars == <<recv_state, recv_data, recv_data_length, status, ram, page, panicked>>

NoByte == -1
Null == 15
Clear == 1
PrintPage == 2
Fill == 4
Idle == 0
Done == 4
Printing == 6
Ready == 8

RecvStates == {"Magic", "Command", "Compression", "Length", "Data", "Checksum", "KeepAlive", "Status"}

PrinterInit ==
    /\ recv_state = "Magic" /\ recv_data = << >> /\ recv_data_length = 0
    /\ status = Idle /\ ram = << >>
    /\ page = << >> /\ panicked = FALSE

Received(byte) == Append(recv_data, byte)

\* What the printer puts on the line for the byte it gets now.
Answer ==
    CASE recv_state = "KeepAlive" -> 129
      [] recv_state = "Status"    -> status
      [] OTHER                    -> 0

\* print() draws Len(memory) / 40 lines, and each of them needs the last tile
\* of its row: on an unfinished row it reads past the end of the memory.
Unprintable(memory) ==
    LET row  == BytesPerLine * LinesPerTile
        last == ((Len(memory) \div BytesPerLine) % LinesPerTile)
    IN  /\ Len(memory) < BytesPerPage
        /\ last # 0
        /\ Len(memory) % row <= row - 2 * LinesPerTile + 2 * last - 1

PrintFails(settings) == Len(settings) # 4 \/ Unprintable(ram)

\* The part of the packet is complete: wait for the next.
Await(next) ==
    /\ recv_state' = next
    /\ recv_data' = << >>
    /\ UNCHANGED panicked

\* What is collected instead of the magic bytes is never looked at again, nor
\* dropped: two bytes of it stand for all.
Collect(byte) ==
    /\ recv_data' = IF recv_state = "Magic" /\ Len(recv_data) = 2 THEN recv_data ELSE Received(byte)
    /\ UNCHANGED <<recv_state, recv_data_length, status, ram, page, panicked>>

Panic ==
    /\ panicked' = TRUE
    /\ UNCHANGED <<recv_state, recv_data, recv_data_length, status, ram, page>>

RecvMagic_NoReset(byte) ==
    /\ recv_state = "Magic"
    /\ Received(byte) = <<136, 51>>
    /\ Await("Command")
    /\ status' = CASE status = Done -> Idle [] status = Printing -> Done [] OTHER -> status
    /\ UNCHANGED <<ram, recv_data_length, page>>

\* reset() also goes back to waiting for the magic bytes, which the caller
\* overwrites.
RecvMagic(byte) ==
    /\ recv_state = "Magic"
    /\ Received(byte) = <<136, 51>>
    /\ Await("Command")
    /\ status' = CASE status = Done -> Idle [] status = Printing -> Done [] OTHER -> status
    /\ ram' = IF status = Done THEN << >> ELSE ram
    /\ recv_data_length' = IF status = Done THEN 0 ELSE recv_data_length
    /\ UNCHANGED page

RecvCommand(byte) ==
    /\ recv_state = "Command"
    /\ byte \in {Null, Clear, PrintPage, Fill}
    /\ Await("Compression")
    /\ status' = CASE byte = PrintPage -> Printing [] byte = Fill -> Ready [] OTHER -> status
    /\ ram' = IF byte = Clear THEN << >> ELSE ram
    /\ UNCHANGED <<recv_data_length, page>>

RecvCompression ==
    /\ recv_state = "Compression"
    /\ Await("Length")
    /\ UNCHANGED <<recv_data_length, status, ram, page>>

RecvLength(byte) ==
    /\ recv_state = "Length"
    /\ Len(Received(byte)) = 2
    /\ recv_data_length' = Received(byte)[1] + 256 * Received(byte)[2]
    /\ Await(IF recv_data_length' = 0 THEN "Checksum" ELSE "Data")
    /\ UNCHANGED <<status, ram, page>>

\* The data goes where the status says, whatever the command of its packet.
RecvData(byte) ==
    /\ recv_state = "Data"
    /\ Len(Received(byte)) >= recv_data_length
    /\ ~(status = Printing /\ PrintFails(Received(byte)))
    /\ Await("Checksum")
    /\ page' = IF status = Printing THEN ram ELSE page
    /\ ram' = IF status = Ready THEN ram \o Received(byte) ELSE ram
    /\ UNCHANGED <<recv_data_length, status>>

RecvChecksum_Short(byte) ==
    /\ recv_state = "Checksum"
    /\ Await("KeepAlive")
    /\ UNCHANGED <<recv_data_length, status, ram, page>>

RecvChecksum(byte) ==
    /\ recv_state = "Checksum"
    /\ Len(Received(byte)) = 2
    /\ Await("KeepAlive")
    /\ UNCHANGED <<recv_data_length, status, ram, page>>

RecvKeepAlive(byte) ==
    /\ recv_state = "KeepAlive"
    /\ byte = 0
    /\ Await("Status")
    /\ UNCHANGED <<recv_data_length, status, ram, page>>

RecvStatus ==
    /\ recv_state = "Status"
    /\ Await("Magic")
    /\ UNCHANGED <<recv_data_length, status, ram, page>>

\* The byte is not the last of its part, or is none of the magic bytes.
Partial(byte) ==
    \/ recv_state = "Magic" /\ Received(byte) # <<136, 51>>
    \/ recv_state \in {"Length", "Checksum"} /\ Len(Received(byte)) # 2
    \/ recv_state = "Data" /\ Len(Received(byte)) < recv_data_length

Rejected(byte) ==
    \/ recv_state = "Command" /\ byte \notin {Null, Clear, PrintPage, Fill}
    \/ recv_state = "KeepAlive" /\ byte # 0
    \/ /\ recv_state = "Data" /\ Len(Received(byte)) >= recv_data_length
       /\ status = Printing /\ PrintFails(Received(byte))

send_byte(byte) ==
    \/ Partial(byte) /\ Collect(byte)
    \/ Rejected(byte) /\ Panic
    \/ RecvMagic(byte)
    \/ RecvCommand(byte)
    \/ RecvCompression
    \/ RecvLength(byte)
    \/ RecvData(byte)
    \/ RecvChecksum(byte)
    \/ RecvKeepAlive(byte)
    \/ RecvStatus
=============================================================================
