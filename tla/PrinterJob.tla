----------------------------- MODULE PrinterJob -----------------------------
(***************************************************************************)
(* What a Game Boy Printer promises the program at the other end of the    *)
(* cable (serial/printer.rs), one packet at a time: a packet takes effect  *)
(* as a whole, and is answered with the keep-alive byte 0x81 and the       *)
(* status the printer has after it.  A finished page is reported once as   *)
(* printing and once as done, and only then is its memory cleared.  A byte *)
(* between packets costs the printer its place for good: it answers 0 to   *)
(* all that follows and does nothing.                                      *)
(***************************************************************************)
EXTENDS Integers, Sequences

CONSTANTS Fills   \* the contents of the data packets, sequences of bytes

VARIABLES
    job   \* the printer's status and memory, the last page, the last answer,
          \* and if it has lost its place

Null == 15
Clear == 1
PrintPage == 2
Fill == 4
Idle == 0
Done == 4
Printing == 6
Ready == 8

NewJob == [status |-> Idle, ram |-> << >>, page |-> << >>, answer |-> << >>, lost |-> FALSE]

JobInit == job = NewJob

\* The magic bytes of any packet move a page that was printed one step on.
Woken ==
    [job EXCEPT !.status = CASE job.status = Printing -> Done
                             [] job.status = Done     -> Idle
                             [] OTHER                 -> job.status,
                !.ram = IF job.status = Done THEN << >> ELSE @]

Obeyed(command, data) ==
    CASE command = Null  -> Woken
      [] command = Clear -> [Woken EXCEPT !.ram = << >>]
      [] command = PrintPage -> [Woken EXCEPT !.status = Printing, !.page = Woken.ram]
      [] command = Fill  -> [Woken EXCEPT !.status = Ready, !.ram = @ \o data]

Answered(j) == [j EXCEPT !.answer = <<129, j.status>>]

Packet(command, data) ==
    job' = IF job.lost THEN [job EXCEPT !.answer = <<0, 0>>] ELSE Answered(Obeyed(command, data))

Stray == job' = [job EXCEPT !.lost = TRUE]

JobNext ==
    \/ \E command \in {Null, Clear, PrintPage} : Packet(command, << >>)
    \/ \E data \in Fills : Packet(Fill, data)
    \/ Stray

JobSpec == JobInit /\ [][JobNext]_job
=============================================================================
