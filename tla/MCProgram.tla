----------------------------- MODULE MCProgram -----------------------------
(* Program with two of the five interrupts and 16 addresses of two base-4  *)
(* digits: code and vectors below, IF at 9, RAM at 10 .. 14, IE on top.    *)
EXTENDS Program

const_Interrupts == 0 .. 1
const_Ram == 10 .. 14
const_Vector == [i \in 0 .. 1 |-> 4 + i]
const_CodeArea == {15, 0, 4, 5}
const_Targets == {0, 15}
const_Stacks == {0, 10, 14}
============================================================================
