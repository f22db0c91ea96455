------------------------------- MODULE MCApu -------------------------------
EXTENDS Apu

\* The model matters to the length counter, which channel 2 shows on both.
const_Models == [Channel1 |-> {FALSE}, Channel2 |-> BOOLEAN, Noise |-> {FALSE}]
===========================================================================
