------------------------------ MODULE CpuStep ------------------------------
(***************************************************************************)
(* One step of the CPU, cpu/cpu.rs step(): look for interrupts, dispatch   *)
(* one, apply a delayed EI, then idle in HALT or execute an instruction    *)
(* and fetch the next.  Every M-cycle of it clocks the devices, which may  *)
(* raise interrupts in between, and a push of the dispatch may itself      *)
(* write IE or IF, so the step is split where IE and IF can change.        *)
(*                                                                         *)
(* An interrupt is its bit number: 0 (VBLANK) has the highest priority.    *)
(* Instructions are abstracted to what they do to IME, HALT, IE and IF.    *)
(* A definition Op_Fault is Op with a plausible mistake in it; nothing     *)
(* uses it.                                                                *)
(***************************************************************************)
EXTENDS Integers

CONSTANTS
    Interrupts,   \* 0 .. 4, the bits of INTERRUPT_BITS
    Joypad        \* the bit input_update() sets

ASSUME InterruptNumbers == Interrupts \subseteq Nat /\ Joypad \in Interrupts

VARIABLES
    phase,        \* where step() is
    ime, ime_next, halted,
    cpu_halted,   \* the copy of halted the SOC keeps for the HDMA
    ie, if,       \* the registers, as sets of interrupts
    pc,           \* an interrupt's vector or Zero when just jumped to, else Code
    chosen,       \* active_interrupt in handle_interrupt()
    clobbered,    \* history: the push of PC's high byte wrote IE or IF
    ei_found      \* history: IME as the EI just executed, if it was one, found it

vars == <<phase, ime, ime_next, halted, cpu_halted, ie, if, pc, chosen, clobbered, ei_found>>
haltVars == <<halted, cpu_halted>>
imeVars == <<ime, ime_next, ei_found>>
dispatchVars == <<chosen, clobbered>>

NoInterrupt == -1   \* None, as a choice
Zero == -1          \* address 0, as a place
Code == -2          \* any other place

Phases == {"Events", "Check", "Wait1", "Wait2", "PushHigh", "PushLow", "Jump", "FetchVector",
           "Exec", "Fetch"}

TypeOK ==
    /\ phase \in Phases
    /\ ime \in BOOLEAN /\ ime_next \in BOOLEAN
    /\ halted \in BOOLEAN /\ cpu_halted \in BOOLEAN
    /\ ie \subseteq Interrupts /\ if \subseteq Interrupts
    /\ pc \in {Code, Zero} \cup Interrupts
    /\ chosen \in Interrupts \cup {NoInterrupt}
    /\ clobbered \in BOOLEAN /\ ei_found \in BOOLEAN

\* CPU::new() and SOC::new(): a VBLANK is requested, nothing is enabled.
Init ==
    /\ phase = "Check"
    /\ ime = FALSE /\ ime_next = FALSE /\ ei_found = FALSE
    /\ halted = FALSE /\ cpu_halted = FALSE
    /\ ie = {} /\ if = {0} \cap Interrupts
    /\ pc = Code
    /\ chosen = NoInterrupt
    /\ clobbered = FALSE

----------------------------------------------------------------------------
active_interrupts == ie \cap if

\* soc.clock(): the devices raise any interrupts they like.
clock == \E raised \in SUBSET Interrupts : if' = if \cup raised

\* The loop over INTERRUPT_BITS stops at the lowest active bit.
first_active(active) == CHOOSE i \in active : \A j \in active : i <= j

find_active_Short(active) ==
    IF active \ {Joypad} = {} THEN NoInterrupt ELSE first_active(active \ {Joypad})
find_active(active) == IF active = {} THEN NoInterrupt ELSE first_active(active)

\* process_events() after a step: at a vsync with a key press in the channel,
\* input_update() requests the joypad interrupt.
ProcessEvents ==
    /\ phase = "Events"
    /\ phase' = "Check"
    /\ if' \in {if, if \cup {Joypad}}
    /\ UNCHANGED <<imeVars, haltVars, ie, pc, dispatchVars>>

WakeUp_CopyKept == halted' = FALSE /\ UNCHANGED cpu_halted
\* Any enabled request ends HALT, whether or not it will be dispatched.
WakeUp == halted' = FALSE /\ cpu_halted' = FALSE

CheckInterrupts_EiFirst ==
    /\ phase = "Check"
    /\ \/ /\ active_interrupts = {}
          /\ phase' = "Exec"
          /\ UNCHANGED haltVars
       \/ /\ active_interrupts # {}
          /\ WakeUp
          /\ phase' = IF ime \/ ime_next THEN "Wait1" ELSE "Exec"
    /\ UNCHANGED <<imeVars, ie, if, pc, dispatchVars>>
\* check_interrupts()
CheckInterrupts ==
    /\ phase = "Check"
    /\ \/ /\ active_interrupts = {}
          /\ phase' = "Exec"
          /\ UNCHANGED haltVars
       \/ /\ active_interrupts # {}
          /\ WakeUp
          /\ phase' = IF ime THEN "Wait1" ELSE "Exec"
    /\ UNCHANGED <<imeVars, ie, if, pc, dispatchVars>>

----------------------------------------------------------------------------
(* handle_interrupt(): two idle clocks, the two pushes, the jump. *)

Wait1 ==
    /\ phase = "Wait1" /\ phase' = "Wait2"
    /\ clock
    /\ UNCHANGED <<imeVars, haltVars, ie, pc, dispatchVars>>

Wait2 ==
    /\ phase = "Wait2" /\ phase' = "PushHigh"
    /\ clock
    /\ UNCHANGED <<imeVars, haltVars, ie, pc, dispatchVars>>

\* A push at SP = 0xFFFF or 0xFF0F + 1 overwrites IE or IF with a byte of PC.
PushOntoRegister ==
    \E data \in SUBSET Interrupts :
       \/ ie' = data /\ clock
       \/ if' = data /\ UNCHANGED ie

\* The first push, then the choice of what to dispatch: with the registers as
\* the push has left them, perhaps nothing at all.
PushHigh ==
    /\ phase = "PushHigh" /\ phase' = "PushLow"
    /\ \/ clock /\ UNCHANGED ie /\ clobbered' = FALSE
       \/ PushOntoRegister /\ clobbered' = TRUE
    /\ chosen' = find_active(ie' \cap if')
    /\ UNCHANGED <<imeVars, haltVars, pc>>

\* The second push comes too late to change the choice.
PushLow ==
    /\ phase = "PushLow" /\ phase' = "Jump"
    /\ (clock /\ UNCHANGED ie) \/ PushOntoRegister
    /\ UNCHANGED <<imeVars, haltVars, pc, dispatchVars>>

clear_interrupt_Highest(i) ==
    if' = IF active_interrupts = {} THEN if ELSE if \ {first_active(active_interrupts)}
clear_interrupt(i) == if' = if \ {i}

\* Jump to the vector and acknowledge, or to 0 when the dispatch was cancelled.
Jump ==
    /\ phase = "Jump" /\ phase' = "FetchVector"
    /\ \/ /\ chosen # NoInterrupt
          /\ pc' = chosen
          /\ clear_interrupt(chosen)
       \/ /\ chosen = NoInterrupt
          /\ pc' = Zero
          /\ UNCHANGED if
    /\ ime' = FALSE
    /\ chosen' = NoInterrupt /\ clobbered' = FALSE
    /\ UNCHANGED <<ime_next, ei_found, haltVars, ie>>

FetchVector ==
    /\ phase = "FetchVector" /\ phase' = "Exec"
    /\ clock
    /\ UNCHANGED <<imeVars, haltVars, ie, pc, dispatchVars>>

----------------------------------------------------------------------------
(* The rest of step(): `if ime_next`, then HALT or an instruction.  ime_on *)
(* is IME as the instruction finds it.                                     *)

ime_on == ime \/ ime_next

\* What all but EI leave of the delayed EI, and of IME.
NoEi == ime_next' = FALSE /\ ei_found' = FALSE
KeepIme == ime' = ime_on /\ NoEi

\* `if halted`: one clock and the step is over.
IdleHalted ==
    /\ phase = "Exec" /\ halted
    /\ KeepIme
    /\ clock
    /\ phase' = "Events"
    /\ UNCHANGED <<haltVars, ie, pc, dispatchVars>>

Execute ==
    /\ phase = "Exec" /\ ~halted
    /\ phase' = "Fetch"
    /\ pc' = Code
    /\ UNCHANGED dispatchVars

opcode_ei ==
    /\ Execute
    /\ ime' = ime_on /\ ime_next' = TRUE /\ ei_found' = ime_on
    /\ UNCHANGED <<haltVars, ie, if>>

opcode_di == Execute /\ ime' = FALSE /\ NoEi /\ UNCHANGED <<haltVars, ie, if>>

opcode_reti == Execute /\ ime' = TRUE /\ NoEi /\ clock /\ UNCHANGED <<haltVars, ie>>

\* HALT with IME off and a request pending falls through (the @todo halt bug).
opcode_halt ==
    /\ Execute
    /\ KeepIme
    /\ \/ /\ ime' \/ active_interrupts = {}
          /\ halted' = TRUE /\ cpu_halted' = TRUE
       \/ /\ ~ime' /\ active_interrupts # {}
          /\ UNCHANGED haltVars
    /\ UNCHANGED <<ie, if>>

\* Any other instruction: clocks the devices, may write IE or IF.
Ordinary ==
    /\ Execute
    /\ KeepIme
    /\ UNCHANGED haltVars

OtherInstruction == Ordinary /\ ((clock /\ UNCHANGED ie) \/ PushOntoRegister)

Instruction == opcode_ei \/ opcode_di \/ opcode_reti \/ opcode_halt \/ OtherInstruction

\* clock_fetch() of the next opcode ends the step.
Fetch ==
    /\ phase = "Fetch" /\ phase' = "Events"
    /\ clock
    /\ UNCHANGED <<imeVars, haltVars, ie, pc, dispatchVars>>

handle_interrupt == Wait1 \/ Wait2 \/ PushHigh \/ PushLow \/ Jump \/ FetchVector

Next == ProcessEvents \/ CheckInterrupts \/ handle_interrupt \/ IdleHalted \/ Instruction \/ Fetch

\* The emulator thread keeps calling step() and process_events().
Spec == Init /\ [][Next]_vars /\ WF_vars(Next)

----------------------------------------------------------------------------
(* Properties *)

\* The effect of the delayed EI on what an instruction finds, IME being ime_on
\* by then.  An instruction starts with IME set and an enabled interrupt
\* pending only as the one instruction that an EI with IME clear lets pass
\* first.  The first instruction after a dispatch starts with IME set only if
\* an EI that found IME set was the last one before it: the dispatch comes
\* before `if ime_next`, which then undoes its clearing of IME.
InstructionMasked ==
    phase = "Exec" /\ ime_on =>
       /\ pc = Code /\ active_interrupts # {} => ime_next /\ ~ei_found
       /\ pc # Code => ime_next /\ ei_found

\* handle_interrupt() ends in a jump to 0 only if its own first push wrote IE
\* or IF: nothing the devices do in the meantime can cancel a dispatch.
CancelOnlyByPush == phase \in {"PushLow", "Jump"} /\ chosen = NoInterrupt => clobbered

\* The SOC's copy of the halt flag, which stops the HBlank DMA, never differs
\* from the CPU's between two calls.
HaltFlagsAgree == halted <=> cpu_halted

\* A request leaves IF only when its own vector is jumped to, or when the
\* program writes IE or IF over it: acknowledging one interrupt never loses
\* another that was raised during the dispatch.
RequestsKept ==
    [][\A i \in if \ if' : phase \in {"PushHigh", "PushLow", "Exec"} \/ (phase = "Jump" /\ pc' = i)]_vars

\* HALT ends once an enabled interrupt is requested, with IME set or not, for
\* the CPU and in the copy of its flag that the SOC keeps.
HaltEnds == (halted \/ cpu_halted) /\ active_interrupts # {} ~> ~halted /\ ~cpu_halted
============================================================================
