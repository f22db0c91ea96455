------------------------------ MODULE Program ------------------------------
(***************************************************************************)
(* The flow of the program through the CPU of CpuStep: PC, SP and the      *)
(* stack.  Every step ends with the fetch of the next opcode, so PC is one *)
(* past an opcode that has not been executed (the "Hack" of init()), and   *)
(* an interrupt throws that opcode away and has to push PC - 1.            *)
(*                                                                         *)
(* Each action is one of CpuStep's with what it does to PC, SP and memory. *)
(* Where CpuStep lets any push hit IE or IF, here SP decides.  A byte of   *)
(* memory is kept only when it is half of a return address; any other is   *)
(* Unknown, and where a return address is read from such bytes the program *)
(* may go to any of Targets.                                               *)
(***************************************************************************)
EXTENDS CpuStep

CONSTANTS
    Base,         \* the values of a byte: 256
    Ram,          \* the addresses that keep what is written
    IfAddress,    \* 0xFF0F
    Vector,       \* INTERRUPT_VECS
    Entry,        \* 0x100
    StackTop,     \* 0xFFFE
    CodeArea,     \* bound: where opcodes are fetched
    Targets,      \* bound: where the program jumps
    Stacks        \* bound: what it loads into SP

Addresses == 0 .. Base * Base - 1
Bytes == 0 .. Base - 1
IeAddress == Base * Base - 1
Unknown == -1
Nowhere == -1

ASSUME ProgramConstants ==
    /\ Base \in Nat \ {0}
    /\ Ram \cup CodeArea \cup Targets \cup Stacks \cup {IfAddress, Entry, StackTop} \subseteq Addresses
    /\ {IfAddress, IeAddress} \cap Ram = {} /\ IfAddress \notin {0, IeAddress - 1}
    /\ Vector \in [Interrupts -> CodeArea] /\ {0, Entry} \subseteq CodeArea

VARIABLES
    reg_pc, reg_sp,
    memory,       \* the return addresses in Ram
    opcode_at,    \* history: where the opcode about to be executed was fetched
    frames,       \* history: return addresses pushed and still intact
    returning     \* history: where the RET being executed has to lead

flowVars == <<reg_pc, reg_sp, memory, opcode_at, frames, returning>>
allVars == <<vars, flowVars>>

----------------------------------------------------------------------------
(* Registers and memory *)

inc(a) == (a + 1) % (Base * Base)
dec(a) == (a - 1) % (Base * Base)
get_high(v) == v \div Base
get_low(v) == v % Base
value(msb, lsb) == msb * Base + lsb

\* the interrupts whose bits a byte sets
Bits(byte) == {i \in Interrupts : (byte \div 2^i) % 2 = 1}

\* What soc.clock_write() of any of bytes does to IE and IF, after its clock.
WriteRegisters(address, bytes) ==
    \/ /\ address = IeAddress
       /\ ie' \in {Bits(b) : b \in bytes} /\ clock
    \/ /\ address = IfAddress
       /\ if' \in {Bits(b) : b \in bytes} /\ UNCHANGED ie
    \/ /\ address \notin {IeAddress, IfAddress}
       /\ clock /\ UNCHANGED ie

Stored(m, address, byte) == IF address \in Ram THEN [m EXCEPT ![address] = byte] ELSE m

\* The frames a write leaves intact, and with the one that is now complete.
Intact(fs, address) == {f \in fs : address \notin {f.at, inc(f.at)}}
Framed(fs, at, back) ==
    IF {at, inc(at)} \subseteq Ram THEN fs \cup {[at |-> at, back |-> back]} ELSE fs

\* clock_pop_u16(): the low byte is at SP, the high byte above it.
Popped ==
    IF reg_sp \in Ram /\ inc(reg_sp) \in Ram /\ Unknown \notin {memory[reg_sp], memory[inc(reg_sp)]}
    THEN {value(memory[inc(reg_sp)], memory[reg_sp])}
    ELSE Targets

Forget == memory' = [a \in Ram |-> IF a \in {reg_sp, inc(reg_sp)} THEN Unknown ELSE memory[a]]

\* CPU::init()
ProgramInit ==
    /\ Init
    /\ reg_pc = inc(Entry) /\ reg_sp = StackTop /\ opcode_at = Entry
    /\ memory = [a \in Ram |-> Unknown]
    /\ frames = {} /\ returning = Nowhere

----------------------------------------------------------------------------
(* handle_interrupt() *)

interrupted_pc_Saturated == IF reg_pc = 0 THEN 0 ELSE reg_pc - 1
\* pc - 1: in a checked build it panics at PC = 0, otherwise it wraps.
interrupted_pc == dec(reg_pc)

\* clock_push_u8() of a byte of a return address
PushByte(byte) ==
    /\ reg_sp' = dec(reg_sp)
    /\ memory' = Stored(memory, reg_sp', byte)
    /\ WriteRegisters(reg_sp', {byte})

DispatchHigh ==
    /\ phase = "PushHigh"
    /\ PushByte(get_high(interrupted_pc))
    /\ clobbered' = (reg_sp' \in {IeAddress, IfAddress})
    /\ frames' = Intact(frames, reg_sp')
    /\ PushHigh
    /\ UNCHANGED <<reg_pc, opcode_at, returning>>

DispatchLow ==
    /\ phase = "PushLow"
    /\ PushByte(get_low(interrupted_pc))
    /\ frames' = Framed(Intact(frames, reg_sp'), reg_sp', opcode_at)
    /\ PushLow
    /\ UNCHANGED <<reg_pc, opcode_at, returning>>

DispatchJump ==
    /\ Jump
    /\ reg_pc' = IF chosen = NoInterrupt THEN 0 ELSE Vector[chosen]
    /\ UNCHANGED <<reg_sp, memory, opcode_at, frames, returning>>

\* clock_fetch()
FetchOpcode ==
    /\ FetchVector \/ Fetch
    /\ opcode_at' = reg_pc /\ reg_pc' = inc(reg_pc)
    /\ returning' = Nowhere
    /\ UNCHANGED <<reg_sp, memory, frames>>

----------------------------------------------------------------------------
(* Instructions.  Each has consumed its operands, up to two bytes at PC,   *)
(* when it does the rest; a CB prefix is one more byte.                    *)

Operands(n) == (reg_pc + n) % (Base * Base)

\* EI, DI, HALT and all that leaves SP alone; memory is written nowhere in
\* Ram that a frame is in, or Overwrite does it.
Straight ==
    /\ \/ (opcode_ei \/ opcode_di \/ opcode_halt) /\ reg_pc' = reg_pc
       \/ OtherInstruction /\ \E n \in 0 .. 2 : reg_pc' = Operands(n)
    /\ reg_pc' \in CodeArea
    /\ UNCHANGED <<reg_sp, memory, opcode_at, frames, returning>>

\* A store to the middle of the stack.
Overwrite ==
    /\ Ordinary /\ clock /\ UNCHANGED ie
    /\ reg_pc' = reg_pc /\ reg_pc' \in CodeArea
    /\ \E f \in frames :
          /\ frames' = Intact(Intact(frames, f.at), inc(f.at))
          /\ memory' = [memory EXCEPT ![f.at] = Unknown, ![inc(f.at)] = Unknown]
    /\ UNCHANGED <<reg_sp, opcode_at, returning>>

\* JP, JR, JP HL, taken or not
opcode_jp ==
    /\ Ordinary /\ clock /\ UNCHANGED ie
    /\ reg_pc' \in Targets
    /\ UNCHANGED <<reg_sp, memory, opcode_at, frames, returning>>

\* LD SP, ADD SP, INC SP, DEC SP
LoadSp ==
    /\ Ordinary /\ clock /\ UNCHANGED ie
    /\ reg_pc' = reg_pc /\ reg_pc' \in CodeArea
    /\ reg_sp' \in Stacks
    /\ frames' = {f \in frames : f.at >= reg_sp'}
    /\ memory' = [a \in Ram |-> IF a >= reg_sp' THEN memory[a] ELSE Unknown]
    /\ UNCHANGED <<opcode_at, returning>>

\* Two clock_push_u8(): the first may be hit by the clock of the second.
PushWord(high, low) ==
    LET upper == dec(reg_sp)
        lower == dec(upper)
    IN  /\ reg_sp' = lower
        /\ \/ upper \in {IeAddress, IfAddress} /\ WriteRegisters(upper, high)
           \/ upper \notin {IeAddress, IfAddress} /\ WriteRegisters(lower, low)
           \/ /\ upper = IfAddress /\ UNCHANGED ie
              /\ \E b \in high, raised \in SUBSET Interrupts : if' = Bits(b) \cup raised

Pushed(upper, high, low) == Stored(Stored(memory, upper, high), dec(upper), low)

\* PUSH of any register pair
opcode_push ==
    /\ Ordinary
    /\ PushWord(Bytes, Bytes)
    /\ reg_pc' = reg_pc /\ reg_pc' \in CodeArea
    /\ memory' = Pushed(dec(reg_sp), Unknown, Unknown)
    /\ frames' = Intact(Intact(frames, dec(reg_sp)), reg_sp')
    /\ UNCHANGED <<opcode_at, returning>>

\* CALL taken (two operands) and RST (none)
opcode_call ==
    \E n \in {0, 2} :
       LET back == Operands(n)
       IN  /\ Ordinary
           /\ PushWord({get_high(back)}, {get_low(back)})
           /\ back \in CodeArea
           /\ reg_pc' \in Targets
           /\ memory' = Pushed(dec(reg_sp), get_high(back), get_low(back))
           /\ frames' = Framed(Intact(Intact(frames, dec(reg_sp)), reg_sp'), reg_sp', back)
           /\ UNCHANGED <<opcode_at, returning>>

\* clock_pop_u16() raises SP by two; what was below it is given up.
Pop ==
    /\ reg_sp' = inc(inc(reg_sp))
    /\ Forget
    /\ frames' = Intact(Intact(frames, reg_sp), inc(reg_sp))
    /\ UNCHANGED opcode_at

opcode_pop ==
    /\ Ordinary /\ clock /\ UNCHANGED ie
    /\ Pop
    /\ reg_pc' = reg_pc /\ reg_pc' \in CodeArea
    /\ UNCHANGED returning

opcode_ret ==
    /\ opcode_reti \/ (Ordinary /\ clock /\ UNCHANGED ie)
    /\ Pop
    /\ reg_pc' \in Popped
    /\ LET due == {f \in frames : f.at = reg_sp}
       IN  returning' = IF due = {} THEN Nowhere ELSE (CHOOSE f \in due : TRUE).back

Run == Straight \/ Overwrite \/ opcode_jp \/ LoadSp \/ opcode_push \/ opcode_call \/ opcode_pop \/ opcode_ret

ProgramNext ==
    \/ (ProcessEvents \/ CheckInterrupts \/ Wait1 \/ Wait2 \/ IdleHalted) /\ UNCHANGED flowVars
    \/ DispatchHigh \/ DispatchLow \/ DispatchJump \/ FetchOpcode
    \/ Run

\* The emulator thread keeps calling step() and process_events().
ProgramSpec == ProgramInit /\ [][ProgramNext]_allVars /\ WF_allVars(ProgramNext)

----------------------------------------------------------------------------
(* Properties *)

\* A return whose return address is still intact leads to the instruction
\* that was to be executed when it was pushed: after a CALL or RST the next
\* one, after an interrupt the one whose prefetched opcode the dispatch threw
\* away, wherever it was, and however interrupts and calls are nested.
ReturnsWhereLeft ==
    [][phase = "Fetch" /\ returning # Nowhere => opcode_at' = returning]_allVars
============================================================================
