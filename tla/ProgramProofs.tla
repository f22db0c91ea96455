--------------------------- MODULE ProgramProofs ---------------------------
(***************************************************************************)
(* Proofs about CpuStep, for every set of interrupts, and about Program    *)
(* that implements it, for any memory: its returns lead back.              *)
(***************************************************************************)
EXTENDS Program, WellFoundedInduction, TLAPS

(* The step of the CPU. *)

\* From the check to the first push an enabled request is there to be found.
DispatchHasCause ==
    phase \in {"Wait1", "Wait2", "PushHigh"} => active_interrupts # {} /\ ~halted

\* The jump masks interrupts, and only the jump leaves the program's code.
JumpMasks ==
    /\ phase = "FetchVector" => ~ime
    /\ phase \in {"PushLow", "Jump", "FetchVector"} => ~halted
    /\ phase \notin {"FetchVector", "Exec"} => pc = Code
    /\ phase = "Exec" /\ pc # Code => ~halted

\* IME since the EI just executed: what that EI found, until a jump clears it.
EiKept ==
    /\ ime_next => IF pc = Code THEN ime = ei_found ELSE ei_found
    /\ phase \in {"Wait1", "Wait2", "PushHigh", "PushLow", "Jump"} => ime
    /\ phase = "Exec" /\ ime => active_interrupts = {} /\ pc = Code

Safe == CancelOnlyByPush /\ HaltFlagsAgree

IInv == TypeOK /\ DispatchHasCause /\ JumpMasks /\ EiKept /\ Safe

\* A non-empty set of natural numbers has a least element.
LEMMA LeastNat ==
  ASSUME NEW T, T \subseteq Nat, T # {}
  PROVE  \E x \in T : \A y \in T : x <= y
<1> DEFINE R == {ss \in Nat \X Nat : ss[1] < ss[2]}
<1>1. IsWellFoundedOn(R, Nat)
  BY NatLessThanWellFounded DEF OpToRel
<1>2. \A a, b \in Nat : a < b => <<a, b>> \in R
  OBVIOUS
<1> HIDE DEF R
<1>3. PICK x \in T : \A y \in T : ~ (<<y, x>> \in R)
  BY <1>1, WFMin
<1>4. SUFFICES ASSUME NEW y \in T PROVE x <= y
  BY Zenon
<1>5. ~(y < x)
  BY <1>2, <1>3
<1>6. QED
  BY <1>5

\* The dispatch loop finds an active interrupt, if there is one.
LEMMA FindActive ==
    ASSUME NEW active \in SUBSET Interrupts
    PROVE  /\ find_active(active) \in Interrupts \cup {NoInterrupt}
           /\ find_active(active) = NoInterrupt => active = {}
<1>1. CASE active = {}
    BY <1>1 DEF find_active
<1>2. CASE active # {}
  <2>1. \E i \in active : \A j \in active : i <= j
    BY <1>2, LeastNat, InterruptNumbers
  <2>2. first_active(active) \in active
    BY <2>1 DEF first_active
  <2>3. first_active(active) # NoInterrupt
    BY <2>2, InterruptNumbers DEF NoInterrupt
  <2> QED
    BY <1>2, <2>2, <2>3 DEF find_active
<1> QED
    BY <1>1, <1>2

\* A clock only adds requests, of interrupts there are.
LEMMA ClockType == if \subseteq Interrupts /\ clock => if' \subseteq Interrupts /\ if \subseteq if'
    BY DEF clock

\* A push over IE or IF leaves sets of interrupts.
LEMMA PushType ==
    ie \subseteq Interrupts /\ if \subseteq Interrupts /\ PushOntoRegister
        => ie' \subseteq Interrupts /\ if' \subseteq Interrupts
    BY DEF PushOntoRegister, clock

\* The first state.
LEMMA InitIInv == Init => IInv
    BY InterruptNumbers DEF Init, IInv, TypeOK, Phases, DispatchHasCause, JumpMasks, EiKept, Safe,
       CancelOnlyByPush, HaltFlagsAgree, active_interrupts, Code, Zero, NoInterrupt

----------------------------------------------------------------------------
(* One lemma per part of the step. *)

\* process_events() keeps the invariant.
LEMMA EventsStep == IInv /\ ProcessEvents => IInv'
    BY InterruptNumbers DEF ProcessEvents, IInv, TypeOK, Phases, DispatchHasCause, JumpMasks, EiKept, Safe,
       CancelOnlyByPush, HaltFlagsAgree, imeVars, haltVars, dispatchVars

\* The check for interrupts keeps the invariant.
LEMMA CheckStep == IInv /\ CheckInterrupts => IInv'
<1> SUFFICES ASSUME IInv, CheckInterrupts PROVE IInv'
    OBVIOUS
<1> USE DEF IInv, CheckInterrupts, imeVars, haltVars, dispatchVars, WakeUp
<1>1. TypeOK'
    BY DEF TypeOK, Phases
<1>2. DispatchHasCause' /\ JumpMasks' /\ EiKept'
    BY DEF DispatchHasCause, JumpMasks, EiKept, active_interrupts, TypeOK
<1>3. Safe'
    BY DEF Safe, CancelOnlyByPush, HaltFlagsAgree, active_interrupts, JumpMasks, TypeOK
<1> QED
    BY <1>1, <1>2, <1>3

\* The two internal cycles of a dispatch.
LEMMA WaitStep == IInv /\ (Wait1 \/ Wait2) => IInv'
<1> SUFFICES ASSUME IInv, Wait1 \/ Wait2 PROVE IInv'
    OBVIOUS
<1> USE DEF IInv, Wait1, Wait2, imeVars, haltVars, dispatchVars
<1>1. if' \subseteq Interrupts /\ if \subseteq if'
    BY ClockType DEF TypeOK
<1>2. TypeOK'
    BY <1>1 DEF TypeOK, Phases
<1>3. DispatchHasCause' /\ JumpMasks' /\ EiKept'
    BY <1>1 DEF DispatchHasCause, JumpMasks, EiKept, active_interrupts
<1>4. Safe'
    BY DEF Safe, CancelOnlyByPush, HaltFlagsAgree
<1> QED
    BY <1>2, <1>3, <1>4

\* The first push of a dispatch, which may hit IE.
LEMMA PushHighStep == IInv /\ PushHigh => IInv'
<1> SUFFICES ASSUME IInv, PushHigh PROVE IInv'
    OBVIOUS
<1> USE DEF IInv, PushHigh, imeVars, haltVars
<1>1. ie' \subseteq Interrupts /\ if' \subseteq Interrupts /\ clobbered' \in BOOLEAN
    BY ClockType, PushType DEF TypeOK
<1>2. /\ chosen' \in Interrupts \cup {NoInterrupt}
      /\ chosen' = NoInterrupt => ie' \cap if' = {}
    BY <1>1, FindActive
<1>3. chosen' = NoInterrupt => clobbered'
  <2> SUFFICES ASSUME clock, UNCHANGED ie, chosen' = NoInterrupt PROVE FALSE
    BY DEF TypeOK
  <2>1. ie \cap if # {} /\ if \subseteq if'
    BY ClockType DEF TypeOK, DispatchHasCause, active_interrupts
  <2> QED
    BY <1>2, <2>1
<1>4. TypeOK'
    BY <1>1, <1>2 DEF TypeOK, Phases
<1>5. DispatchHasCause' /\ JumpMasks' /\ EiKept'
    BY DEF DispatchHasCause, JumpMasks, EiKept, TypeOK
<1>6. Safe'
    BY <1>3 DEF Safe, CancelOnlyByPush, HaltFlagsAgree
<1> QED
    BY <1>4, <1>5, <1>6

\* The second push, which may hit IF.
LEMMA PushLowStep == IInv /\ PushLow => IInv'
<1> SUFFICES ASSUME IInv, PushLow PROVE IInv'
    OBVIOUS
<1> USE DEF IInv, PushLow, imeVars, haltVars, dispatchVars
<1>1. ie' \subseteq Interrupts /\ if' \subseteq Interrupts
    BY ClockType, PushType DEF TypeOK
<1>2. TypeOK'
    BY <1>1 DEF TypeOK, Phases
<1>3. DispatchHasCause' /\ JumpMasks' /\ EiKept' /\ Safe'
    BY DEF DispatchHasCause, JumpMasks, EiKept, TypeOK, Code, Zero, NoInterrupt, Safe, CancelOnlyByPush, HaltFlagsAgree
<1> QED
    BY <1>2, <1>3

\* The end of a dispatch.
LEMMA JumpStep == IInv /\ (Jump \/ FetchVector) => IInv'
<1> SUFFICES ASSUME IInv, Jump \/ FetchVector PROVE IInv'
    OBVIOUS
<1> USE DEF IInv, Jump, FetchVector, imeVars, haltVars, dispatchVars, clear_interrupt
<1>1. if' \subseteq Interrupts
    BY ClockType DEF TypeOK
<1>2. TypeOK'
    BY <1>1 DEF TypeOK, Phases
<1>3. DispatchHasCause' /\ JumpMasks' /\ Safe'
    BY DEF DispatchHasCause, JumpMasks, Safe, CancelOnlyByPush, HaltFlagsAgree
<1>4. EiKept'
  <2>1. CASE Jump
    <3>1. pc' # Code
        BY <2>1, InterruptNumbers DEF TypeOK, Code, Zero, NoInterrupt
    <3>2. pc = Code /\ ime /\ ~ime' /\ ime_next' = ime_next /\ ei_found' = ei_found
        BY <2>1 DEF TypeOK, JumpMasks, EiKept
    <3>3. ime_next' => ei_found'
        BY <3>2, Zenon DEF EiKept, TypeOK
    <3>4. QED
        BY <2>1, <3>1, <3>2, <3>3 DEF EiKept
  <2>2. CASE FetchVector
    <3>1. ~ime /\ UNCHANGED <<ime, ime_next, ei_found, pc>> /\ phase' = "Exec"
        BY <2>2 DEF JumpMasks
    <3>2. QED
        BY <3>1 DEF EiKept
  <2>3. QED
    BY <2>1, <2>2
<1> QED
    BY <1>2, <1>3, <1>4

\* An instruction, or a cycle of HALT.
LEMMA ExecStep == IInv /\ (IdleHalted \/ Instruction \/ Fetch) => IInv'
<1> SUFFICES ASSUME IInv, IdleHalted \/ Instruction \/ Fetch PROVE IInv'
    OBVIOUS
<1> USE DEF IInv, IdleHalted, Instruction, Fetch, Execute, opcode_ei, opcode_di, opcode_reti, opcode_halt,
            Ordinary, OtherInstruction, ime_on, NoEi, KeepIme, imeVars, haltVars, dispatchVars
<1>1. ie' \subseteq Interrupts /\ if' \subseteq Interrupts
    BY ClockType, PushType DEF TypeOK
<1>2. ime' \in BOOLEAN /\ ime_next' \in BOOLEAN /\ ei_found' \in BOOLEAN /\ halted' \in BOOLEAN /\ cpu_halted' \in BOOLEAN
    BY DEF TypeOK
<1>3. TypeOK'
    BY <1>1, <1>2 DEF TypeOK, Phases
<1>4. DispatchHasCause' /\ JumpMasks' /\ EiKept'
    BY DEF DispatchHasCause, JumpMasks, EiKept, TypeOK
<1>5. Safe'
    BY DEF Safe, CancelOnlyByPush, HaltFlagsAgree
<1> QED
    BY <1>3, <1>4, <1>5

\* Every step of the CPU keeps the invariant.
LEMMA NextStep == IInv /\ [Next]_vars => IInv'
<1>1. IInv /\ UNCHANGED vars => IInv'
    BY DEF vars, IInv, TypeOK, DispatchHasCause, JumpMasks, EiKept, Safe, CancelOnlyByPush,
       HaltFlagsAgree, active_interrupts
<1> QED
    BY <1>1, EventsStep, CheckStep, WaitStep, PushHighStep, PushLowStep, JumpStep, ExecStep
       DEF Next, handle_interrupt

\* The invariant.
LEMMA Invariance == Spec => []IInv
    BY InitIInv, NextStep, PTL DEF Spec

\* The registers and flags of the step keep their types.
THEOREM TypeCorrect == Spec => []TypeOK
<1>1. IInv => TypeOK
    BY DEF IInv
<1> QED
    BY <1>1, Invariance, PTL

\* With IME as the instruction finds it, after the delayed EI of its step: it
\* is set over a pending interrupt, or after a dispatch, in no case but the two
\* of InstructionMasked; a dispatch is cancelled by nothing but its own push;
\* the SOC's copy of the halt flag is true to the CPU's.
THEOREM StepCorrect == Spec => [](InstructionMasked /\ CancelOnlyByPush /\ HaltFlagsAgree)
<1>1. IInv => InstructionMasked /\ CancelOnlyByPush /\ HaltFlagsAgree
    BY DEF IInv, TypeOK, EiKept, InstructionMasked, ime_on, Safe
<1> QED
    BY <1>1, Invariance, PTL

\* An interrupt request is lost to nothing but its own dispatch or a register
\* write of the program.
THEOREM NoRequestLost == Spec => RequestsKept
<1> DEFINE A ==
       \A i \in if \ if' : phase \in {"PushHigh", "PushLow", "Exec"} \/ (phase = "Jump" /\ pc' = i)
<1>1. [Next]_vars => [A]_vars
  <2> SUFFICES ASSUME Next, NEW i \in if \ if', phase \notin {"PushHigh", "PushLow", "Exec"}
               PROVE  phase = "Jump" /\ pc' = i
    OBVIOUS
  <2>1. clock => if \subseteq if'
    BY DEF clock
  <2>2. ~(ProcessEvents \/ CheckInterrupts)
    BY DEF ProcessEvents, CheckInterrupts
  <2>3. ~(Wait1 \/ Wait2 \/ FetchVector \/ Fetch)
    BY <2>1 DEF Wait1, Wait2, FetchVector, Fetch
  <2>4. ~(PushHigh \/ PushLow \/ IdleHalted \/ Instruction)
    BY DEF PushHigh, PushLow, IdleHalted, Instruction, Execute, opcode_ei, opcode_di, opcode_reti,
       opcode_halt, Ordinary, OtherInstruction
  <2>5. Jump
    BY <2>2, <2>3, <2>4 DEF Next, handle_interrupt
  <2> QED
    BY <2>5 DEF Jump, clear_interrupt
<1> QED
    BY <1>1, PTL DEF Spec, RequestsKept

-----------------------------------------------------------------------------
(* The flow of the program.  The inductive invariant says where PC is in   *)
(* each phase and that the frames of the history are in memory.            *)

FlowTypes ==
    /\ reg_pc \in Addresses /\ reg_sp \in Addresses /\ opcode_at \in Addresses
    /\ memory \in [Ram -> Bytes \cup {Unknown}]
    /\ frames \subseteq [at : Addresses, back : Addresses]

\* PC is one past the prefetched opcode, except just before a fetch.
Prefetched == phase \notin {"Fetch", "FetchVector"} => reg_pc = inc(opcode_at)

InMemory(f) ==
    /\ f.at \in Ram /\ inc(f.at) \in Ram
    /\ memory[f.at] = get_low(f.back) /\ memory[inc(f.at)] = get_high(f.back)

FramesHeld == \A f \in frames : InMemory(f)

HalfPushed == phase = "PushLow" /\ reg_sp \in Ram => memory[reg_sp] = get_high(opcode_at)

Returning == returning # Nowhere => phase = "Fetch" /\ reg_pc = returning

FlowInv == FlowTypes /\ Prefetched /\ FramesHeld /\ HalfPushed /\ Returning

----------------------------------------------------------------------------
(* Arithmetic of addresses *)

\* Stepping an address on and back over the end of memory.
LEMMA Wrap ==
    ASSUME NEW M \in Nat \ {0}, NEW a \in 0 .. M - 1
    PROVE  /\ (a + 1) % M \in 0 .. M - 1 /\ (a - 1) % M \in 0 .. M - 1
           /\ (((a + 1) % M) - 1) % M = a /\ (((a - 1) % M) + 1) % M = a
           /\ a # M - 1 => (a + 1) % M = a + 1
<1>1. a + 1 < M => (a + 1) % M = a + 1
    OBVIOUS
<1>2. a + 1 = M => (a + 1) % M = 0
    OBVIOUS
<1>3. a > 0 => (a - 1) % M = a - 1
    OBVIOUS
<1>4. a = 0 => (a - 1) % M = M - 1
    OBVIOUS
<1>5. a % M = a
    OBVIOUS
<1>6. M % M = 0
    OBVIOUS
<1> QED
    BY <1>1, <1>2, <1>3, <1>4, <1>5, <1>6

\* An address and its two bytes.
LEMMA Digits ==
    ASSUME NEW B \in Nat \ {0}, NEW v \in 0 .. B * B - 1
    PROVE  /\ v % B \in 0 .. B - 1 /\ v \div B \in 0 .. B - 1
           /\ (v \div B) * B + (v % B) = v
<1>1. v % B \in 0 .. B - 1 /\ v \div B \in Nat /\ (v \div B) * B + (v % B) = v
    OBVIOUS
<1>2. v \div B < B
  <2>1. SUFFICES ASSUME v \div B >= B PROVE FALSE
    BY <1>1
  <2>2. (v \div B) * B >= B * B
    BY <1>1, <2>1
  <2> QED
    BY <1>1, <2>2
<1> QED
    BY <1>1, <1>2

\* Two bytes make an address.
LEMMA Combined ==
    ASSUME NEW B \in Nat \ {0}, NEW msb \in 0 .. B - 1, NEW lsb \in 0 .. B - 1
    PROVE  msb * B + lsb \in 0 .. B * B - 1
<1>1. msb * B <= (B - 1) * B
    OBVIOUS
<1>2. (B - 1) * B = B * B - B
    OBVIOUS
<1> QED
    BY <1>1, <1>2

\* inc and dec stay within memory and undo each other.
LEMMA Pointers ==
    ASSUME NEW a \in Addresses
    PROVE  /\ inc(a) \in Addresses /\ dec(a) \in Addresses
           /\ dec(inc(a)) = a /\ inc(dec(a)) = a
           /\ a # IeAddress => inc(a) = a + 1
<1>1. Base * Base \in Nat \ {0}
    BY ProgramConstants
<1> QED
    BY <1>1, Wrap DEF inc, dec, Addresses, IeAddress

\* The bytes of an address.
LEMMA Words ==
    ASSUME NEW v \in Addresses
    PROVE  /\ get_high(v) \in Bytes /\ get_low(v) \in Bytes
           /\ value(get_high(v), get_low(v)) = v
    BY ProgramConstants, Digits DEF Addresses, Bytes, get_high, get_low, value

\* A word read is an address.
LEMMA ReadWord == \A msb, lsb \in Bytes : value(msb, lsb) \in Addresses
    BY ProgramConstants, Combined DEF Addresses, Bytes, value

\* The operands of an instruction move PC within memory.
LEMMA Consumed == ASSUME NEW n \in 0 .. 2, reg_pc \in Addresses PROVE Operands(n) \in Addresses
<1>1. Base * Base \in Nat \ {0} /\ reg_pc + n \in Nat
    BY ProgramConstants DEF Addresses
<1> QED
    BY <1>1 DEF Operands, Addresses

----------------------------------------------------------------------------
(* Every step of Program is a step of CpuStep. *)

\* A byte pushed over IE or IF is to CpuStep a push onto a register.
LEMMA RegisterWrite ==
    ASSUME NEW address, NEW bytes, WriteRegisters(address, bytes)
    PROVE  (clock /\ UNCHANGED ie) \/ PushOntoRegister
    BY DEF WriteRegisters, PushOntoRegister, Bits

\* The same for the two bytes of a word.
LEMMA WordWrite ==
    ASSUME NEW high, NEW low, PushWord(high, low)
    PROVE  (clock /\ UNCHANGED ie) \/ PushOntoRegister
<1> DEFINE upper == dec(reg_sp)
<1>1. CASE WriteRegisters(upper, high) \/ WriteRegisters(dec(upper), low)
    BY <1>1, RegisterWrite
<1>2. CASE UNCHANGED ie /\ \E b \in high, raised \in SUBSET Interrupts : if' = Bits(b) \cup raised
  <2>1. PICK b \in high, raised \in SUBSET Interrupts : if' = Bits(b) \cup raised
    BY <1>2
  <2>2. Bits(b) \cup raised \in SUBSET Interrupts
    BY <2>1 DEF Bits
  <2> QED
    BY <1>2, <2>1, <2>2 DEF PushOntoRegister
<1> QED
    BY <1>1, <1>2 DEF PushWord

\* To CpuStep, whatever the program runs is an instruction.
LEMMA RunIsInstruction == Run => Instruction
<1>1. Straight => Instruction
    BY DEF Straight, Instruction
<1>2. Overwrite \/ opcode_jp \/ LoadSp \/ opcode_pop => OtherInstruction
    BY DEF Overwrite, opcode_jp, LoadSp, opcode_pop, OtherInstruction
<1>3. opcode_push => OtherInstruction
    BY WordWrite DEF opcode_push, OtherInstruction
<1>4. opcode_call => OtherInstruction
    BY WordWrite DEF opcode_call, OtherInstruction
<1>5. opcode_ret => opcode_reti \/ OtherInstruction
    BY DEF opcode_ret, OtherInstruction
<1> QED
    BY <1>1, <1>2, <1>3, <1>4, <1>5 DEF Run, Instruction

\* Every step of the program is one of CpuStep, or none.
LEMMA Refines == [ProgramNext]_allVars => [Next]_vars
<1>1. UNCHANGED allVars => UNCHANGED vars
    BY DEF allVars
<1>2. DispatchHigh \/ DispatchLow \/ DispatchJump => handle_interrupt
    BY DEF DispatchHigh, DispatchLow, DispatchJump, handle_interrupt
<1>3. FetchOpcode => handle_interrupt \/ Fetch
    BY DEF FetchOpcode, handle_interrupt
<1>4. (ProcessEvents \/ CheckInterrupts \/ Wait1 \/ Wait2 \/ IdleHalted) => Next
    BY DEF Next, handle_interrupt
<1> QED
    BY <1>1, <1>2, <1>3, <1>4, RunIsInstruction DEF ProgramNext, Next

\* The CPU with PC, SP and a stack does only what the step of CpuStep does, so
\* that what is proved of the one holds of the other.
THEOREM ProgramImplementsStep == ProgramSpec => Init /\ [][Next]_vars
    BY Refines, PTL DEF ProgramSpec, ProgramInit

\* The same of the step of a CPU with PC, SP and a stack: what it pushes and
\* pops gives a program no other way to run over a pending interrupt, to cancel
\* a dispatch or to make the halt flags disagree.
THEOREM ProgramStepCorrect == ProgramSpec => [](InstructionMasked /\ CancelOnlyByPush /\ HaltFlagsAgree)
<1>1. IInv => InstructionMasked /\ CancelOnlyByPush /\ HaltFlagsAgree
    BY DEF IInv, TypeOK, EiKept, InstructionMasked, ime_on, Safe
<1> QED
    BY <1>1, ProgramImplementsStep, InitIInv, NextStep, PTL

----------------------------------------------------------------------------
(* What the writes of a push leave of memory and frames *)

\* A byte stored leaves the rest of memory.
LEMMA StoredKeeps ==
    ASSUME memory \in [Ram -> Bytes \cup {Unknown}], NEW a \in Addresses, NEW byte \in Bytes \cup {Unknown}
    PROVE  /\ Stored(memory, a, byte) \in [Ram -> Bytes \cup {Unknown}]
           /\ a \in Ram => Stored(memory, a, byte)[a] = byte
           /\ \A b \in Ram : b # a => Stored(memory, a, byte)[b] = memory[b]
    BY DEF Stored

\* The first state.
LEMMA InitFlow == ProgramInit => FlowInv
<1> SUFFICES ASSUME ProgramInit PROVE FlowInv
    OBVIOUS
<1>1. Entry \in Addresses /\ StackTop \in Addresses
    BY ProgramConstants
<1>2. FlowTypes
    BY <1>1, Pointers DEF ProgramInit, FlowTypes
<1> QED
    BY <1>2 DEF ProgramInit, Init, FlowInv, Prefetched, FramesHeld, HalfPushed, Returning

\* Steps that touch nothing of the flow
LEMMA IdleFlow ==
    FlowInv /\ (ProcessEvents \/ CheckInterrupts \/ Wait1 \/ Wait2 \/ IdleHalted) /\ UNCHANGED flowVars
        => FlowInv'
<1> SUFFICES ASSUME FlowInv, ProcessEvents \/ CheckInterrupts \/ Wait1 \/ Wait2 \/ IdleHalted, UNCHANGED flowVars
             PROVE  FlowInv'
    OBVIOUS
<1>1. phase \notin {"Fetch", "FetchVector"} /\ phase' # "PushLow"
    BY DEF ProcessEvents, CheckInterrupts, Wait1, Wait2, IdleHalted
<1>2. FlowTypes' /\ FramesHeld'
    BY DEF FlowInv, FlowTypes, FramesHeld, InMemory, flowVars
<1>3. Prefetched' /\ HalfPushed' /\ Returning'
    BY <1>1 DEF FlowInv, Prefetched, HalfPushed, Returning, flowVars
<1> QED
    BY <1>2, <1>3 DEF FlowInv

\* The first push of a dispatch keeps the flow.
LEMMA HighFlow == FlowInv /\ DispatchHigh => FlowInv'
<1> SUFFICES ASSUME FlowInv, DispatchHigh PROVE FlowInv'
    OBVIOUS
<1> DEFINE byte == get_high(opcode_at)
<1>1. phase = "PushHigh" /\ phase' = "PushLow"
    BY DEF DispatchHigh, PushHigh
<1>2. reg_sp' = dec(reg_sp) /\ reg_sp' \in Addresses
    BY Pointers DEF DispatchHigh, PushByte, FlowInv, FlowTypes
<1>3. memory' = Stored(memory, reg_sp', byte) /\ byte \in Bytes
    BY <1>1, Pointers, Words DEF DispatchHigh, PushByte, FlowInv, FlowTypes, Prefetched, interrupted_pc
<1>4. FlowTypes'
    BY <1>2, <1>3, StoredKeeps DEF DispatchHigh, FlowInv, FlowTypes, Intact
<1>5. FramesHeld'
    BY <1>2, <1>3, StoredKeeps DEF DispatchHigh, FlowInv, FlowTypes, FramesHeld, InMemory, Intact
<1>6. HalfPushed'
    BY <1>2, <1>3, StoredKeeps DEF DispatchHigh, FlowInv, FlowTypes, HalfPushed
<1>7. Prefetched' /\ Returning'
    BY <1>1 DEF DispatchHigh, FlowInv, Prefetched, Returning
<1> QED
    BY <1>4, <1>5, <1>6, <1>7 DEF FlowInv

\* The second push of a dispatch, which completes a frame.
LEMMA LowFlow == FlowInv /\ DispatchLow => FlowInv'
<1> SUFFICES ASSUME FlowInv, DispatchLow PROVE FlowInv'
    OBVIOUS
<1> DEFINE byte == get_low(opcode_at)
<1>1. phase = "PushLow" /\ phase' = "Jump"
    BY DEF DispatchLow, PushLow
<1>2. reg_sp' \in Addresses /\ inc(reg_sp') = reg_sp
    BY Pointers DEF DispatchLow, PushByte, FlowInv, FlowTypes
<1>3. memory' = Stored(memory, reg_sp', byte) /\ byte \in Bytes
    BY <1>1, Pointers, Words DEF DispatchLow, PushByte, FlowInv, FlowTypes, Prefetched, interrupted_pc
<1>4. memory' \in [Ram -> Bytes \cup {Unknown}] /\ (reg_sp' \in Ram => memory'[reg_sp'] = byte)
      /\ \A b \in Ram : b # reg_sp' => memory'[b] = memory[b]
    BY <1>2, <1>3, StoredKeeps DEF FlowInv, FlowTypes
<1>5. frames' \subseteq Intact(frames, reg_sp') \cup {[at |-> reg_sp', back |-> opcode_at]}
    BY DEF DispatchLow, Framed
<1>6. FlowTypes'
    BY <1>2, <1>4, <1>5 DEF DispatchLow, FlowInv, FlowTypes, Intact
<1>7. ASSUME NEW f \in frames' PROVE InMemory(f)'
  <2>1. CASE f \in Intact(frames, reg_sp')
    BY <1>4, <2>1 DEF Intact, FlowInv, FramesHeld, InMemory
  <2>2. CASE f = [at |-> reg_sp', back |-> opcode_at] /\ f \notin Intact(frames, reg_sp')
    <3>1. reg_sp' \in Ram /\ reg_sp \in Ram
      BY <1>2, <2>2 DEF DispatchLow, Framed
    <3>2. reg_sp # reg_sp'
      BY <1>2, <3>1, Pointers, ProgramConstants DEF Addresses
    <3>3. memory'[reg_sp] = get_high(opcode_at)
      BY <1>1, <1>4, <3>1, <3>2 DEF FlowInv, HalfPushed
    <3> QED
      BY <1>2, <1>4, <2>2, <3>1, <3>3 DEF InMemory
  <2> QED
    BY <1>5, <2>1, <2>2
<1>8. Prefetched' /\ HalfPushed' /\ Returning'
    BY <1>1 DEF DispatchLow, FlowInv, Prefetched, HalfPushed, Returning
<1> QED
    BY <1>6, <1>7, <1>8 DEF FlowInv, FramesHeld

\* The jump to the vector.
LEMMA JumpFlow == FlowInv /\ IInv /\ DispatchJump => FlowInv'
<1> SUFFICES ASSUME FlowInv, IInv, DispatchJump PROVE FlowInv'
    OBVIOUS
<1>1. phase = "Jump" /\ phase' = "FetchVector"
    BY DEF DispatchJump, Jump
<1>2. reg_pc' \in Addresses
    BY ProgramConstants DEF DispatchJump, IInv, TypeOK
<1>3. FlowTypes' /\ FramesHeld'
    BY <1>2 DEF DispatchJump, FlowInv, FlowTypes, FramesHeld, InMemory
<1>4. Prefetched' /\ HalfPushed' /\ Returning'
    BY <1>1 DEF DispatchJump, FlowInv, Prefetched, HalfPushed, Returning
<1> QED
    BY <1>3, <1>4 DEF FlowInv

\* The fetch after it.
LEMMA FetchFlow == FlowInv /\ FetchOpcode => FlowInv'
<1> SUFFICES ASSUME FlowInv, FetchOpcode PROVE FlowInv'
    OBVIOUS
<1>1. phase' # "PushLow"
    BY DEF FetchOpcode, FetchVector, Fetch
<1>2. FlowTypes' /\ FramesHeld'
    BY Pointers DEF FetchOpcode, FlowInv, FlowTypes, FramesHeld, InMemory
<1>3. Prefetched' /\ HalfPushed' /\ Returning'
    BY <1>1 DEF FetchOpcode, FlowInv, Prefetched, HalfPushed, Returning
<1> QED
    BY <1>2, <1>3 DEF FlowInv

----------------------------------------------------------------------------
(* The instructions *)

\* An instruction is executed in one phase.
LEMMA RunPhase == Run => phase = "Exec" /\ phase' = "Fetch"
<1>1. Instruction => phase = "Exec" /\ phase' = "Fetch"
    BY DEF Instruction, opcode_ei, opcode_di, opcode_reti, opcode_halt, OtherInstruction, Ordinary, Execute
<1> QED
    BY <1>1, RunIsInstruction

\* What is left to show of an instruction that is not a return
LEMMA Onward ==
    ASSUME FlowInv, Run, UNCHANGED <<opcode_at, returning>>, reg_pc' \in Addresses, reg_sp' \in Addresses,
           memory' \in [Ram -> Bytes \cup {Unknown}], frames' \subseteq [at : Addresses, back : Addresses],
           FramesHeld'
    PROVE  FlowInv'
<1>1. returning = Nowhere
    BY RunPhase DEF FlowInv, Returning
<1> QED
    BY <1>1, RunPhase DEF FlowInv, FlowTypes, Prefetched, HalfPushed, Returning

\* An instruction without a jump.
LEMMA StraightFlow == FlowInv /\ Straight => FlowInv'
<1> SUFFICES ASSUME FlowInv, Straight PROVE FlowInv'
    OBVIOUS
<1>1. reg_pc' \in Addresses
    BY ProgramConstants DEF Straight
<1>2. FramesHeld'
    BY DEF Straight, FlowInv, FramesHeld, InMemory
<1> QED
    BY <1>1, <1>2, Onward DEF Run, Straight, FlowInv, FlowTypes

\* One that writes over a return address.
LEMMA OverwriteFlow == FlowInv /\ Overwrite => FlowInv'
<1> SUFFICES ASSUME FlowInv, Overwrite PROVE FlowInv'
    OBVIOUS
<1>1. PICK f \in frames : /\ frames' = Intact(Intact(frames, f.at), inc(f.at))
                          /\ memory' = [memory EXCEPT ![f.at] = Unknown, ![inc(f.at)] = Unknown]
    BY DEF Overwrite
<1>2. memory' \in [Ram -> Bytes \cup {Unknown}] /\ frames' \subseteq [at : Addresses, back : Addresses]
    BY <1>1 DEF FlowInv, FlowTypes, Intact
<1>3. \A b \in Ram \ {f.at, inc(f.at)} : memory'[b] = memory[b]
    BY <1>1 DEF FlowInv, FlowTypes
<1>4. FramesHeld'
    BY <1>1, <1>3 DEF FlowInv, FramesHeld, InMemory, Intact
<1> QED
    BY <1>2, <1>4, Onward DEF Run, Overwrite, FlowInv, FlowTypes

\* A jump.
LEMMA JpFlow == FlowInv /\ opcode_jp => FlowInv'
<1> SUFFICES ASSUME FlowInv, opcode_jp PROVE FlowInv'
    OBVIOUS
<1>1. reg_pc' \in Addresses
    BY ProgramConstants DEF opcode_jp
<1>2. FramesHeld'
    BY DEF opcode_jp, FlowInv, FramesHeld, InMemory
<1> QED
    BY <1>1, <1>2, Onward DEF Run, opcode_jp, FlowInv, FlowTypes

\* SP moved, and the frames below it forgotten.
LEMMA LoadSpFlow == FlowInv /\ LoadSp => FlowInv'
<1> SUFFICES ASSUME FlowInv, LoadSp PROVE FlowInv'
    OBVIOUS
<1>1. reg_sp' \in Addresses
    BY ProgramConstants DEF LoadSp
<1>2. memory' \in [Ram -> Bytes \cup {Unknown}] /\ \A b \in Ram : b >= reg_sp' => memory'[b] = memory[b]
    BY DEF LoadSp, FlowInv, FlowTypes
<1>3. ASSUME NEW f \in frames' PROVE InMemory(f)'
  <2>1. f \in frames /\ f.at >= reg_sp' /\ InMemory(f)
    BY DEF LoadSp, FlowInv, FramesHeld
  <2>2. f.at \in Addresses /\ f.at # IeAddress
    BY <2>1, ProgramConstants DEF InMemory
  <2>3. inc(f.at) = f.at + 1
    BY <2>2, Pointers
  <2>4. inc(f.at) >= reg_sp'
    BY <1>1, <2>1, <2>2, <2>3 DEF Addresses
  <2> QED
    BY <1>2, <2>1, <2>4 DEF InMemory
<1> QED
    BY <1>1, <1>2, <1>3, Onward DEF Run, LoadSp, FlowInv, FlowTypes, FramesHeld

\* The two stores of a push, and the frames they leave
LEMMA PushFlow ==
    ASSUME FlowInv, NEW high \in Bytes \cup {Unknown}, NEW low \in Bytes \cup {Unknown},
           reg_sp' = dec(dec(reg_sp)), memory' = Pushed(dec(reg_sp), high, low)
    PROVE  /\ reg_sp' \in Addresses /\ inc(reg_sp') = dec(reg_sp)
           /\ memory' \in [Ram -> Bytes \cup {Unknown}]
           /\ reg_sp' \in Ram /\ inc(reg_sp') \in Ram
                 => memory'[reg_sp'] = low /\ memory'[inc(reg_sp')] = high
           /\ \A b \in Ram \ {reg_sp', dec(reg_sp)} : memory'[b] = memory[b]
           /\ Intact(Intact(frames, dec(reg_sp)), reg_sp') \subseteq [at : Addresses, back : Addresses]
           /\ \A f \in Intact(Intact(frames, dec(reg_sp)), reg_sp') : InMemory(f)'
<1> DEFINE upper == dec(reg_sp)
           lower == dec(upper)
           middle == Stored(memory, upper, high)
<1>1. upper \in Addresses /\ lower \in Addresses /\ inc(lower) = upper
    BY Pointers DEF FlowInv, FlowTypes
<1>2. middle \in [Ram -> Bytes \cup {Unknown}] /\ (upper \in Ram => middle[upper] = high)
      /\ \A b \in Ram : b # upper => middle[b] = memory[b]
    BY <1>1, StoredKeeps DEF FlowInv, FlowTypes
<1>3. memory' = IF lower \in Ram THEN [middle EXCEPT ![lower] = low] ELSE middle
    BY DEF Pushed, Stored
<1>4. memory' \in [Ram -> Bytes \cup {Unknown}] /\ (lower \in Ram => memory'[lower] = low)
      /\ \A b \in Ram : b # lower => memory'[b] = middle[b]
    BY <1>2, <1>3
<1>5. lower \in Ram /\ upper \in Ram => lower # upper
    BY <1>1, Pointers, ProgramConstants DEF Addresses
<1>6. \A b \in Ram \ {lower, upper} : memory'[b] = memory[b]
    BY <1>2, <1>4
<1>7. \A f \in Intact(Intact(frames, upper), lower) : InMemory(f)'
    BY <1>6 DEF Intact, FlowInv, FramesHeld, InMemory
<1>8. Intact(Intact(frames, upper), lower) \subseteq [at : Addresses, back : Addresses]
    BY DEF Intact, FlowInv, FlowTypes
<1> QED
    BY <1>1, <1>2, <1>4, <1>5, <1>6, <1>7, <1>8

\* PUSH.
LEMMA OpcodePushFlow == FlowInv /\ opcode_push => FlowInv'
<1> SUFFICES ASSUME FlowInv, opcode_push PROVE FlowInv'
    OBVIOUS
<1>1. reg_sp' = dec(dec(reg_sp)) /\ memory' = Pushed(dec(reg_sp), Unknown, Unknown)
    BY DEF opcode_push, PushWord
<1>2. frames' = Intact(Intact(frames, dec(reg_sp)), reg_sp')
    BY DEF opcode_push
<1> QED
    BY <1>1, <1>2, PushFlow, Onward DEF Run, opcode_push, FlowInv, FlowTypes, FramesHeld

\* CALL and RST, which make a frame.
LEMMA CallFlow == FlowInv /\ opcode_call => FlowInv'
<1> SUFFICES ASSUME FlowInv, opcode_call PROVE FlowInv'
    OBVIOUS
<1>1. PICK back \in CodeArea :
        /\ reg_sp' = dec(dec(reg_sp)) /\ reg_pc' \in Targets
        /\ memory' = Pushed(dec(reg_sp), get_high(back), get_low(back))
        /\ frames' = Framed(Intact(Intact(frames, dec(reg_sp)), reg_sp'), reg_sp', back)
    BY DEF opcode_call, PushWord
<1>2. back \in Addresses /\ reg_pc' \in Addresses
    BY <1>1, ProgramConstants
<1>3. get_high(back) \in Bytes /\ get_low(back) \in Bytes
    BY <1>2, Words
<1>4. PICK at : at = reg_sp'
    OBVIOUS
<1> DEFINE kept == Intact(Intact(frames, dec(reg_sp)), at)
           new == [at |-> at, back |-> back]
<1>5. /\ at \in Addresses /\ memory' \in [Ram -> Bytes \cup {Unknown}]
      /\ kept \subseteq [at : Addresses, back : Addresses] /\ \A f \in kept : InMemory(f)'
      /\ at \in Ram /\ inc(at) \in Ram
            => memory'[at] = get_low(back) /\ memory'[inc(at)] = get_high(back)
    BY <1>1, <1>3, <1>4, PushFlow
<1>6. frames' = IF {at, inc(at)} \subseteq Ram THEN kept \cup {new} ELSE kept
    BY <1>1, <1>4 DEF Framed
<1>7. frames' \subseteq [at : Addresses, back : Addresses]
    BY <1>2, <1>5, <1>6
<1>8. at \in Ram /\ inc(at) \in Ram => InMemory(new)'
    BY <1>5 DEF InMemory
<1>9. FramesHeld'
    BY <1>5, <1>6, <1>8 DEF FramesHeld
<1> QED
    BY <1>2, <1>4, <1>5, <1>7, <1>9, Onward DEF Run, opcode_call

\* What popping a word does to memory and frames.
LEMMA PopFlow ==
    ASSUME FlowInv, Pop
    PROVE  /\ reg_sp' \in Addresses /\ memory' \in [Ram -> Bytes \cup {Unknown}]
           /\ frames' \subseteq [at : Addresses, back : Addresses] /\ FramesHeld'
<1>1. reg_sp' \in Addresses
    BY Pointers DEF Pop, FlowInv, FlowTypes
<1>2. memory' \in [Ram -> Bytes \cup {Unknown}] /\ \A b \in Ram \ {reg_sp, inc(reg_sp)} : memory'[b] = memory[b]
    BY DEF Pop, Forget, FlowInv, FlowTypes
<1>3. frames' \subseteq frames /\ \A f \in frames' : {f.at, inc(f.at)} \cap {reg_sp, inc(reg_sp)} = {}
    BY DEF Pop, Intact
<1>4. \A f \in frames' : InMemory(f)'
    BY <1>2, <1>3 DEF FlowInv, FramesHeld, InMemory
<1>5. frames' \subseteq [at : Addresses, back : Addresses]
    BY <1>3 DEF FlowInv, FlowTypes
<1> QED
    BY <1>1, <1>2, <1>4, <1>5 DEF FramesHeld

\* POP.
LEMMA OpcodePopFlow == FlowInv /\ opcode_pop => FlowInv'
<1> SUFFICES ASSUME FlowInv, opcode_pop PROVE FlowInv'
    OBVIOUS
<1> QED
    BY PopFlow, Onward DEF Run, opcode_pop, Pop, FlowInv, FlowTypes

\* RET and RETI, which use a frame.
LEMMA RetFlow == FlowInv /\ opcode_ret => FlowInv'
<1> SUFFICES ASSUME FlowInv, opcode_ret PROVE FlowInv'
    OBVIOUS
<1>1. phase' = "Fetch"
    BY RunPhase DEF Run
<1>2. reg_pc' \in Addresses
  <2>1. reg_pc' \in Popped
    BY DEF opcode_ret
  <2>2. CASE Popped = Targets
    BY <2>1, <2>2, ProgramConstants
  <2>3. CASE Popped # Targets
    <3>1. /\ reg_pc' = value(memory[inc(reg_sp)], memory[reg_sp])
          /\ memory[inc(reg_sp)] \in Bytes /\ memory[reg_sp] \in Bytes
      BY <2>1, <2>3 DEF Popped, FlowInv, FlowTypes
    <3> QED
      BY <3>1, ReadWord
  <2> QED
    BY <2>2, <2>3
<1>3. returning' # Nowhere => reg_pc' = returning'
  <2>1. SUFFICES ASSUME returning' # Nowhere PROVE reg_pc' = returning'
    OBVIOUS
  <2>2. PICK f \in frames : f.at = reg_sp /\ returning' = f.back
    BY <2>1 DEF opcode_ret
  <2>3. /\ reg_sp \in Ram /\ inc(reg_sp) \in Ram /\ f.back \in Addresses
        /\ memory[reg_sp] = get_low(f.back) /\ memory[inc(reg_sp)] = get_high(f.back)
    BY <2>2 DEF FlowInv, FlowTypes, FramesHeld, InMemory
  <2>4. Unknown \notin {memory[reg_sp], memory[inc(reg_sp)]}
    BY <2>3, Words DEF Bytes, Unknown
  <2>5. reg_pc' = value(get_high(f.back), get_low(f.back))
    BY <2>3, <2>4 DEF opcode_ret, Popped
  <2> QED
    BY <2>2, <2>3, <2>5, Words
<1>4. FlowTypes' /\ FramesHeld'
    BY <1>2, PopFlow DEF opcode_ret, Pop, FlowInv, FlowTypes
<1> QED
    BY <1>1, <1>3, <1>4 DEF FlowInv, Prefetched, HalfPushed, Returning

\* Every step keeps the flow.
LEMMA FlowStep == FlowInv /\ IInv /\ [ProgramNext]_allVars => FlowInv'
<1>1. FlowInv /\ UNCHANGED allVars => FlowInv'
    BY DEF FlowInv, FlowTypes, Prefetched, FramesHeld, InMemory, HalfPushed, Returning, allVars, vars, flowVars
<1>2. FlowInv /\ Run => FlowInv'
    BY StraightFlow, OverwriteFlow, JpFlow, LoadSpFlow, OpcodePushFlow, CallFlow, OpcodePopFlow, RetFlow DEF Run
<1> QED
    BY <1>1, <1>2, IdleFlow, HighFlow, LowFlow, JumpFlow, FetchFlow DEF ProgramNext

\* A RET or RETI whose return address is intact continues where the CALL, the
\* RST or the interrupt left, for any size of memory and any nesting.
THEOREM ReturnsCorrect == ProgramSpec => ReturnsWhereLeft
<1>1. FlowInv /\ [ProgramNext]_allVars => [phase = "Fetch" /\ returning # Nowhere => opcode_at' = returning]_allVars
  <2> SUFFICES ASSUME FlowInv, ProgramNext, phase = "Fetch", returning # Nowhere PROVE opcode_at' = returning
    OBVIOUS
  <2>1. ~Run
    BY RunPhase
  <2>2. ~(ProcessEvents \/ CheckInterrupts \/ Wait1 \/ Wait2 \/ IdleHalted)
    BY DEF ProcessEvents, CheckInterrupts, Wait1, Wait2, IdleHalted
  <2>3. ~(DispatchHigh \/ DispatchLow \/ DispatchJump)
    BY DEF DispatchHigh, DispatchLow, DispatchJump, Jump
  <2>4. FetchOpcode
    BY <2>1, <2>2, <2>3 DEF ProgramNext
  <2> QED
    BY <2>4 DEF FetchOpcode, FlowInv, Returning
<1>2. ProgramInit => IInv
    BY InitIInv DEF ProgramInit
<1>3. IInv /\ [ProgramNext]_allVars => IInv'
    BY Refines, NextStep
<1> QED
    BY <1>1, <1>2, <1>3, InitFlow, FlowStep, PTL DEF ProgramSpec, ReturnsWhereLeft
============================================================================
