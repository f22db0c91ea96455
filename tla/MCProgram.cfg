CONSTANTS
    Interrupts <- const_Interrupts
    Joypad = 1
    Base = 4
    Ram <- const_Ram
    IfAddress = 9
    Vector <- const_Vector
    Entry = 0
    StackTop = 14
    CodeArea <- const_CodeArea
    Targets <- const_Targets
    Stacks <- const_Stacks
SPECIFICATION ProgramSpec
INVARIANTS InstructionMasked CancelOnlyByPush
PROPERTIES RequestsKept ReturnsWhereLeft HaltEnds
