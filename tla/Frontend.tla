------------------------------ MODULE Frontend ------------------------------
(***************************************************************************)
(* The threads of the program and the channels between them: the UI loop   *)
(* of bin.rs and lib.rs (state_idle, state_running), the emulator thread   *)
(* (run_emulator, Gameboy::run, the vsync and sound sends, process_events) *)
(* and the audio callback.  The save file is written in two steps, since   *)
(* fs::write truncates it before it writes; quitting ends the process, and *)
(* with it the emulator thread, wherever that thread is.  The emulator      *)
(* thread may panic: a release build aborts the process then, any other    *)
(* loses the thread and keeps the window.                                  *)
(*                                                                         *)
(* The emulated machine is abstracted to what the other threads see of it: *)
(* the frames it sends, the buttons it reads, the version of the cartridge *)
(* RAM (ram, a counter of its changes), whether its LCD is on, and that it *)
(* may panic.                                                              *)
(* A definition Op_Fault is Op with a plausible mistake in it; nothing     *)
(* uses it.                                                                *)
(***************************************************************************)
EXTENDS Integers, SequencesExt

CONSTANTS
    Roms,          \* the ROM files the user can drop on the window
    Buttons,       \* the buttons of GbButton in use
    Left, Right,   \* the two buttons of the controller's axis
    InputCap,      \* 10, capacity of the input channel
    FrameCap,      \* 1, capacity of the frame channel
    SoundCap,      \* 1, capacity of the sound channel
    MaxBatch,      \* bound: input events sent in one pass over the event pump
    MaxRam         \* bound: changes of the cartridge RAM

ASSUME FrontendConstants ==
    /\ InputCap \in Nat \ {0} /\ FrameCap \in Nat \ {0} /\ SoundCap \in Nat \ {0}
    /\ MaxBatch \in Nat /\ MaxRam \in Nat
    /\ Left \in Buttons /\ Right \in Buttons

Torn == -1     \* a save file, or a RAM read from one, that is cut short

VARIABLES
    release,       \* the build: released (panic = "abort", no debug_assert) or not
    ui,            \* where the UI thread is
    batch,         \* input events sent in this pass over the event pump
    to_send,       \* input events of the UI event being handled
    next_rom,      \* the ROM to load, while joining
    input,         \* the input channel
    frames,        \* the frame channel: the ROM each frame is of
    frame_recv,    \* whether the receiving end of the frame channel exists
    sound,         \* sample blocks in the sound channel
    emu,           \* where the emulator thread is
    rom, ram, lcd, \* the emulated machine
    sound_due,     \* the sound block of this frame is still to be sent
    events,        \* event_bits
    buttons,
    disk,          \* the save file of each ROM
    keys,          \* history: the buttons as the UI has reported them
    told,          \* history: the buttons it has reported since this machine started
    saved,         \* history: the last complete save of each ROM
    cut            \* history: the ROMs whose save the process ended inside of

uiVars == <<release, ui, batch, to_send, next_rom, keys, told>>
channelVars == <<input, frames, frame_recv, sound>>
emuVars == <<emu, rom, ram, lcd, sound_due, events, buttons>>
fileVars == <<disk, saved, cut>>
vars == <<uiVars, channelVars, emuVars, fileVars>>

NoRom == "none"
InputEvents == [button : Buttons, down : BOOLEAN]
Released == [b \in Buttons |-> FALSE]
Ram == {Torn} \cup 0 .. MaxRam

TypeOK ==
    /\ release \in BOOLEAN
    /\ ui \in {"Idle", "Poll", "Send", "Recv", "Join", "Exited"}
    /\ batch \in 0 .. MaxBatch
    /\ to_send \in Seq(InputEvents) /\ Len(to_send) <= 2
    /\ next_rom \in Roms \cup {NoRom}
    /\ input \in Seq(InputEvents) /\ Len(input) <= InputCap
    /\ frames \in Seq(Roms) /\ Len(frames) <= FrameCap
    /\ frame_recv \in BOOLEAN
    /\ sound \in 0 .. SoundCap
    /\ emu \in {"None", "Boot", "Run", "Sound", "VSync", "Save", "Saving",
                "Close", "Closing", "Done", "Dead"}
    /\ rom \in Roms \cup {NoRom}
    /\ ram \in Ram
    /\ lcd \in BOOLEAN /\ sound_due \in BOOLEAN
    /\ events \subseteq {"VSync", "VSyncAndExit"}
    /\ buttons \in [Buttons -> BOOLEAN] /\ keys \in [Buttons -> BOOLEAN]
    /\ told \subseteq Buttons /\ cut \subseteq Roms
    /\ disk \in [Roms -> Ram] /\ saved \in [Roms -> Ram \ {Torn}]

----------------------------------------------------------------------------
\* main() without an argument, on a disk without saves: RAM starts at 0.
Init ==
    /\ release \in BOOLEAN
    /\ ui = "Idle" /\ batch = 0 /\ to_send = <<>> /\ next_rom = NoRom
    /\ input = <<>> /\ frames = <<>> /\ frame_recv = TRUE /\ sound = 0
    /\ emu = "None" /\ rom = NoRom /\ ram = 0 /\ lcd = TRUE /\ sound_due = TRUE
    /\ events = {} /\ buttons = Released /\ keys = Released /\ told = {}
    /\ disk = [r \in Roms |-> 0] /\ saved = disk /\ cut = {}

Writing(r) == r = rom /\ emu \in {"Saving", "Closing"}

\* The memory of the process is gone; only the save files are left, and the
\* one being written is left as it is.
Forget ==
    /\ batch' = 0 /\ to_send' = <<>> /\ next_rom' = NoRom
    /\ input' = <<>> /\ frames' = <<>> /\ frame_recv' = TRUE /\ sound' = 0
    /\ emu' = "None" /\ rom' = NoRom /\ ram' = 0 /\ lcd' = TRUE /\ sound_due' = TRUE
    /\ events' = {} /\ buttons' = Released /\ keys' = Released /\ told' = {}
    /\ cut' = cut \cup {r \in Roms : Writing(r)}
    /\ UNCHANGED <<disk, saved>>

\* The process ends: main() returns or panics, or any thread of a release
\* build does.  Every thread dies where it is.
ProcessEnds == ui' = "Exited" /\ Forget /\ UNCHANGED release

----------------------------------------------------------------------------
(* The UI thread *)

\* run_emulator(): a new thread with an input channel of its own.  What the
\* UI has reported before is not reported again.
run_emulator(r) ==
    /\ emu' = "Boot" /\ rom' = r
    /\ input' = <<>>
    /\ buttons' = Released /\ told' = {} /\ UNCHANGED <<keys, release>>
    /\ events' = {} /\ ram' = 0 /\ lcd' = TRUE /\ sound_due' = TRUE
    /\ ui' = "Poll" /\ batch' = 0 /\ to_send' = <<>> /\ next_rom' = NoRom

\* DropFile in state_idle()
LoadFirst ==
    /\ ui = "Idle"
    /\ \E r \in Roms : run_emulator(r)
    /\ UNCHANGED <<frames, frame_recv, sound, fileVars>>

\* DropFile in state_running(): drop the receiver, then wait for the thread.
LoadNext ==
    /\ ui = "Poll"
    /\ ui' = "Join"
    /\ next_rom' \in Roms
    /\ frame_recv' = FALSE /\ batch' = 0
    /\ UNCHANGED <<release, to_send, input, frames, sound, emuVars, fileVars, keys, told>>

NewFrameChannel == frames' = <<>> /\ frame_recv' = TRUE

\* join() returns when the thread is over, whether it ended or panicked.
Join ==
    /\ ui = "Join" /\ emu \in {"Done", "Dead"}
    /\ NewFrameChannel
    /\ run_emulator(next_rom)
    /\ UNCHANGED <<sound, fileVars>>

\* Quit: main() returns.
Quit == ui \in {"Idle", "Poll"} /\ ProcessEnds

\* The user starts the program again, of either build.
Relaunch == ui = "Exited" /\ ui' = "Idle" /\ Forget /\ release' \in BOOLEAN

\* One input event of the event pump is about to be sent ...
KeyEvent ==
    /\ ui = "Poll" /\ batch + 1 <= MaxBatch
    /\ \E e \in InputEvents :
          /\ to_send' = <<e>>
          /\ keys' = [keys EXCEPT ![e.button] = e.down]
          /\ told' = told \cup {e.button}
    /\ ui' = "Send" /\ batch' = batch + 1
    /\ UNCHANGED <<release, next_rom, channelVars, emuVars, fileVars>>

\* ... or two, for a motion of the axis: beyond the dead zone on one side at most.
AxisEvent ==
    /\ ui = "Poll" /\ batch + 2 <= MaxBatch
    /\ \E neg, pos \in BOOLEAN :
          /\ ~(neg /\ pos)
          /\ to_send' = <<[button |-> Left, down |-> neg], [button |-> Right, down |-> pos]>>
          /\ keys' = [keys EXCEPT ![Left] = neg, ![Right] = pos]
    /\ told' = told \cup {Left, Right}
    /\ ui' = "Send" /\ batch' = batch + 2
    /\ UNCHANGED <<release, next_rom, channelVars, emuVars, fileVars>>

\* input_send.send(): blocks while the channel is full.
SendInput ==
    /\ ui = "Send" /\ emu # "Dead" /\ Len(input) < InputCap
    /\ input' = Append(input, Head(to_send))
    /\ to_send' = Tail(to_send)
    /\ ui' = IF Len(to_send) = 1 THEN "Poll" ELSE "Send"
    /\ UNCHANGED <<release, batch, next_rom, keys, told, frames, frame_recv, sound, emuVars, fileVars>>

\* send() fails, also one that blocks, once the emulator thread is dead and
\* has dropped the receiver: unwrap() panics in the main thread.
SendFails == ui = "Send" /\ emu = "Dead" /\ ProcessEnds

\* The event pump is empty.
PollEnds ==
    /\ ui = "Poll" /\ ui' = "Recv"
    /\ UNCHANGED <<release, batch, to_send, next_rom, keys, told, channelVars, emuVars, fileVars>>

\* frame_recv.recv(): blocks while there is no frame.  It never fails, since
\* main() keeps a sender of its own.
RecvFrame ==
    /\ ui = "Recv" /\ frames # <<>>
    /\ frames' = Tail(frames)
    /\ ui' = "Poll" /\ batch' = 0
    /\ UNCHANGED <<release, to_send, next_rom, keys, told, input, frame_recv, sound, emuVars, fileVars>>

----------------------------------------------------------------------------
(* The audio thread: each callback takes a block, or times out. *)

Callback ==
    /\ sound > 0
    /\ sound' = sound - 1
    /\ UNCHANGED <<uiVars, input, frames, frame_recv, emuVars, fileVars>>

----------------------------------------------------------------------------
(* The emulator thread *)

\* A panic of the emulator thread: without an abort the thread dies, and drops
\* the machine and the receiving end of its input channel.
Panic ==
    \/ release /\ ProcessEnds
    \/ /\ ~release /\ emu' = "Dead"
       /\ input' = <<>> /\ buttons' = Released
       /\ events' = {} /\ ram' = 0 /\ lcd' = TRUE /\ sound_due' = TRUE
       /\ UNCHANGED <<uiVars, frames, frame_recv, sound, rom, fileVars>>

\* Cartridge::new() and load() panic: the file cannot be read, is no ROM or
\* one that does not add up, or its save is short (debug_assert).
BootFails == emu = "Boot" /\ Panic

read_save_Ignored == ram' = 0
\* read_save(): whatever the file holds becomes the cartridge RAM; a release
\* build does not look at its length.
read_save == (disk[rom] = Torn => release) /\ ram' = disk[rom]

Boot ==
    /\ emu = "Boot" /\ emu' = "Run"
    /\ read_save
    /\ UNCHANGED <<uiVars, channelVars, rom, lcd, sound_due, events, buttons, fileVars>>

\* The program changes its RAM, or switches the LCD.
RunProgram ==
    /\ emu = "Run"
    /\ \/ ram \in 0 .. MaxRam - 1 /\ ram' = ram + 1 /\ UNCHANGED lcd
       \/ lcd' = ~lcd /\ UNCHANGED ram
    /\ UNCHANGED <<uiVars, channelVars, emu, rom, sound_due, events, buttons, fileVars>>

\* The machine panics: an undocumented opcode, a printer command or a RAM bank
\* it does not know, an access past the end of a short RAM.
RunFails == emu = "Run" /\ Panic

\* A block of samples is full; at most one per frame is.
SoundDue ==
    /\ emu = "Run" /\ sound_due
    /\ emu' = "Sound" /\ sound_due' = FALSE
    /\ UNCHANGED <<uiVars, channelVars, rom, ram, lcd, events, buttons, fileVars>>

\* sample_audio(): the send blocks while the channel is full.
SendSound ==
    /\ emu = "Sound" /\ sound < SoundCap
    /\ sound' = sound + 1
    /\ emu' = "Run"
    /\ UNCHANGED <<uiVars, input, frames, frame_recv, rom, ram, lcd, sound_due, events,
                   buttons, fileVars>>

\* The PPU reaches VBlank; only with the LCD on does it ever.
ReachVBlank ==
    /\ emu = "Run" /\ lcd /\ events = {}
    /\ emu' = "VSync"
    /\ UNCHANGED <<uiVars, channelVars, rom, ram, lcd, sound_due, events, buttons, fileVars>>

vsync_IgnoresDisconnect ==
    /\ emu = "VSync"
    /\ \/ frame_recv /\ Len(frames) < FrameCap /\ frames' = Append(frames, rom)
       \/ ~frame_recv /\ UNCHANGED frames
    /\ events' = {"VSync"}
    /\ emu' = "Run"
    /\ UNCHANGED <<uiVars, input, frame_recv, sound, rom, ram, lcd, sound_due, buttons, fileVars>>
\* vsync(): the send blocks while the channel is full, and fails once the
\* receiver is gone.
vsync ==
    /\ emu = "VSync"
    /\ \/ /\ frame_recv /\ Len(frames) < FrameCap
          /\ frames' = Append(frames, rom)
          /\ events' = {"VSync"}
       \/ /\ ~frame_recv
          /\ events' = {"VSync", "VSyncAndExit"}
          /\ UNCHANGED frames
    /\ emu' = "Run"
    /\ UNCHANGED <<uiVars, input, frame_recv, sound, rom, ram, lcd, sound_due, buttons, fileVars>>

Press(down, e) == [down EXCEPT ![e.button] = e.down]
Pressed(down, queue) == FoldLeft(Press, down, queue)

input_update_One ==
    IF input = <<>> THEN UNCHANGED <<input, buttons>>
    ELSE input' = Tail(input) /\ buttons' = Press(buttons, Head(input))
input_update_Reversed == input' = <<>> /\ buttons' = Pressed(buttons, Reverse(input))
\* try_recv() until the channel is empty
input_update == input' = <<>> /\ buttons' = Pressed(buttons, input)

AfterEvents_NoClose == IF "VSyncAndExit" \in events THEN "Done" ELSE "Run"
\* close() on the way out
AfterEvents == IF "VSyncAndExit" \in events THEN "Close" ELSE "Run"

\* process_events() after the step of the VSync: read the input, save if the
\* last save is old enough, close if the receiver is gone.
process_events ==
    /\ emu = "Run" /\ "VSync" \in events
    /\ input_update
    /\ \/ emu' = "Save" /\ UNCHANGED <<events, sound_due>>
       \/ /\ emu' = AfterEvents
          /\ events' = IF emu' = "Run" THEN {} ELSE events
          /\ sound_due' = TRUE
    /\ UNCHANGED <<uiVars, frames, frame_recv, sound, rom, ram, lcd, fileVars>>

\* write_save(): fs::write truncates the file, then writes it.
BeginSave ==
    /\ emu \in {"Save", "Close"}
    /\ emu' = IF emu = "Save" THEN "Saving" ELSE "Closing"
    /\ disk' = [disk EXCEPT ![rom] = Torn]
    /\ UNCHANGED <<saved, cut, uiVars, channelVars, rom, ram, lcd, sound_due, events, buttons>>

EndSave ==
    /\ emu \in {"Saving", "Closing"}
    /\ disk' = [disk EXCEPT ![rom] = ram]
    /\ saved' = IF ram = Torn THEN saved ELSE [saved EXCEPT ![rom] = ram]
    /\ emu' = IF emu = "Saving" THEN AfterEvents ELSE "Done"
    /\ events' = IF emu' = "Close" THEN events ELSE {}
    /\ sound_due' = TRUE
    /\ UNCHANGED <<cut, uiVars, channelVars, rom, ram, lcd, buttons>>

----------------------------------------------------------------------------
UiWaits == SendInput \/ SendFails \/ RecvFrame \/ Join
Ui == LoadFirst \/ LoadNext \/ Quit \/ Relaunch \/ KeyEvent \/ AxisEvent \/ PollEnds \/ UiWaits

EmuWorks == Boot \/ BootFails \/ SendSound \/ vsync \/ process_events \/ BeginSave \/ EndSave
Emulator == RunProgram \/ RunFails \/ SoundDue \/ ReachVBlank \/ EmuWorks

Next == Ui \/ Callback \/ Emulator

\* Every thread is scheduled; the event pump runs empty; the audio device
\* calls back; a program that leaves its LCD on gets to the end of a frame.
Fairness ==
    /\ WF_vars(UiWaits) /\ WF_vars(PollEnds)
    /\ WF_vars(Callback)
    /\ WF_vars(EmuWorks) /\ WF_vars(ReachVBlank)

Spec == Init /\ [][Next]_vars /\ Fairness

----------------------------------------------------------------------------
(* Properties *)

\* The UI never waits for room in the input channel while the emulator waits
\* for room in the frame channel: each would wait for the other for ever.
NoCircularWait ==
    ~ /\ ui = "Send" /\ Len(input) = InputCap
      /\ emu = "VSync" /\ frame_recv /\ Len(frames) = FrameCap

\* What the machine's buttons will be once it has read everything the UI has
\* taken from the event pump: as last reported, if reported since the machine
\* was started, and up otherwise.  No event is lost, doubled or reordered on
\* the way, nor read by the machine of another ROM.  That a key held over a
\* change of ROM is up in the new machine until it is pressed again is what
\* the code does: the UI neither reports it again nor passes on its repeats.
InputFaithful ==
    emu # "Dead" => Pressed(buttons, input \o to_send) = [b \in Buttons |-> b \in told /\ keys[b]]

\* When the emulator thread has ended because the user changes the ROM, the
\* save file holds the last change of the cartridge RAM: loading the same ROM
\* again goes on from there.  Nothing of the kind holds of the other ways the
\* emulator ends, Quit and a panic: neither saves.
SavedAtClose == emu = "Done" => disk[rom] = ram

\* The file of a ROM always holds the progress of its last complete save or
\* more, but for the time of a write, over changes of ROM, panics, quits and
\* new launches.  The exception is what the code does: when the process ends
\* inside fs::write the last complete save is gone, and for good, since the
\* short file is read, if at all, as a short RAM and written back as one.
SaveForward ==
    [][\A r \in Roms : IF r \in cut' THEN disk'[r] = Torn
                                     ELSE disk'[r] >= saved[r] \/ Writing(r)']_vars

\* The window waits for a frame of an emulator thread that is dead.
Hung == ui = "Recv" /\ emu = "Dead" /\ frames = <<>>

\* The UI thread comes back from each of its blocking calls (a send, a recv
\* or the join), or the process ends, unless the program keeps switching the
\* LCD off.  The exception is what the code does in a build that unwinds: once
\* the emulator thread has panicked recv() is never answered.  A send and the
\* join are, whatever the emulator thread has come to.
UiResponds ==
    (ui \in {"Send", "Recv", "Join"} ~> ui \in {"Poll", "Exited"} \/ Hung) \/ []<>(~lcd)

============================================================================
