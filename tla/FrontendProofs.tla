--------------------------- MODULE FrontendProofs ---------------------------
(***************************************************************************)
(* Proofs about the threads and channels of module Frontend, for channels  *)
(* of any size and any number of buttons and ROMs.                         *)
(*                                                                         *)
(* The input events are folded over the buttons (FoldLeft), so what the    *)
(* buttons will be is a fact about a recursive function: it is proved by   *)
(* induction, from the theorem of the library that < is well-founded on    *)
(* the natural numbers.                                                    *)
(***************************************************************************)
EXTENDS Frontend, WellFoundedInduction, TLAPS

----------------------------------------------------------------------------
(* Induction, and the folding of input events over the buttons. *)

\* A non-empty set of natural numbers has a least element.
LEMMA LeastNat ==
  ASSUME NEW T, T \subseteq Nat, T # {}
  PROVE  \E x \in T : \A y \in T : x <= y
<1> DEFINE R == {ss \in Nat \X Nat : ss[1] < ss[2]}
<1>1. IsWellFoundedOn(R, Nat)
  BY NatLessThanWellFounded DEF OpToRel
<1>2. \A a, b \in Nat : a < b => <<a, b>> \in R
  OBVIOUS
<1> HIDE DEF R
<1>3. PICK x \in T : \A y \in T : ~ (<<y, x>> \in R)
  BY <1>1, WFMin
<1>4. SUFFICES ASSUME NEW y \in T PROVE x <= y
  BY Zenon
<1>5. ~(y < x)
  BY <1>2, <1>3
<1>6. QED
  BY <1>5

\* Induction over the natural numbers, for a set instead of a predicate.
LEMMA NatInduct ==
  ASSUME NEW T, 0 \in T, \A n \in Nat : n \in T => n + 1 \in T
  PROVE  \A n \in Nat : n \in T
<1> DEFINE C == Nat \ T
<1>1. SUFFICES ASSUME C # {} PROVE FALSE
  OBVIOUS
<1>2. C \subseteq Nat
  OBVIOUS
<1> HIDE DEF C
<1>3. PICK x \in C : \A y \in C : x <= y
  BY <1>1, <1>2, LeastNat
<1> USE DEF C
<1>4. x \in Nat /\ x # 0
  OBVIOUS
<1>5. x - 1 \in Nat /\ x - 1 \in T
  BY <1>3, <1>4
<1>6. QED
  BY <1>4, <1>5

\* The function a fold over the first n elements of a queue is computed by.
Folding(g, n, down, queue) ==
    g = [s \in SUBSET (1 .. n) |->
            IF s = {} THEN down ELSE Press(g[s \ {Max(s)}], queue[Max(s)])]

\* Pressed folds Press over the queue by way of the function of the library.
LEMMA PressedDef ==
  ASSUME NEW down, NEW queue
  PROVE Pressed(down, queue) = 
   (CHOOSE g : g = [s \in SUBSET DOMAIN queue |->
            IF s = {} THEN down ELSE Press(g[s \ {Max(s)}], queue[Max(s)])])[DOMAIN queue]
BY Zenon DEF Pressed, FoldLeft, MapThenFoldSet

\* The largest element of a set of numbers up to n + 1 that contains n + 1.
LEMMA MaxTop ==
  ASSUME NEW n \in Nat, NEW s \in SUBSET (1 .. n + 1), n + 1 \in s
  PROVE  Max(s) = n + 1 /\ s \ {n + 1} \in SUBSET (1 .. n)
<1>1. \A x \in s : (\A y \in s : x >= y) => x = n + 1
  OBVIOUS
<1>2. \A y \in s : n + 1 >= y
  OBVIOUS
<1>3. Max(s) = n + 1
  BY <1>1, <1>2 DEF Max
<1>4. QED
  BY <1>3

\* The recursion that defines a fold has a solution.
LEMMA FoldingExists ==
  ASSUME NEW down, NEW queue
  PROVE  \A n \in Nat : \E g : Folding(g, n, down, queue)
<1> DEFINE T == {n \in Nat : \E g : Folding(g, n, down, queue)}
<1>1. 0 \in T
  <2>1. Folding([s \in SUBSET (1 .. 0) |-> down], 0, down, queue)
    <3>1. 1 .. 0 = {}
      OBVIOUS
    <3>2. \A s \in SUBSET (1 .. 0) : s = {}
      BY <3>1
    <3>3. QED
      BY <3>2, Zenon DEF Folding
  <2>2. QED
    BY <2>1
<1>2. ASSUME NEW n \in Nat, n \in T PROVE n + 1 \in T
  <2>1. PICK g : Folding(g, n, down, queue)
    BY <1>2
  <2> DEFINE h == [s \in SUBSET (1 .. n + 1) |->
                     IF n + 1 \in s THEN Press(g[s \ {n + 1}], queue[n + 1]) ELSE g[s]]
  <2>2. \A s \in SUBSET (1 .. n) : h[s] = g[s]
    OBVIOUS
  <2>3. ASSUME NEW s \in SUBSET (1 .. n + 1)
        PROVE  h[s] = IF s = {} THEN down ELSE Press(h[s \ {Max(s)}], queue[Max(s)])
    <3>1. CASE n + 1 \in s
      <4>1. Max(s) = n + 1 /\ s \ {n + 1} \in SUBSET (1 .. n) /\ s # {}
        BY <3>1, MaxTop
      <4>2. h[s \ {n + 1}] = g[s \ {n + 1}]
        BY <4>1, <2>2
      <4>3. h[s] = Press(g[s \ {n + 1}], queue[n + 1])
        BY <3>1
      <4> HIDE DEF h
      <4>4. QED
        BY <4>1, <4>2, <4>3
    <3>2. CASE n + 1 \notin s
      <4>1. s \in SUBSET (1 .. n)
        BY <3>2
      <4>2. h[s] = g[s]
        BY <4>1, <2>2
      <4>3. g[s] = IF s = {} THEN down ELSE Press(g[s \ {Max(s)}], queue[Max(s)])
        BY <4>1, <2>1, Zenon DEF Folding
      <4>4. h[s \ {Max(s)}] = g[s \ {Max(s)}]
        <5>1. s \ {Max(s)} \in SUBSET (1 .. n)
          BY <4>1
        <5>2. QED
          BY <5>1, <2>2
      <4> HIDE DEF h
      <4>5. QED
        BY <4>2, <4>3, <4>4
    <3>3. QED
      BY <3>1, <3>2
  <2>4. DOMAIN h = SUBSET (1 .. n + 1) /\ h = [s \in DOMAIN h |-> h[s]]
    OBVIOUS
  <2>5. Folding(h, n + 1, down, queue)
    <3> HIDE DEF h
    <3>1. h = [s \in SUBSET (1 .. n + 1) |-> h[s]]
      BY <2>4
    <3>2. QED
      BY <3>1, <2>3, Zenon DEF Folding
  <2>6. QED
    BY <2>5
<1> HIDE DEF T
<1>3. \A n \in Nat : n \in T
  BY <1>1, <1>2, NatInduct
<1>4. QED
  BY <1>3 DEF T

\* The fold of one element more.
LEMMA FoldingNext ==
  ASSUME NEW g, NEW n \in Nat, NEW down, NEW queue, Folding(g, n, down, queue)
  PROVE  /\ g[{}] = down
         /\ \A k \in 0 .. n - 1 : g[1 .. k + 1] = Press(g[1 .. k], queue[k + 1])
<1>1. ASSUME NEW s \in SUBSET (1 .. n)
      PROVE  g[s] = IF s = {} THEN down ELSE Press(g[s \ {Max(s)}], queue[Max(s)])
  BY Zenon DEF Folding
<1>2. ASSUME NEW k \in 0 .. n - 1
      PROVE  g[1 .. k + 1] = Press(g[1 .. k], queue[k + 1])
  <2>1. 1 .. k + 1 \in SUBSET (1 .. n) /\ 1 .. k + 1 # {} /\ k \in Nat
    OBVIOUS
  <2>2. Max(1 .. k + 1) = k + 1
    <3>1. k + 1 \in 1 .. k + 1 /\ 1 .. k + 1 \in SUBSET (1 .. k + 1)
      BY <2>1
    <3>2. QED
      BY <2>1, <3>1, MaxTop
  <2>3. (1 .. k + 1) \ {k + 1} = 1 .. k
    BY <2>1
  <2>4. QED
    BY <1>1, <2>1, <2>2, <2>3
<1>3. QED
  BY <1>1, <1>2

\* The fold of a queue that goes on is the same as far as the queue goes.
LEMMA FoldingsAgree ==
  ASSUME NEW g, NEW n \in Nat, NEW h, NEW m \in Nat, NEW down, NEW queue, NEW longer,
         Folding(g, n, down, queue), Folding(h, m, down, longer), n <= m,
         \A i \in 1 .. n : queue[i] = longer[i]
  PROVE  g[1 .. n] = h[1 .. n]
<1> DEFINE T == {k \in Nat : k <= n => g[1 .. k] = h[1 .. k]}
<1>1. 0 \in T
  <2>1. 1 .. 0 = {}
    OBVIOUS
  <2>2. QED
    BY <2>1, FoldingNext
<1>2. ASSUME NEW k \in Nat, k \in T PROVE k + 1 \in T
  <2>1. SUFFICES ASSUME k + 1 <= n PROVE g[1 .. k + 1] = h[1 .. k + 1]
    OBVIOUS
  <2>2. g[1 .. k] = h[1 .. k]
    BY <1>2, <2>1
  <2>3. g[1 .. k + 1] = Press(g[1 .. k], queue[k + 1])
    BY <2>1, FoldingNext
  <2>4. h[1 .. k + 1] = Press(h[1 .. k], longer[k + 1])
    BY <2>1, FoldingNext
  <2>5. queue[k + 1] = longer[k + 1]
    BY <2>1
  <2>6. QED
    BY <2>2, <2>3, <2>4, <2>5
<1> HIDE DEF T
<1>3. n \in T
  BY <1>1, <1>2, NatInduct
<1>4. QED
  BY <1>3 DEF T

\* Pressed is the fold of the whole queue.
LEMMA PressedFolding ==
  ASSUME NEW S, NEW down, NEW queue \in Seq(S)
  PROVE  \E g : Folding(g, Len(queue), down, queue) /\ Pressed(down, queue) = g[1 .. Len(queue)]
<1>1. Len(queue) \in Nat /\ DOMAIN queue = 1 .. Len(queue)
  OBVIOUS
<1>2. \E g : Folding(g, Len(queue), down, queue)
  BY <1>1, FoldingExists
<1>3. Folding(CHOOSE g : Folding(g, Len(queue), down, queue), Len(queue), down, queue)
  BY <1>2, Zenon
<1>4. Pressed(down, queue) = (CHOOSE g : Folding(g, Len(queue), down, queue))[1 .. Len(queue)]
  BY <1>1, PressedDef, Zenon DEF Folding
<1>5. QED
  BY <1>3, <1>4, Zenon

\* No input, no change of the buttons.
LEMMA PressedEmpty == ASSUME NEW down PROVE Pressed(down, << >>) = down
<1>1. << >> \in Seq(Nat) /\ Len(<< >>) = 0 /\ 1 .. 0 = {}
  OBVIOUS
<1>2. PICK g : Folding(g, Len(<< >>), down, << >>) /\ Pressed(down, << >>) = g[1 .. Len(<< >>)]
  BY ONLY <1>1, PressedFolding, Zenon
<1>3. QED
  BY <1>1, <1>2, FoldingNext

\* The last event of the queue is pressed last.
LEMMA PressedAppend ==
  ASSUME NEW S, NEW down, NEW queue \in Seq(S), NEW e \in S
  PROVE  Pressed(down, Append(queue, e)) = Press(Pressed(down, queue), e)
<1> DEFINE n == Len(queue)
           longer == Append(queue, e)
<1>1. /\ n \in Nat /\ longer \in Seq(S) /\ Len(longer) = n + 1
      /\ longer[n + 1] = e /\ \A i \in 1 .. n : queue[i] = longer[i]
  OBVIOUS
<1> HIDE DEF n, longer
<1>2. PICK g : Folding(g, n, down, queue) /\ Pressed(down, queue) = g[1 .. n]
  BY PressedFolding DEF n
<1>3. PICK h : Folding(h, n + 1, down, longer) /\ Pressed(down, longer) = h[1 .. n + 1]
  BY <1>1, PressedFolding
<1>4. g[1 .. n] = h[1 .. n]
  BY <1>1, <1>2, <1>3, FoldingsAgree
<1>5. h[1 .. n + 1] = Press(h[1 .. n], longer[n + 1])
  <2>1. n + 1 \in Nat /\ n \in 0 .. (n + 1) - 1
    BY <1>1
  <2>2. QED
    BY <1>3, <2>1, FoldingNext
<1>6. QED
  BY <1>1, <1>2, <1>3, <1>4, <1>5 DEF longer

\* Reading a queue in two parts is reading it at once: where process_events()
\* cuts the stream of input events makes no difference.
LEMMA PressedConcat ==
  ASSUME NEW S, NEW down, NEW queue \in Seq(S)
  PROVE  \A more \in Seq(S) :
            Pressed(Pressed(down, queue), more) = Pressed(down, queue \o more)
<1> DEFINE T == {n \in Nat : \A more \in Seq(S) : Len(more) = n =>
                    Pressed(Pressed(down, queue), more) = Pressed(down, queue \o more)}
<1>1. 0 \in T
  <2>1. ASSUME NEW more \in Seq(S), Len(more) = 0
        PROVE  Pressed(Pressed(down, queue), more) = Pressed(down, queue \o more)
    <3>1. more = << >> /\ queue \o << >> = queue
      BY <2>1
    <3>2. QED
      BY <3>1, PressedEmpty
  <2>2. QED
    BY <2>1
<1>2. ASSUME NEW n \in Nat, n \in T PROVE n + 1 \in T
  <2>1. SUFFICES ASSUME NEW more \in Seq(S), Len(more) = n + 1
                 PROVE  Pressed(Pressed(down, queue), more) = Pressed(down, queue \o more)
    OBVIOUS
  <2> DEFINE front == SubSeq(more, 1, n)
             last == more[n + 1]
             both == queue \o front
  <2>2. front \in Seq(S) /\ Len(front) = n /\ last \in S
    BY <2>1
  <2>3. more = Append(front, last)
    BY <2>1
  <2>4. queue \o more = Append(both, last) /\ both \in Seq(S)
    BY <2>1
  <2> HIDE DEF front, last, both
  <2>5. Pressed(Pressed(down, queue), front) = Pressed(down, both)
    BY <1>2, <2>2 DEF both
  <2>6. Pressed(Pressed(down, queue), more) = Press(Pressed(Pressed(down, queue), front), last)
    BY <2>2, <2>3, PressedAppend
  <2>7. Pressed(down, queue \o more) = Press(Pressed(down, both), last)
    BY <2>2, <2>4, PressedAppend
  <2>8. QED
    BY <2>5, <2>6, <2>7
<1> HIDE DEF T
<1>3. \A n \in Nat : n \in T
  BY <1>1, <1>2, NatInduct
<1>4. QED
  BY <1>3 DEF T

----------------------------------------------------------------------------
(* The invariant. *)

\* Who is where: no thread without a ROM and no waiting thread without what it
\* waits for; the receiving end of the frame channel is gone exactly while the
\* UI joins the emulator, which only then closes; a frame is sent only when the
\* events of the last one are dealt with.
Roles ==
    /\ ui \in {"Idle", "Exited"} <=> emu = "None"
    /\ ui = "Join" <=> ~frame_recv
    /\ ui = "Join" => next_rom \in Roms
    /\ ui = "Send" <=> to_send # << >>
    /\ Len(to_send) <= batch
    /\ emu = "None" => frames = << >>
    /\ emu # "None" => rom \in Roms
    /\ emu = "VSync" => events = {}
    /\ emu \in {"Close", "Closing", "Done"} \/ "VSyncAndExit" \in events => ~frame_recv

\* The emulator has read its input since it sent its last frame.
Drained == events = {} \/ emu \in {"Save", "Saving"}

\* Why the input channel cannot be full while the frame channel is: no frame
\* was taken since the last one was sent, so the batch of the UI is the one it
\* was when the emulator emptied the input channel, and what has been sent
\* since is part of it.
RoomLeft ==
    Len(frames) = FrameCap /\ frame_recv /\ Drained => Len(input) + Len(to_send) <= batch

\* A save file holds the last complete save, or is cut short: while it is
\* written, or because the process ended then.  The RAM of the running machine
\* is as far as the last save, or was read from a file cut short.
FilesGood ==
    /\ \A r \in Roms : disk[r] \in {Torn, saved[r]}
    /\ \A r \in Roms : disk[r] = Torn <=> r \in cut \/ Writing(r)
    /\ emu \notin {"None", "Boot", "Dead"} => IF rom \in cut THEN ram = Torn ELSE ram >= saved[rom]

\* Types and roles: what every other part of the invariant rests on.
Kept == TypeOK /\ Roles

USE FrontendConstants

----------------------------------------------------------------------------
(* Types and roles, action by action. *)

\* The first state has the types and roles.
LEMMA InitKept == Init => Kept
BY DEF Init, Kept, TypeOK, Roles, Released, Ram, Torn, InputEvents

\* Types and roles under LoadFirst.
LEMMA LoadFirstKept == Kept /\ LoadFirst => Kept'
BY DEF LoadFirst, run_emulator, Kept, TypeOK, Roles, Released, Ram, InputEvents, fileVars

\* Types and roles under LoadNext.
LEMMA LoadNextKept == Kept /\ LoadNext => Kept'
<1> SUFFICES ASSUME Kept, LoadNext PROVE Kept'
  OBVIOUS
<1>1. TypeOK'
  <2>1. next_rom' \in Roms /\ batch' \in 0 .. MaxBatch /\ frame_recv' \in BOOLEAN /\ ui' = "Join"
    <3>1. next_rom' \in Roms /\ batch' = 0 /\ ui' = "Join"
      BY DEF LoadNext
    <3>2. frame_recv' \in BOOLEAN
      BY Zenon DEF LoadNext
    <3>3. 0 \in 0 .. MaxBatch
      BY FrontendConstants
    <3>4. QED
      BY <3>1, <3>2, <3>3
  <2>2. UNCHANGED <<release, to_send, input, frames, sound, emuVars, fileVars, keys, told>>
    BY DEF LoadNext
  <2>3. UNCHANGED <<release, to_send, input, frames, sound, emu, rom, ram, lcd, sound_due,
                    events, buttons, disk, saved, cut, keys, told>>
    BY <2>2 DEF emuVars, fileVars
  <2>4. ui' \in {"Idle", "Poll", "Send", "Recv", "Join", "Exited"} /\ next_rom' \in Roms \cup {NoRom}
    BY <2>1
  <2>5. QED
    BY <2>1, <2>3, <2>4 DEF Kept, TypeOK
<1>2. to_send' = << >> /\ Len(<< >>) = 0 /\ batch' = 0
  BY DEF LoadNext, Kept, TypeOK, Roles
<1>3. Roles'
  BY <1>2 DEF LoadNext, Kept, Roles, emuVars
<1>4. QED
  BY <1>1, <1>3 DEF Kept

\* Types and roles under Join.
LEMMA JoinKept == Kept /\ Join => Kept'
BY DEF Join, run_emulator, NewFrameChannel, Kept, TypeOK, Roles, Released, Ram, fileVars, InputEvents

\* Types and roles when the process ends or is started again.
LEMMA ForgetKept == Kept /\ (ProcessEnds \/ Relaunch) => Kept'
<1> SUFFICES ASSUME Kept, ProcessEnds \/ Relaunch PROVE Kept'
  OBVIOUS
<1>1. TypeOK'
  <2>1. ui' \in {"Idle", "Exited"} /\ release' \in BOOLEAN
    BY Zenon DEF ProcessEnds, Relaunch, Kept, TypeOK
  <2>2. Forget
    BY DEF ProcessEnds, Relaunch
  <2>3. disk' \in [Roms -> Ram] /\ saved' \in [Roms -> Ram \ {Torn}] /\ cut' \subseteq Roms
    BY <2>2 DEF Forget, Kept, TypeOK
  <2>4. 0 \in Ram /\ Released \in [Buttons -> BOOLEAN] /\ << >> \in Seq(InputEvents) /\ << >> \in Seq(Roms)
    BY DEF Ram, Released
  <2>5. QED
    BY <2>1, <2>2, <2>3, <2>4 DEF Forget, TypeOK
<1>2. Roles'
  BY DEF ProcessEnds, Relaunch, Forget, Released, Ram, InputEvents, Kept, TypeOK, Roles
<1>3. QED
  BY <1>1, <1>2 DEF Kept

\* Types and roles under KeyEvent.
LEMMA KeyEventKept == Kept /\ KeyEvent => Kept'
BY DEF KeyEvent, Kept, TypeOK, Roles, InputEvents, channelVars, emuVars, fileVars

\* Types and roles under AxisEvent.
LEMMA AxisEventKept == Kept /\ AxisEvent => Kept'
BY DEF AxisEvent, Kept, TypeOK, Roles, InputEvents, channelVars, emuVars, fileVars

\* What is left of a queue when its first element is taken.
LEMMA TailLength ==
  ASSUME NEW S, NEW q \in Seq(S), q # << >>
  PROVE  /\ Tail(q) \in Seq(S) /\ Len(q) \in Nat /\ Len(Tail(q)) = Len(q) - 1
         /\ Tail(q) = << >> <=> Len(q) = 1
<1>1. Tail(q) \in Seq(S) /\ Len(Tail(q)) = Len(q) - 1 /\ Len(q) \in Nat
  OBVIOUS
<1>2. ASSUME NEW r \in Seq(S) PROVE r = << >> <=> Len(r) = 0
  OBVIOUS
<1>3. QED
  BY <1>1, <1>2

\* Types and roles under SendInput.
LEMMA SendInputKept == Kept /\ SendInput => Kept'
<1> SUFFICES ASSUME Kept, SendInput PROVE Kept'
  OBVIOUS
<1>1. TypeOK'
  BY DEF SendInput, emuVars, fileVars, Kept, TypeOK, Roles
<1>2. Roles'
  <2>1. Len(to_send') = Len(to_send) - 1 /\ (to_send' = << >> <=> Len(to_send) = 1)
    <3>1. to_send \in Seq(InputEvents) /\ to_send # << >>
      BY DEF SendInput, Kept, TypeOK, Roles
    <3>2. to_send' = Tail(to_send)
      BY DEF SendInput
    <3>3. QED
      BY <3>1, <3>2, TailLength
  <2>2. (ui' = "Send" <=> to_send' # << >>) /\ ui' \in {"Poll", "Send"}
    BY <2>1 DEF SendInput
  <2>3. Len(to_send') <= batch'
    BY <2>1 DEF SendInput, Kept, TypeOK, Roles
  <2>4. QED
    BY <2>2, <2>3 DEF SendInput, emuVars, Kept, Roles
<1>3. QED
  BY <1>1, <1>2 DEF Kept

\* Types and roles under SendFails.
LEMMA SendFailsKept == Kept /\ SendFails => Kept'
BY ForgetKept DEF SendFails

\* Types and roles under Quit.
LEMMA QuitKept == Kept /\ Quit => Kept'
BY ForgetKept DEF Quit

\* Types and roles when the emulator thread panics.
LEMMA PanicKept == Kept /\ (BootFails \/ RunFails) => Kept'
<1> SUFFICES ASSUME Kept, BootFails \/ RunFails PROVE Kept'
  OBVIOUS
<1>1. CASE ProcessEnds
  BY <1>1, ForgetKept
<1>2. CASE ~ProcessEnds
  <2>1. /\ emu' = "Dead" /\ input' = << >> /\ buttons' = Released
        /\ events' = {} /\ ram' = 0 /\ lcd' = TRUE /\ sound_due' = TRUE
        /\ UNCHANGED <<uiVars, frames, frame_recv, sound, rom, fileVars>>
    BY <1>2 DEF BootFails, RunFails, Panic
  <2>2. emu \in {"Boot", "Run"}
    BY DEF BootFails, RunFails
  <2>3. 0 \in Ram /\ Released \in [Buttons -> BOOLEAN] /\ << >> \in Seq(InputEvents)
    BY DEF Ram, Released
  <2>4. TypeOK'
    BY <2>1, <2>3 DEF uiVars, fileVars, Kept, TypeOK
  <2>5. Roles'
    BY <2>1, <2>2 DEF uiVars, fileVars, Kept, TypeOK, Roles
  <2>6. QED
    BY <2>4, <2>5 DEF Kept
<1>3. QED
  BY <1>1, <1>2

\* Types and roles under PollEnds.
LEMMA PollEndsKept == Kept /\ PollEnds => Kept'
BY DEF PollEnds, Kept, TypeOK, Roles, channelVars, emuVars, fileVars

\* Types and roles under RecvFrame.
LEMMA RecvFrameKept == Kept /\ RecvFrame => Kept'
BY DEF RecvFrame, Kept, TypeOK, Roles, emuVars, fileVars

\* Types and roles under Callback.
LEMMA CallbackKept == Kept /\ Callback => Kept'
BY DEF Callback, Kept, TypeOK, Roles, uiVars, emuVars, fileVars

\* Types and roles under Boot.
LEMMA BootKept == Kept /\ Boot => Kept'
BY DEF Boot, read_save, Kept, TypeOK, Roles, uiVars, channelVars, fileVars

\* Types and roles under RunProgram.
LEMMA RunProgramKept == Kept /\ RunProgram => Kept'
<1> SUFFICES ASSUME Kept, RunProgram PROVE Kept'
  OBVIOUS
<1>1. TypeOK'
  <2>1. ram' \in Ram
    BY DEF RunProgram, Ram, Kept, TypeOK
  <2>2. lcd' \in BOOLEAN
    BY Zenon DEF RunProgram, Kept, TypeOK
  <2>3. QED
    BY <2>1, <2>2 DEF RunProgram, uiVars, channelVars, fileVars, Kept, TypeOK
<1>2. Roles'
  BY DEF RunProgram, Ram, uiVars, channelVars, fileVars, Kept, TypeOK, Roles
<1>3. QED
  BY <1>1, <1>2 DEF Kept

\* Types and roles under SoundDue.
LEMMA SoundDueKept == Kept /\ SoundDue => Kept'
<1> SUFFICES ASSUME Kept, SoundDue PROVE Kept'
  OBVIOUS
<1>1. TypeOK'
  BY DEF SoundDue, uiVars, channelVars, fileVars, Kept, TypeOK, Roles
<1>2. Roles'
  BY DEF SoundDue, uiVars, channelVars, fileVars, Kept, TypeOK, Roles
<1>3. QED
  BY <1>1, <1>2 DEF Kept

\* Types and roles under SendSound.
LEMMA SendSoundKept == Kept /\ SendSound => Kept'
BY DEF SendSound, Kept, TypeOK, Roles, uiVars, fileVars

\* Types and roles under ReachVBlank.
LEMMA ReachVBlankKept == Kept /\ ReachVBlank => Kept'
BY DEF ReachVBlank, Kept, TypeOK, Roles, uiVars, channelVars, fileVars

\* Types and roles under vsync.
LEMMA VsyncKept == Kept /\ vsync => Kept'
<1> SUFFICES ASSUME Kept, vsync PROVE Kept'
  OBVIOUS
<1>1. TypeOK'
  <2>1. frames' \in Seq(Roms) /\ Len(frames') <= FrameCap
    <3>1. rom \in Roms /\ frames \in Seq(Roms) /\ Len(frames) <= FrameCap
      BY DEF vsync, Kept, TypeOK, Roles
    <3>2. CASE Len(frames) < FrameCap /\ frames' = Append(frames, rom)
      BY <3>1, <3>2
    <3>3. CASE frames' = frames
      BY <3>1, <3>3
    <3>4. QED
      BY <3>2, <3>3 DEF vsync
  <2>2. emu' = "Run" /\ events' \subseteq {"VSync", "VSyncAndExit"}
    BY DEF vsync
  <2>3. QED
    BY <2>1, <2>2 DEF vsync, uiVars, fileVars, Kept, TypeOK
<1>2. Roles'
  BY DEF vsync, uiVars, fileVars, Kept, TypeOK, Roles
<1>3. QED
  BY <1>1, <1>2 DEF Kept

\* Types and roles under BeginSave.
LEMMA BeginSaveKept == Kept /\ BeginSave => Kept'
BY SMTT(30) DEF BeginSave, Kept, TypeOK, Roles, Ram, uiVars, channelVars

\* Types and roles under EndSave.
LEMMA EndSaveKept == Kept /\ EndSave => Kept'
BY SMTT(30) DEF EndSave, AfterEvents, Kept, TypeOK, Roles, Ram, uiVars, channelVars

\* Input events keep the type of the buttons.
LEMMA PressedType ==
  ASSUME NEW down \in [Buttons -> BOOLEAN]
  PROVE  \A queue \in Seq(InputEvents) : Pressed(down, queue) \in [Buttons -> BOOLEAN]
<1> DEFINE T == {n \in Nat : \A queue \in Seq(InputEvents) :
                    Len(queue) = n => Pressed(down, queue) \in [Buttons -> BOOLEAN]}
<1>1. 0 \in T
  <2>1. ASSUME NEW queue \in Seq(InputEvents), Len(queue) = 0
        PROVE  Pressed(down, queue) \in [Buttons -> BOOLEAN]
    <3>1. queue = << >>
      BY <2>1
    <3>2. QED
      BY <3>1, PressedEmpty
  <2>2. QED
    BY <2>1
<1>2. ASSUME NEW n \in Nat, n \in T PROVE n + 1 \in T
  <2>1. SUFFICES ASSUME NEW queue \in Seq(InputEvents), Len(queue) = n + 1
                 PROVE  Pressed(down, queue) \in [Buttons -> BOOLEAN]
    OBVIOUS
  <2> DEFINE front == SubSeq(queue, 1, n)
             last == queue[n + 1]
  <2>2. front \in Seq(InputEvents) /\ Len(front) = n /\ last \in InputEvents
    BY <2>1
  <2>3. queue = Append(front, last)
    BY <2>1
  <2> HIDE DEF front, last
  <2>4. Pressed(down, front) \in [Buttons -> BOOLEAN]
    BY <1>2, <2>2
  <2>5. Pressed(down, queue) = Press(Pressed(down, front), last)
    BY <2>2, <2>3, PressedAppend
  <2>6. QED
    BY <2>2, <2>4, <2>5 DEF Press, InputEvents
<1> HIDE DEF T
<1>3. \A n \in Nat : n \in T
  BY <1>1, <1>2, NatInduct
<1>4. QED
  BY <1>3 DEF T

\* Types and roles under process_events.
LEMMA EventsKept == Kept /\ process_events => Kept'
<1> SUFFICES ASSUME Kept, process_events PROVE Kept'
  OBVIOUS
<1>1. buttons' \in [Buttons -> BOOLEAN] /\ input' = << >>
  BY PressedType DEF process_events, input_update, Kept, TypeOK
<1>2. events' \subseteq {"VSync", "VSyncAndExit"} /\ emu' \in {"Save", "Run", "Close"} /\ sound_due' \in BOOLEAN
  BY DEF process_events, AfterEvents, Kept, TypeOK
<1>3. TypeOK'
  BY <1>1, <1>2 DEF process_events, uiVars, fileVars, Kept, TypeOK
<1>4. Roles'
  BY DEF process_events, AfterEvents, uiVars, Kept, Roles
<1>5. QED
  BY <1>3, <1>4 DEF Kept

\* Every step keeps the types and roles.
LEMMA NextKept == Kept /\ [Next]_vars => Kept'
<1>1. Kept /\ UNCHANGED vars => Kept'
  BY DEF vars, uiVars, channelVars, emuVars, fileVars, Kept, TypeOK, Roles
<1>2. QED
  BY <1>1, LoadFirstKept, LoadNextKept, JoinKept, QuitKept, ForgetKept, KeyEventKept, AxisEventKept,
     SendInputKept, SendFailsKept, PanicKept, PollEndsKept, RecvFrameKept, CallbackKept, BootKept, RunProgramKept,
     SoundDueKept, SendSoundKept, ReachVBlankKept, VsyncKept, EventsKept, BeginSaveKept,
     EndSaveKept
     DEF Next, Ui, UiWaits, Emulator, EmuWorks

\* The type invariant of the threads, the channels and the files.
THEOREM TypeCorrect == Spec => []TypeOK
<1>1. Spec => []Kept
  BY InitKept, NextKept, PTL DEF Spec
<1>2. Kept => TypeOK
  BY DEF Kept
<1>3. QED
  BY <1>1, <1>2, PTL

----------------------------------------------------------------------------
(* The two channels. *)

\* There is room at first, since there is no frame.
LEMMA InitRoom == Init => RoomLeft
BY DEF Init, RoomLeft

\* No step of the UI or the audio thread takes the room: what the UI sends is
\* counted in its batch, and the batch ends only when a frame is taken.
LEMMA UiRoom == Kept /\ RoomLeft /\ (Ui \/ Callback) => RoomLeft'
<1> SUFFICES ASSUME Kept, RoomLeft, Ui \/ Callback PROVE RoomLeft'
  OBVIOUS
<1>0. input \in Seq(InputEvents) /\ frames \in Seq(Roms) /\ to_send \in Seq(InputEvents) /\ batch \in Nat
  BY DEF Kept, TypeOK
<1>10. Len(<< >>) # FrameCap
  BY FrontendConstants
<1>1. CASE LoadFirst
  <2>1. frames' = << >>
    BY <1>1 DEF LoadFirst, Kept, Roles
  <2>2. QED
    BY <2>1, <1>10 DEF RoomLeft
<1>2. CASE LoadNext \/ Quit \/ SendFails \/ Relaunch \/ Join
  <2>1. frames' = << >> \/ ~frame_recv'
    BY <1>2 DEF LoadNext, Quit, SendFails, ProcessEnds, Relaunch, Forget, Join, NewFrameChannel
  <2>2. QED
    BY <2>1, <1>10 DEF RoomLeft
<1>3. CASE KeyEvent
  <2>1. PICK e \in InputEvents : to_send' = << e >>
    BY <1>3 DEF KeyEvent
  <2>2. Len(to_send') = 1 /\ Len(to_send) = 0
    BY <1>3, <2>1 DEF KeyEvent, Kept, Roles
  <2>3. batch' = batch + 1 /\ input' = input
    BY <1>3 DEF KeyEvent, channelVars
  <2>4. QED
    BY <1>0, <1>3, <2>2, <2>3 DEF KeyEvent, channelVars, emuVars, RoomLeft, Drained
<1>4. CASE AxisEvent
  <2>1. \E e, f : to_send' = << e, f >>
    BY <1>4 DEF AxisEvent
  <2>2. Len(to_send') = 2 /\ Len(to_send) = 0
    BY <1>4, <2>1 DEF AxisEvent, Kept, Roles
  <2>3. batch' = batch + 2 /\ input' = input
    BY <1>4 DEF AxisEvent, channelVars
  <2>4. QED
    BY <1>0, <1>4, <2>2, <2>3 DEF AxisEvent, channelVars, emuVars, RoomLeft, Drained
<1>5. CASE SendInput
  <2>1. to_send # << >>
    BY <1>5 DEF SendInput, Kept, Roles
  <2>2. Len(input') = Len(input) + 1 /\ Len(to_send') = Len(to_send) - 1
    BY <1>0, <1>5, <2>1 DEF SendInput
  <2>3. Len(input') + Len(to_send') = Len(input) + Len(to_send)
    BY <1>0, <2>2
  <2>4. QED
    BY <1>5, <2>3 DEF SendInput, emuVars, RoomLeft, Drained
<1>6. CASE RecvFrame
  <2>1. Len(frames') # FrameCap
    BY <1>0, <1>6 DEF RecvFrame, Kept, TypeOK
  <2>2. QED
    BY <2>1 DEF RoomLeft
<1>7. CASE PollEnds \/ Callback
  BY <1>7 DEF PollEnds, Callback, uiVars, channelVars, emuVars, RoomLeft, Drained
<1>8. QED
  BY <1>1, <1>2, <1>3, <1>4, <1>5, <1>6, <1>7 DEF Ui, UiWaits

\* No step of the emulator takes the room: reading its input makes it, and a
\* frame is only sent before the input is read.
LEMMA EmulatorRoom == Kept /\ RoomLeft /\ Emulator => RoomLeft'
<1> SUFFICES ASSUME Kept, RoomLeft, Emulator PROVE RoomLeft'
  OBVIOUS
<1>1. CASE Boot \/ RunProgram \/ SoundDue \/ SendSound \/ ReachVBlank
  BY <1>1 DEF Boot, RunProgram, SoundDue, SendSound, ReachVBlank, uiVars, channelVars,
              RoomLeft, Drained
<1>2. CASE vsync
  BY <1>2 DEF vsync, RoomLeft, Drained
<1>3. CASE process_events
  <2>1. Len(input') = 0 /\ UNCHANGED <<to_send, batch>>
    BY <1>3 DEF process_events, input_update, uiVars
  <2>2. QED
    BY <2>1 DEF Kept, Roles, TypeOK, RoomLeft
<1>4. CASE BeginSave
  <2>1. emu = "Close" => ~frame_recv
    BY DEF Kept, Roles
  <2>2. QED
    BY <1>4, <2>1 DEF BeginSave, uiVars, channelVars, RoomLeft, Drained
<1>5. CASE EndSave
  <2>1. emu = "Closing" => ~frame_recv
    BY DEF Kept, Roles
  <2>2. QED
    BY <1>5, <2>1 DEF EndSave, uiVars, channelVars, RoomLeft, Drained
<1>6. CASE (BootFails \/ RunFails) /\ ProcessEnds
  <2>1. frames' = << >> /\ Len(<< >>) # FrameCap
    BY <1>6, FrontendConstants DEF ProcessEnds, Forget
  <2>2. QED
    BY <2>1 DEF RoomLeft
<1>7. CASE (BootFails \/ RunFails) /\ ~ProcessEnds
  <2>1. Len(input') = 0 /\ UNCHANGED <<to_send, batch>>
    BY <1>7 DEF BootFails, RunFails, Panic, uiVars
  <2>2. QED
    BY <2>1 DEF Kept, Roles, TypeOK, RoomLeft
<1>8. QED
  BY <1>1, <1>2, <1>3, <1>4, <1>5, <1>6, <1>7 DEF Emulator, EmuWorks

\* The UI and the emulator never wait for each other, for channels of any size,
\* provided one pass over the event pump sends no more input than the input
\* channel holds.  The proviso is needed: run frontend_batch shows the deadlock
\* of the code, whose passes have no bound.
THEOREM NoCircularWaitHolds == ASSUME MaxBatch <= InputCap PROVE Spec => []NoCircularWait
<1>1. RoomLeft /\ UNCHANGED vars => RoomLeft'
  BY DEF vars, uiVars, channelVars, emuVars, RoomLeft, Drained
<1>2. Kept /\ RoomLeft /\ [Next]_vars => RoomLeft'
  BY <1>1, UiRoom, EmulatorRoom DEF Next
<1>3. Kept /\ RoomLeft => NoCircularWait
  <2> SUFFICES ASSUME Kept, RoomLeft, ui = "Send", Len(input) = InputCap,
                      emu = "VSync", frame_recv, Len(frames) = FrameCap
               PROVE  FALSE
    BY DEF NoCircularWait
  <2>1. Len(input) + Len(to_send) <= batch /\ batch <= MaxBatch
    BY DEF Kept, Roles, TypeOK, RoomLeft, Drained
  <2>2. Len(to_send) \in Nat /\ Len(to_send) # 0
    BY DEF Kept, Roles, TypeOK
  <2>3. batch \in Nat
    BY DEF Kept, TypeOK
  <2>4. QED
    BY <2>1, <2>2, <2>3, FrontendConstants
<1>4. QED
  BY <1>2, <1>3, InitKept, NextKept, InitRoom, PTL DEF Spec

----------------------------------------------------------------------------
(* The save files. *)

\* What is kept of the files.
Files == SavedAtClose /\ FilesGood

\* The files of the first state.
LEMMA InitFiles == Init => Files
<1> SUFFICES ASSUME Init PROVE Files
  OBVIOUS
<1>1. emu = "None" /\ cut = {} /\ disk = [r \in Roms |-> 0] /\ saved = disk
  BY DEF Init
<1>2. \A r \in Roms : ~Writing(r) /\ disk[r] = 0 /\ saved[r] = 0
  BY <1>1 DEF Writing
<1>3. QED
  BY <1>1, <1>2 DEF Files, FilesGood, SavedAtClose, Torn

\* A step that leaves the machine and the files alone.
LEMMA FilesUntouched ==
  ASSUME UNCHANGED <<rom, ram, disk, saved, cut>>, Files, emu' = "Done" => emu = "Done",
         emu' \in {"Saving", "Closing"} <=> emu \in {"Saving", "Closing"},
         emu \in {"None", "Boot", "Dead"} => emu' \in {"None", "Boot", "Dead"}
  PROVE  Files'
<1>1. \A r \in Roms : Writing(r)' <=> Writing(r)
  BY DEF Writing
<1>2. SavedAtClose'
  BY DEF Files, SavedAtClose
<1>3. \A r \in Roms : disk'[r] \in {Torn, saved'[r]}
  BY DEF Files, FilesGood
<1>4. \A r \in Roms : disk'[r] = Torn <=> r \in cut' \/ Writing(r)'
  BY <1>1 DEF Files, FilesGood
<1>5. emu' \notin {"None", "Boot", "Dead"} =>
        IF rom' \in cut' THEN ram' = Torn ELSE ram' >= saved'[rom']
  BY DEF Files, FilesGood
<1>6. QED
  BY <1>2, <1>3, <1>4, <1>5 DEF Files, FilesGood

\* The end of the process, and a new machine, when nothing is being written.
LEMMA FilesLeft ==
  ASSUME Files, UNCHANGED <<disk, saved>>, cut' = cut \cup {r \in Roms : Writing(r)},
         emu' \in {"None", "Boot", "Dead"}
  PROVE  Files'
<1>1. \A r \in Roms : r \in cut' <=> r \in cut \/ Writing(r)
  OBVIOUS
<1>2. \A r \in Roms : (r \in cut \/ Writing(r)) <=> disk[r] = Torn
  BY DEF Files, FilesGood
<1>3. \A r \in Roms : r \in cut' <=> disk'[r] = Torn
  BY <1>1, <1>2
<1>4. emu' # "Done" /\ \A r \in Roms : ~Writing(r)'
  BY DEF Writing
<1>5. \A r \in Roms : disk'[r] \in {Torn, saved'[r]}
  BY DEF Files, FilesGood
<1>6. QED
  BY <1>3, <1>4, <1>5 DEF Files, FilesGood, SavedAtClose

\* Every step keeps the files good.
LEMMA NextFiles == Kept /\ Files /\ [Next]_vars => Files'
<1> SUFFICES ASSUME Kept, Files, [Next]_vars PROVE Files'
  OBVIOUS
<1>0. /\ disk \in [Roms -> Ram] /\ saved \in [Roms -> Ram \ {Torn}] /\ ram \in Ram
      /\ emu # "None" => rom \in Roms
  BY DEF Kept, TypeOK, Roles
<1>01. \A r \in Roms : saved[r] \in Nat
  BY <1>0 DEF Ram, Torn
<1>1. CASE LoadFirst \/ Join \/ Relaunch
  <2>1. \A r \in Roms : ~Writing(r)
    BY <1>1 DEF LoadFirst, Join, Relaunch, Writing, Kept, Roles
  <2>2. UNCHANGED <<disk, saved, cut>> /\ emu' \in {"None", "Boot"}
    BY <1>1, <2>1 DEF LoadFirst, Join, run_emulator, Relaunch, Forget, fileVars
  <2>3. QED
    BY <2>1, <2>2, FilesLeft
<1>2. CASE ProcessEnds
  BY <1>2, FilesLeft DEF ProcessEnds, Forget
<1>3. CASE LoadNext \/ KeyEvent \/ AxisEvent \/ SendInput \/ RecvFrame \/ PollEnds \/ Callback
  BY <1>3, FilesUntouched
     DEF LoadNext, KeyEvent, AxisEvent, SendInput, RecvFrame, PollEnds, Callback, emuVars, fileVars
<1>4. CASE Boot
  <2>1. ram' = disk[rom] /\ rom' = rom /\ rom \in Roms /\ emu' = "Run" /\ UNCHANGED fileVars
    BY <1>0, <1>4 DEF Boot, read_save
  <2>2. IF rom \in cut THEN disk[rom] = Torn ELSE disk[rom] = saved[rom]
    BY <1>0, <1>4, <2>1 DEF Boot, Files, FilesGood, Writing
  <2>3. IF rom' \in cut' THEN ram' = Torn ELSE ram' >= saved'[rom']
    BY <1>01, <2>1, <2>2 DEF fileVars
  <2>4. \A r \in Roms : ~Writing(r) /\ ~Writing(r)'
    BY <1>4, <2>1 DEF Boot, Writing
  <2>5. QED
    BY <2>1, <2>3, <2>4 DEF Files, FilesGood, SavedAtClose, fileVars
<1>5. CASE RunProgram
  <2>1. ram' = ram \/ (ram # Torn /\ ram' = ram + 1)
    BY <1>5 DEF RunProgram, Torn
  <2>2. emu = "Run" /\ emu' = "Run" /\ UNCHANGED <<rom, disk, saved, cut>> /\ rom \in Roms
    BY <1>0, <1>5 DEF RunProgram, fileVars
  <2>3. saved[rom] \in Nat /\ ram \in Int
    BY <1>0, <1>01, <2>2 DEF Ram, Torn
  <2>4. IF rom \in cut THEN ram = Torn ELSE ram >= saved[rom]
    BY <2>2 DEF Files, FilesGood
  <2>5. IF rom' \in cut' THEN ram' = Torn ELSE ram' >= saved'[rom']
    BY <2>1, <2>2, <2>3, <2>4
  <2>6. \A r \in Roms : Writing(r)' <=> Writing(r)
    BY <2>2 DEF Writing
  <2>7. QED
    BY <2>2, <2>5, <2>6 DEF Files, FilesGood, SavedAtClose
<1>6. CASE SoundDue \/ SendSound \/ ReachVBlank
  BY <1>6, FilesUntouched DEF SoundDue, SendSound, ReachVBlank, fileVars
<1>7. CASE vsync
  BY <1>7, FilesUntouched DEF vsync, fileVars
<1>8. CASE process_events
  BY <1>8, FilesUntouched DEF process_events, AfterEvents, fileVars
<1>9. CASE BeginSave
  <2>1. /\ rom \in Roms /\ emu' \in {"Saving", "Closing"} /\ emu \in {"Save", "Close"}
        /\ UNCHANGED <<rom, ram, saved, cut>>
    BY <1>0, <1>9 DEF BeginSave
  <2>2. disk' = [disk EXCEPT ![rom] = Torn]
    BY <1>9 DEF BeginSave
  <2>3. Writing(rom)' /\ \A r \in Roms : ~Writing(r)
    BY <2>1 DEF Writing
  <2>4. \A r \in Roms : disk'[r] = Torn \/ disk'[r] = disk[r]
    BY <1>0, <2>2
  <2>5. disk'[rom] = Torn /\ \A r \in Roms : r # rom => disk'[r] = disk[r]
    BY <1>0, <2>1, <2>2
  <2>6. \A r \in Roms : disk'[r] \in {Torn, saved'[r]}
    BY <2>1, <2>4 DEF Files, FilesGood
  <2>7. \A r \in Roms : Writing(r)' <=> r = rom
    BY <2>1 DEF Writing
  <2>8. \A r \in Roms : disk'[r] = Torn <=> r \in cut' \/ Writing(r)'
    BY <2>1, <2>3, <2>5, <2>7 DEF Files, FilesGood
  <2>9. IF rom' \in cut' THEN ram' = Torn ELSE ram' >= saved'[rom']
    BY <2>1 DEF Files, FilesGood
  <2>10. SavedAtClose'
    BY <2>1 DEF SavedAtClose
  <2>11. QED
    BY <2>6, <2>8, <2>9, <2>10 DEF Files, FilesGood
<1>10. CASE EndSave
  <2>1. /\ rom \in Roms /\ emu \in {"Saving", "Closing"} /\ emu' \in {"Close", "Run", "Done"}
        /\ UNCHANGED <<rom, ram, cut>>
    BY <1>0, <1>10 DEF EndSave, AfterEvents
  <2>2. disk' = [disk EXCEPT ![rom] = ram]
    BY <1>10 DEF EndSave
  <2>3. saved' = IF ram = Torn THEN saved ELSE [saved EXCEPT ![rom] = ram]
    BY <1>10 DEF EndSave
  <2>4. IF rom \in cut THEN ram = Torn ELSE ram >= saved[rom]
    BY <2>1 DEF Files, FilesGood
  <2>5. ram \in Int /\ (ram = Torn <=> rom \in cut)
    BY <1>0, <1>01, <2>1, <2>4 DEF Ram, Torn
  <2>6. disk'[rom] = ram /\ \A r \in Roms : r # rom => disk'[r] = disk[r]
    BY <1>0, <2>1, <2>2
  <2>7. saved'[rom] = (IF ram = Torn THEN saved[rom] ELSE ram) /\ \A r \in Roms : r # rom => saved'[r] = saved[r]
    BY <1>0, <2>1, <2>3
  <2>8. \A r \in Roms : ~Writing(r)' /\ (Writing(r) => r = rom)
    BY <2>1 DEF Writing
  <2>9. \A r \in Roms : disk'[r] \in {Torn, saved'[r]}
    BY <2>6, <2>7 DEF Files, FilesGood
  <2>10. \A r \in Roms : r # rom => (disk'[r] = Torn <=> r \in cut')
    BY <2>1, <2>6, <2>8 DEF Files, FilesGood
  <2>11. \A r \in Roms : disk'[r] = Torn <=> r \in cut' \/ Writing(r)'
    BY <2>1, <2>5, <2>6, <2>8, <2>10
  <2>12. IF rom' \in cut' THEN ram' = Torn ELSE ram' >= saved'[rom']
    BY <2>1, <2>5, <2>7
  <2>13. SavedAtClose'
    BY <2>1, <2>6 DEF SavedAtClose
  <2>14. QED
    BY <2>9, <2>11, <2>12, <2>13 DEF Files, FilesGood
<1>11. CASE UNCHANGED vars
  BY <1>11, FilesUntouched DEF vars, emuVars, fileVars
<1>12. CASE (BootFails \/ RunFails) /\ ~ProcessEnds
  <2>1. \A r \in Roms : ~Writing(r)
    BY <1>12 DEF BootFails, RunFails, Writing
  <2>2. UNCHANGED <<disk, saved, cut>> /\ emu' = "Dead"
    BY <1>12 DEF BootFails, RunFails, Panic, fileVars
  <2>3. QED
    BY <2>1, <2>2, FilesLeft
<1>13. Quit \/ SendFails => ProcessEnds
  BY DEF Quit, SendFails
<1>14. QED
  BY <1>1, <1>2, <1>3, <1>4, <1>5, <1>6, <1>7, <1>8, <1>9, <1>10, <1>11, <1>12, <1>13
     DEF Next, Ui, UiWaits, Emulator, EmuWorks

\* When the emulator thread has ended by a change of ROM, the save file holds
\* its last RAM.
THEOREM SavedAtCloseHolds == Spec => []SavedAtClose
<1>1. Files => SavedAtClose
  BY DEF Files
<1>2. QED
  BY <1>1, InitKept, NextKept, InitFiles, NextFiles, PTL DEF Spec

\* The progress of a complete save stays in the file, but for the time of a
\* write and for good when the process has ended inside one.
THEOREM SaveForwardHolds == Spec => SaveForward
<1> DEFINE Good(r) == IF r \in cut' THEN disk'[r] = Torn ELSE disk'[r] >= saved[r] \/ Writing(r)'
<1>1. Kept /\ Files /\ [Next]_vars /\ Kept' /\ Files' => [\A r \in Roms : Good(r)]_vars
  <2> SUFFICES ASSUME Kept, Files, Next, Kept', Files', NEW r \in Roms PROVE Good(r)
    OBVIOUS
  <2>0. saved \in [Roms -> Ram \ {Torn}] /\ (emu = "Saving" \/ emu = "Closing" => rom \in Roms)
    BY DEF Kept, TypeOK, Roles
  <2>1. saved[r] \in Int
    BY <2>0 DEF Ram, Torn
  <2>2. r \in cut' => disk'[r] = Torn
    BY DEF Files, FilesGood
  <2>3. SUFFICES ASSUME r \notin cut', ~Writing(r)' PROVE disk'[r] >= saved[r]
    BY <2>2
  <2>4. disk'[r] = saved'[r]
    BY <2>3 DEF Files, FilesGood
  <2>5. saved'[r] >= saved[r]
    <3>1. CASE EndSave
      <4>1. saved' = IF ram = Torn THEN saved ELSE [saved EXCEPT ![rom] = ram]
        BY <3>1 DEF EndSave
      <4>2. ram # Torn => ram >= saved[rom]
        BY <3>1 DEF EndSave, Files, FilesGood
      <4>3. QED
        BY <2>0, <2>1, <4>1, <4>2
    <3>2. CASE ~EndSave
      <4>1. saved' = saved
        BY <3>2 DEF Next, Ui, UiWaits, Emulator, EmuWorks, LoadFirst, LoadNext, Join, Quit, Relaunch,
              SendFails, ProcessEnds, BootFails, RunFails, Panic,
              Forget, KeyEvent, AxisEvent, SendInput, PollEnds, RecvFrame, Callback, Boot,
              RunProgram, SoundDue, SendSound, ReachVBlank, vsync, process_events, BeginSave, fileVars
      <4>2. QED
        BY <2>1, <4>1
    <3>3. QED
      BY <3>1, <3>2
  <2>6. QED
    BY <2>4, <2>5
<1>2. [\A r \in Roms : Good(r)]_vars <=>
      [\A r \in Roms : IF r \in cut' THEN disk'[r] = Torn ELSE disk'[r] >= saved[r] \/ Writing(r)']_vars
  OBVIOUS
<1> HIDE DEF Good
<1>3. QED
  BY <1>1, <1>2, InitKept, NextKept, InitFiles, NextFiles, PTL DEF Spec, SaveForward

----------------------------------------------------------------------------
(* The input. *)

\* What the running machine has been told of its buttons.
Known(t, k) == [b \in Buttons |-> b \in t /\ k[b]]

\* The buttons told of after one report more.
Told(t, e) == t \cup {e.button}

\* A report more is a press more.
LEMMA KnownNext ==
  ASSUME NEW t, NEW k \in [Buttons -> BOOLEAN], NEW e \in InputEvents
  PROVE  /\ Known(Told(t, e), Press(k, e)) = Press(Known(t, k), e)
         /\ Press(k, e) \in [Buttons -> BOOLEAN]
<1> DEFINE u == Told(t, e)
           l == Press(k, e)
<1>0. e.button \in Buttons /\ e.down \in BOOLEAN
  BY DEF InputEvents
<1>1. ASSUME NEW b \in Buttons
      PROVE  (b \in u /\ l[b]) = IF b = e.button THEN e.down ELSE (b \in t /\ k[b])
  BY <1>0 DEF Told, Press
<1>2. Press(Known(t, k), e) = [b \in Buttons |-> IF b = e.button THEN e.down ELSE (b \in t /\ k[b])]
  BY <1>0 DEF Press, Known
<1>3. Known(u, l) = Press(Known(t, k), e)
  BY <1>1, <1>2 DEF Known
<1>4. l \in [Buttons -> BOOLEAN]
  BY <1>0 DEF Press
<1>5. QED
  BY <1>3, <1>4

\* The property, in these terms.
LEMMA FaithfulKnown ==
  InputFaithful <=> (emu # "Dead" => Pressed(buttons, input \o to_send) = Known(told, keys))
BY DEF InputFaithful, Known

\* At first nothing is pressed nor on its way.
LEMMA InitFaithful == Init => InputFaithful
<1> SUFFICES ASSUME Init PROVE InputFaithful
  OBVIOUS
<1>1. buttons = Released /\ input \o to_send = << >> /\ told = {}
  BY DEF Init
<1>2. Known(told, keys) = Released
  BY <1>1 DEF Known, Released
<1>3. QED
  BY <1>1, <1>2, PressedEmpty, FaithfulKnown

\* A step that leaves the input alone.
LEMMA FaithfulUntouched ==
  ASSUME UNCHANGED <<buttons, input, to_send, keys, told>>, emu = "Dead" => emu' = "Dead",
         InputFaithful
  PROVE  InputFaithful'
BY DEF InputFaithful

\* Every step keeps the input faithful: an event moves from the UI to the
\* channel to the buttons without a loss, a double or a change of order.
LEMMA NextFaithful == Kept /\ InputFaithful /\ [Next]_vars => InputFaithful'
<1> SUFFICES ASSUME Kept, InputFaithful, [Next]_vars PROVE InputFaithful'
  OBVIOUS
<1>0. /\ input \in Seq(InputEvents) /\ to_send \in Seq(InputEvents)
      /\ keys \in [Buttons -> BOOLEAN]
      /\ ui = "Poll" => to_send = << >>
      /\ ui = "Send" => to_send # << >>
  BY DEF Kept, TypeOK, Roles
<1>00. emu # "Dead" => Pressed(buttons, input \o to_send) = Known(told, keys)
  BY FaithfulKnown
<1>01. (emu' # "Dead" => Pressed(buttons', input' \o to_send') = Known(told', keys')) => InputFaithful'
  BY DEF InputFaithful, Known
<1>1. CASE LoadFirst \/ Join \/ ProcessEnds \/ Relaunch
  <2>1. buttons' = Released /\ input' = << >> /\ to_send' = << >> /\ told' = {}
    BY <1>1 DEF LoadFirst, Join, run_emulator, ProcessEnds, Relaunch, Forget
  <2>2. << >> \o << >> = << >>
    OBVIOUS
  <2>3. Known(told', keys') = Released
    BY <2>1 DEF Known, Released
  <2>4. QED
    BY <1>01, <2>1, <2>2, <2>3, PressedEmpty
<1>2. CASE KeyEvent
  <2>1. PICK e \in InputEvents : /\ to_send' = << e >>
                                 /\ keys' = [keys EXCEPT ![e.button] = e.down]
                                 /\ told' = told \cup {e.button}
    BY <1>2 DEF KeyEvent
  <2>2. UNCHANGED <<input, buttons, emu>> /\ to_send = << >>
    BY <1>0, <1>2 DEF KeyEvent, channelVars, emuVars
  <2>3. input \o << >> = input /\ input \o << e >> = Append(input, e)
    BY <1>0
  <2>4. SUFFICES ASSUME emu # "Dead" PROVE Pressed(buttons, Append(input, e)) = Known(told', keys')
    BY <1>01, <2>1, <2>2, <2>3
  <2>5. Pressed(buttons, input) = Known(told, keys)
    BY <1>00, <2>2, <2>3, <2>4
  <2>6. Pressed(buttons, Append(input, e)) = Press(Known(told, keys), e)
    BY <1>0, <2>5, PressedAppend
  <2>7. Known(told', keys') = Press(Known(told, keys), e)
    <3>1. told' = Told(told, e) /\ keys' = Press(keys, e)
      BY <2>1 DEF Told, Press
    <3>2. QED
      BY <1>0, <3>1, KnownNext
  <2>8. QED
    BY <2>6, <2>7
<1>3. CASE AxisEvent
  <2>1. PICK neg, pos \in BOOLEAN :
          /\ to_send' = <<[button |-> Left, down |-> neg], [button |-> Right, down |-> pos]>>
          /\ keys' = [keys EXCEPT ![Left] = neg, ![Right] = pos]
          /\ told' = told \cup {Left, Right}
    BY <1>3 DEF AxisEvent
  <2> DEFINE e == [button |-> Left, down |-> neg]
             f == [button |-> Right, down |-> pos]
             one == Append(input, e)
             t == Told(told, e)
             k == Press(keys, e)
  <2>2. UNCHANGED <<input, buttons, emu>> /\ to_send = << >>
    BY <1>0, <1>3 DEF AxisEvent, channelVars, emuVars
  <2>3. e \in InputEvents /\ f \in InputEvents
    BY FrontendConstants DEF InputEvents
  <2>4. told' = Told(t, f) /\ keys' = Press(k, f)
    BY <2>1 DEF Told, Press
  <2>5. to_send' = << e, f >>
    BY <2>1
  <2> HIDE DEF e, f
  <2>6. /\ input \o << >> = input /\ input \o << e, f >> = Append(one, f)
        /\ one \in Seq(InputEvents)
    BY <1>0, <2>3
  <2> HIDE DEF one
  <2>7. SUFFICES ASSUME emu # "Dead" PROVE Pressed(buttons, Append(one, f)) = Known(told', keys')
    BY <1>01, <2>2, <2>5, <2>6
  <2>8. Pressed(buttons, input) = Known(told, keys)
    BY <1>00, <2>2, <2>6, <2>7
  <2>9. Known(t, k) = Press(Known(told, keys), e) /\ k \in [Buttons -> BOOLEAN]
    BY <1>0, <2>3, KnownNext
  <2> HIDE DEF t, k
  <2>10. Pressed(buttons, one) = Known(t, k)
    BY <1>0, <2>3, <2>8, <2>9, PressedAppend DEF one
  <2>11. Pressed(buttons, Append(one, f)) = Press(Known(t, k), f)
    BY <2>3, <2>6, <2>10, PressedAppend
  <2>12. Known(told', keys') = Press(Known(t, k), f)
    BY <2>3, <2>4, <2>9, KnownNext
  <2>13. QED
    BY <2>11, <2>12
<1>4. CASE SendInput
  <2>1. /\ input' = Append(input, Head(to_send)) /\ to_send' = Tail(to_send)
        /\ to_send # << >> /\ UNCHANGED <<buttons, keys, told, emu>>
    BY <1>0, <1>4 DEF SendInput, emuVars
  <2>2. Append(input, Head(to_send)) \o Tail(to_send) = input \o to_send
    BY <1>0, <2>1
  <2>3. QED
    BY <1>00, <1>01, <2>1, <2>2
<1>5. CASE process_events
  <2>1. /\ input' = << >> /\ buttons' = Pressed(buttons, input)
        /\ UNCHANGED <<to_send, keys, told>> /\ emu # "Dead"
    BY <1>5 DEF process_events, input_update, uiVars
  <2>2. << >> \o to_send = to_send
    BY <1>0
  <2>3. Pressed(Pressed(buttons, input), to_send) = Pressed(buttons, input \o to_send)
    BY <1>0, PressedConcat
  <2>4. QED
    BY <1>00, <1>01, <2>1, <2>2, <2>3
<1>6. CASE LoadNext \/ RecvFrame \/ PollEnds \/ Callback
  BY <1>6, FaithfulUntouched DEF LoadNext, RecvFrame, PollEnds, Callback, uiVars, channelVars, emuVars
<1>7. CASE Boot \/ RunProgram \/ SoundDue \/ SendSound \/ ReachVBlank \/ vsync \/ BeginSave \/ EndSave
  BY <1>7, FaithfulUntouched DEF Boot, RunProgram, SoundDue, SendSound, ReachVBlank, vsync,
     BeginSave, EndSave, uiVars, channelVars
<1>8. CASE UNCHANGED vars
  BY <1>8, FaithfulUntouched DEF vars, uiVars, channelVars, emuVars
<1>9. CASE (BootFails \/ RunFails) /\ ~ProcessEnds
  <2>1. emu' = "Dead"
    BY <1>9 DEF BootFails, RunFails, Panic
  <2>2. QED
    BY <1>01, <2>1
<1>10. Quit \/ SendFails => ProcessEnds
  BY DEF Quit, SendFails
<1>11. QED
  BY <1>1, <1>2, <1>3, <1>4, <1>5, <1>6, <1>7, <1>8, <1>9, <1>10
     DEF Next, Ui, UiWaits, Emulator, EmuWorks

\* No input event is lost, doubled or reordered between the event pump and the
\* buttons of the machine it was meant for, for queues of any length.
THEOREM InputFaithfulHolds == Spec => []InputFaithful
BY InitKept, NextKept, InitFaithful, NextFaithful, PTL DEF Spec
============================================================================
