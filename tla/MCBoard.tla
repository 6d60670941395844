------------------------------ MODULE MCBoard -------------------------------
(* The services of common/ that keep state: the clock (HalTime), with a      *)
(* period of 16 ticks and words of one bit, so that the carry into the high  *)
(* word comes with the second of four wraps; the random bytes (RandomBytes), *)
(* with words of one bit and blocks of four bytes, so that 28 bytes take the *)
(* counter through fourteen of its sixteen values and the carry into every   *)
(* word; and stack and heap (BoardMemory), nine words of memory with         *)
(* interrupts at any two moments.  They share nothing: a behaviour is of one *)
(* of them while the others rest.                                            *)
EXTENDS HalTime

CONSTANTS
  Half, MaxLen, MaxBytes, MaxDrawn,         \* of RandomBytes
  Top, Frame, Pushed, HeapStart, MaxPushes  \* of BoardMemory

VARIABLES
  hardware, drawn, in, out_buf, outleft, inCall, xlen, asked, output,  \* of RandomBytes
  at, sprayed, heap_end, sp, last_sp, pointer, size, used, pushed, pushes,
  freed,   \* of BoardMemory
  service  \* the one that runs

Random == INSTANCE RandomBytes
Memory == INSTANCE BoardMemory

ASSUME BoardAssumption == Random!RandomBytesParameters /\ Memory!BoardMemoryParameters

random == <<hardware, drawn, in, out_buf, outleft, inCall, xlen, asked, output>>
memory == <<at, sprayed, heap_end, sp, last_sp, pointer, size, used, pushed, pushes, freed>>
board == <<vars, random, memory, service>>

BoardInit ==
  /\ service \in {"clock", "random", "memory"}
  /\ Init /\ (service # "clock" => val = 1)
  /\ Random!Init /\ (service # "random" => ~hardware)
  /\ Memory!MemoryInit /\ (service # "memory" => heap_end = 1)

Clocked(A) == service = "clock" /\ A /\ UNCHANGED <<random, memory, service>>

BoardNext ==
  \/ Clocked(Next)
  \/ service = "random" /\ Random!Next /\ UNCHANGED <<vars, memory, service>>
  \/ service = "memory" /\ Memory!MemoryNext /\ UNCHANGED <<vars, random, service>>

BoardSpec ==
  /\ BoardInit /\ [][BoardNext]_board
  /\ WF_board(Clocked(Step)) /\ WF_board(Clocked(SysTick_Handler)) /\ WF_board(Clocked(Tick))

-----------------------------------------------------------------------------
\* randombytes: requests are served in full, from one fixed stream, in order.
OutputIsStream == Random!OutputIsStream

\* hal_checkstack: never too little, too much only by what interrupts pushed.
StackMeasured == Memory!StackMeasured
=============================================================================
