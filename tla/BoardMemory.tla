---------------------------- MODULE BoardMemory -----------------------------
(***************************************************************************)
(* How much stack a call needs, as common/hal-mps2.c and hal-stm32f4.c     *)
(* measure it: hal_spraystack fills the memory between the heap and the    *)
(* stack with a pattern, the call runs, and hal_checkstack looks for the   *)
(* first word that has changed.  Both are loops over memory that is in     *)
(* use: the SysTick interrupt pushes a frame below the stack pointer at    *)
(* any time, also in the middle of a loop, and the C library moves the end *)
(* of the heap.  Addresses count words.                                    *)
(***************************************************************************)
EXTENDS Integers

CONSTANTS
  Top,       \* the stack pointer of the program that measures
  Frame,     \* words that hal_spraystack itself has on the stack
  Pushed,    \* words that an interrupt pushes
  HeapStart, \* where the heap may begin
  MaxPushes  \* how many interrupts there are at most

\* What the parameters must be.
BoardMemoryParameters ==
  /\ {Top, Frame, Pushed, MaxPushes} \subseteq Nat
  /\ HeapStart \subseteq 0 .. Top - Frame - 1

Words == 0 .. Top - 1

VARIABLES
  at,        \* what runs: "program", "spray", "call", "check"
  sprayed,   \* the words that hold the pattern
  heap_end, sp, last_sp,
  pointer,   \* the register that goes through memory
  size,      \* the words that hal_checkstack returns
  used,      \* the words that the measured call has changed
  pushed,    \* the words that interrupts have changed since the spray began
  pushes,
  freed      \* memory was given back to the heap since the spray began

memoryVars == <<at, sprayed, heap_end, sp, last_sp, pointer, size, used, pushed, pushes, freed>>

MemoryInit ==
  /\ at = "program" /\ sprayed = {} /\ heap_end \in HeapStart
  /\ sp = Top /\ last_sp = 0 /\ pointer = 0 /\ size = 0
  /\ used = {} /\ pushed = {} /\ pushes = 0 /\ freed = FALSE

-----------------------------------------------------------------------------
hal_spraystack ==
  /\ at = "program" /\ last_sp = 0
  /\ sp' = Top - Frame /\ last_sp' = sp' /\ pointer' = heap_end
  /\ at' = "spray" /\ pushed' = {} /\ freed' = FALSE
  /\ UNCHANGED <<sprayed, heap_end, size, used, pushes>>

\* str, cmp, blt: the test comes after the store.
\* Mutant: the loop goes on while the pointer is not above the stack pointer.
SprayTooFar == pointer' <= sp
SprayOn == pointer' < last_sp

spray_word ==
  /\ at = "spray"
  /\ sprayed' = sprayed \cup {pointer} /\ pointer' = pointer + 1
  /\ IF SprayOn THEN UNCHANGED <<at, sp>> ELSE at' = "ready" /\ sp' = Top
  /\ UNCHANGED <<heap_end, last_sp, size, used, pushed, pushes, freed>>

\* The measured call takes some stack, writes to some of its words and returns.
call ==
  /\ at = "ready"
  /\ \E depth \in 1 .. Top - heap_end - Pushed : sp' = Top - depth
  /\ at' = "call"
  /\ UNCHANGED <<sprayed, heap_end, last_sp, pointer, size, used, pushed, pushes, freed>>

write ==
  /\ at = "call"
  /\ \E w \in (sp .. Top - 1) \ used : used' = used \cup {w} /\ sprayed' = sprayed \ {w}
  /\ UNCHANGED <<at, heap_end, sp, last_sp, pointer, size, pushed, pushes, freed>>

return ==
  /\ at = "call"
  /\ sp' = Top /\ at' = "measure"
  /\ UNCHANGED <<sprayed, heap_end, last_sp, pointer, size, used, pushed, pushes, freed>>

\* sub: all of the memory that was sprayed, until words are found untouched.
hal_checkstack ==
  /\ at = "measure"
  /\ size' = last_sp - heap_end /\ pointer' = heap_end
  /\ at' = "check"
  /\ UNCHANGED <<sprayed, heap_end, sp, last_sp, used, pushed, pushes, freed>>

Stop == pointer \notin sprayed

check_word ==
  /\ at = "check"
  /\ pointer' = pointer + 1
  /\ IF Stop THEN at' = "measured" /\ UNCHANGED size
     ELSE size' = size - 1 /\ at' = IF pointer' < last_sp THEN at ELSE "measured"
  /\ UNCHANGED <<sprayed, heap_end, sp, last_sp, used, pushed, pushes, freed>>

\* SysTick: the frame of the interrupt goes below the stack pointer.
interrupt ==
  /\ pushes < MaxPushes /\ sp - Pushed >= heap_end
  /\ LET frame == sp - Pushed .. sp - 1 IN
     /\ sprayed' = sprayed \ frame
     /\ pushed' = pushed \cup frame
  /\ pushes' = pushes + 1
  /\ UNCHANGED <<at, heap_end, sp, last_sp, pointer, size, used, freed>>

\* The heap stays below the stack: below what is pushed on it, below the frame
\* of hal_spraystack, and below all words that were ever stack.
BelowStack(end) ==
  /\ end < sp - Pushed /\ end < Top - Frame
  /\ \A w \in used \cup pushed : end <= w

\* The library takes memory and writes to it, or gives it back; nothing checks
\* the heap against the stack, so that this model has to.
__wrap__sbrk ==
  /\ at \in {"program", "ready", "call", "measure"}
  /\ \E incr \in {-1, 1} :
       /\ BelowStack(heap_end + incr)
       /\ \E low \in HeapStart : low <= heap_end + incr
       /\ heap_end' = heap_end + incr
       /\ sprayed' = IF incr = 1 THEN sprayed \ {heap_end} ELSE sprayed
       /\ freed' = (freed \/ incr = -1)
  /\ UNCHANGED <<at, sp, last_sp, pointer, size, used, pushed, pushes>>

MemoryNext ==
  \/ hal_spraystack \/ spray_word \/ call \/ write \/ return
  \/ hal_checkstack \/ check_word \/ interrupt \/ __wrap__sbrk

MemorySpec == MemoryInit /\ [][MemoryNext]_memoryVars

-----------------------------------------------------------------------------
\* How far below the frame of hal_spraystack a word is.
Depth(w) == last_sp - w

\* Spraying writes to no word that is in use: it stays below its own frame.  And
\* hal_checkstack never returns less than the call has used below the frame of
\* hal_spraystack, and not more than what the call and the interrupts together
\* have, unless the heap became smaller in between.
StackMeasured ==
  /\ \A w \in sprayed : w < Top - Frame
  /\ at = "measured" =>
       /\ size >= 0 /\ \A w \in used : size >= Depth(w)
       /\ ~ freed => size = 0 \/ \E w \in used \cup pushed : size <= Depth(w)
=============================================================================
