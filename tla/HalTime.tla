------------------------------ MODULE HalTime -------------------------------
(***************************************************************************)
(* common/hal-mps2.c and common/hal-stm32f4.c: the cycle counter.  SysTick *)
(* counts down from Period - 1 to 0, raises its interrupt and is reloaded  *)
(* by the next tick; the handler counts the periods in the 64-bit          *)
(* overflowcnt, and hal_get_time puts the two together without disabling   *)
(* the interrupt.  The processor reads and writes 32-bit words, so the     *)
(* handler may run between the two halves of a read of overflowcnt; which  *)
(* half is read first, or both at once (ldrd), is the compiler's choice.   *)
(*                                                                         *)
(* Time is counted from the last reload before the first state: SystemInit *)
(* of the MPS2 board clears the counter, systick_setup of the STM32F4      *)
(* starts it wherever it stands.                                           *)
(***************************************************************************)
EXTENDS Integers

CONSTANTS
  Period,   \* ticks between two reloads, 2^24
  Base,     \* values of a word, 2^32
  Latency,  \* ticks from the interrupt being raised to the handler, at most
  Pass,     \* ticks of one pass through the loop of hal_get_time, about
  MaxTime   \* bound of the model: no tick after it

ASSUME HalTimeAssumption ==
  /\ {Period, Base, Latency, Pass, MaxTime} \subseteq Nat
  /\ Base > 1
  /\ Latency > 0
  /\ Latency + Pass + 1 < Period

VARIABLES
  now,      \* ticks since the counter was started: what the code measures
  val,      \* SysTick->VAL
  pending,  \* 1 while the interrupt is raised and the handler has not run
  late,     \* accesses of the thread completed while it was pending
  cnt,      \* the two words of overflowcnt
  pc,       \* where the thread is: "out" or an access of hal_get_time
  todo,     \* the words of overflowcnt this access has still to read
  before,   \* the local variable
  again,    \* the value overflowcnt == before compares with
  result,   \* the local variable, and the value of the last call
  start,    \* when the current pass of the loop began
  called,   \* when the current or last call began
  passes,   \* how many passes it has begun
  first     \* overflowcnt when the current pass began

vars == <<now, val, pending, late, cnt, pc, todo, before, again, result,
          start, called, passes, first>>
thread == <<pc, todo, before, again, result, start, called, passes, first>>

Word == {"lo", "hi"}
Value(c) == c["hi"] * Base + c["lo"]

\* ++overflowcnt, an addition with carry.
Inc(c) ==
  IF c["lo"] < Base - 1 THEN [c EXCEPT !["lo"] = @ + 1]
  ELSE [c EXCEPT !["lo"] = 0, !["hi"] = @ + 1]

\* Ticks since the counter was last reloaded (it shows 0 for one tick first).
Phase(v) == IF v = 0 THEN 0 ELSE Period - v

Init ==
  /\ val \in 1 .. Period - 1
  /\ now = Period - val
  /\ pending = 0
  /\ late = 0
  /\ cnt = [w \in Word |-> 0]
  /\ pc = "out"
  /\ todo = {}
  /\ before = cnt
  /\ again = cnt
  /\ result = 0
  /\ start = 0
  /\ called = 0
  /\ passes = 0
  /\ first = cnt

-----------------------------------------------------------------------------
\* The handler is entered when Latency has passed, a pass of the loop takes no
\* longer than Pass ticks apart from the ticks it waits for the handler.
Tick ==
  /\ pending = 1 => Phase(val) < Latency
  /\ \/ now < MaxTime /\ (pc # "out" => now - start < Pass)
     \/ pending = 1 /\ val = 0
  /\ now' = now + 1
  /\ val' = IF val = 0 THEN Period - 1 ELSE val - 1
  /\ pending' = IF val = 1 THEN 1 ELSE pending
  /\ UNCHANGED <<late, cnt, thread>>

\* Entering the handler takes at least one tick.
SysTick_Handler ==
  /\ pending = 1
  /\ val # 0
  /\ cnt' = Inc(cnt)
  /\ pending' = 0
  /\ late' = 0
  /\ UNCHANGED <<now, val, thread>>

\* At most one access of the thread completes after the interrupt is raised.
Access ==
  /\ late = 0
  /\ late' = pending
  /\ UNCHANGED <<now, val, pending, cnt>>

BeginPass ==
  /\ pc' = "before"
  /\ todo' = Word
  /\ start' = now
  /\ first' = cnt

hal_get_time ==
  /\ pc = "out"
  /\ BeginPass
  /\ called' = now
  /\ passes' = 1
  /\ UNCHANGED <<now, val, pending, late, cnt, before, again, result>>

\* The words ws of overflowcnt are read into buf.
Load(buf, ws) == [w \in Word |-> IF w \in ws THEN cnt[w] ELSE buf[w]]

read_before(ws) ==
  /\ pc = "before"
  /\ Access
  /\ before' = Load(before, ws)
  /\ todo' = todo \ ws
  /\ pc' = IF todo' = {} THEN "val" ELSE "before"
  /\ UNCHANGED <<again, result, start, called, passes, first>>

read_val ==
  /\ pc = "val"
  /\ Access
  /\ result' = (Value(before) + 1) * Period - val
  /\ pc' = "again"
  /\ todo' = Word
  /\ UNCHANGED <<before, again, start, called, passes, first>>

read_again(ws) ==
  /\ pc = "again"
  /\ todo # {}
  /\ Access
  /\ again' = Load(again, ws)
  /\ todo' = todo \ ws
  /\ UNCHANGED <<pc, before, result, start, called, passes, first>>

\* if (overflowcnt == before).  Mutant: only the high words are compared.
Unchecked == again["hi"] = before["hi"]
Unchanged == again = before

return ==
  /\ pc = "again"
  /\ todo = {}
  /\ Unchanged
  /\ pc' = "out"
  /\ UNCHANGED <<now, val, pending, late, cnt, todo, before, again, result,
                 start, called, passes, first>>

\* Mutant: the next pass does not read overflowcnt into before again.
retry_stale ==
  /\ pc = "again"
  /\ todo = {}
  /\ ~ Unchanged
  /\ pc' = "val"
  /\ start' = now
  /\ first' = cnt
  /\ passes' = passes + 1
  /\ UNCHANGED <<now, val, pending, late, cnt, todo, before, again, result, called>>

\* Mutant: only overflowcnt is read again, never before.
retry_compare ==
  /\ pc = "again"
  /\ todo = {}
  /\ ~ Unchanged
  /\ todo' = Word
  /\ UNCHANGED <<now, val, pending, late, cnt, pc, before, again, result,
                 start, called, passes, first>>

retry ==
  /\ pc = "again"
  /\ todo = {}
  /\ ~ Unchanged
  /\ BeginPass
  /\ passes' = passes + 1
  /\ UNCHANGED <<now, val, pending, late, cnt, before, again, result, called>>

Step ==
  \/ \E ws \in (SUBSET todo) \ {{}} : read_before(ws) \/ read_again(ws)
  \/ read_val
  \/ return
  \/ retry

Next == Tick \/ SysTick_Handler \/ hal_get_time \/ Step

Spec ==
  /\ Init /\ [][Next]_vars
  /\ WF_vars(Step) /\ WF_vars(SysTick_Handler) /\ WF_vars(Tick)

-----------------------------------------------------------------------------
TypeOK ==
  /\ now \in Nat
  /\ val \in 0 .. Period - 1
  /\ pending \in {0, 1} /\ late \in {0, 1}
  /\ {cnt, before, again, first} \subseteq [Word -> Nat]
  /\ {cnt["lo"], first["lo"]} \subseteq 0 .. Base - 1
  /\ pc \in {"out", "before", "val", "again"}
  /\ todo \subseteq Word
  /\ result \in Int
  /\ {start, called, passes} \subseteq Nat

\* The time a call returns is a time during the call: not a tick before the
\* call began and not a tick later than now, wherever the counter wraps and the
\* handler runs.  Two calls one after the other never see time go back.
InCall == called <= result /\ result <= now
ReturnsTrueTime == pc = "out" /\ passes > 0 => InCall

\* The loop is passed through at most twice.
RetriesAtMostOnce == passes <= 2

\* Every call returns.
CallReturns == (pc # "out") ~> (pc = "out")

-----------------------------------------------------------------------------
\* The handler lags behind the counter by at most one period.
Clock ==
  /\ now = Period * (Value(cnt) + pending) + Phase(val)
  /\ val = 0 => pending = 1
  /\ pending = 1 => Phase(val) <= Latency
  /\ late <= pending

\* During a pass the handler runs at most once.
AtMostOneHandler ==
  /\ \/ now <= start + Pass
     \/ now = start + Pass + 1 /\ val = Period - 1
  /\ \/ cnt = first
     \/ cnt = Inc(first) /\ start <= Period * Value(cnt) + Latency

ReadSoFar == IF pc = "before" THEN Word \ todo ELSE Word

\* A wrong result is noticed: overflowcnt has become another value than before,
\* or will be one when the thread makes its next access.
WrongIsNoticed ==
  InCall \/ /\ before # Inc(first)
            /\ cnt = first => late = 1
            /\ \A w \in Word \ todo : again[w] = Inc(first)[w]

PassOK ==
  /\ called <= start /\ start <= now
  /\ AtMostOneHandler
  /\ cnt = first => \A w \in ReadSoFar : before[w] = first[w]
  /\ pc = "again" => WrongIsNoticed

IInv ==
  /\ TypeOK
  /\ Clock
  /\ pc # "out" => PassOK
  /\ ReturnsTrueTime
=============================================================================
