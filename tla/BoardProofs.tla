---------------------------- MODULE BoardProofs -----------------------------
(***************************************************************************)
(* The services of common/ for every value of their constants.             *)
(*                                                                         *)
(* hal_get_time returns a time of its call, and passes through its loop at *)
(* most twice.  The inductive invariant is HalTime!IInv: the counter and   *)
(* the handler agree up to the pending interrupt (Clock), the handler runs *)
(* at most once in a pass (AtMostOneHandler), and a pass whose result is   *)
(* wrong will see that overflowcnt differs from before (WrongIsNoticed).   *)
(*                                                                         *)
(* randombytes hands out one stream: RandomInv says how many blocks have   *)
(* been computed, from which counter, and how much of the last is left.    *)
(*                                                                         *)
(* hal_checkstack never measures too little: MemoryInv says where the      *)
(* pattern still is while the loops go through the memory.                 *)
(***************************************************************************)
EXTENDS MCBoard, Sequences, TLAPS

-----------------------------------------------------------------------------
(*                              The clock                                  *)

\* One more interrupt is one more in the value of the two words, and always
\* changes the low word.
LEMMA IncValue ==
  ASSUME NEW c \in [Word -> Nat], c["lo"] \in 0 .. Base - 1
  PROVE  /\ Inc(c) \in [Word -> Nat]
         /\ Inc(c)["lo"] \in 0 .. Base - 1
         /\ Value(Inc(c)) = Value(c) + 1
         /\ Inc(c) # c
<1>1. CASE c["lo"] < Base - 1
  <2>1. Inc(c) = [c EXCEPT !["lo"] = @ + 1]  BY <1>1 DEF Inc
  <2>2. QED  BY <2>1, <1>1, HalTimeAssumption DEF Value, Word
<1>2. CASE ~ (c["lo"] < Base - 1)
  <2>1. Inc(c) = [c EXCEPT !["lo"] = 0, !["hi"] = @ + 1]  BY <1>2 DEF Inc
  <2>2. c["lo"] = Base - 1  BY <1>2, HalTimeAssumption
  <2>3. c["hi"] \in Nat /\ (c["hi"] + 1) * Base = c["hi"] * Base + Base
    BY HalTimeAssumption DEF Word
  <2>4. QED  BY <2>1, <2>2, <2>3, HalTimeAssumption DEF Value, Word
<1>3. QED  BY <1>1, <1>2

LEMMA ValueType == ASSUME NEW c \in [Word -> Nat] PROVE Value(c) \in Nat
  BY HalTimeAssumption DEF Value, Word

LEMMA InitInv == Init => IInv
<1> SUFFICES ASSUME Init PROVE IInv  OBVIOUS
<1> USE HalTimeAssumption
<1>1. cnt \in [Word -> Nat] /\ Value(cnt) = 0  BY DEF Init, Value, Word
<1>2. TypeOK  BY <1>1 DEF Init, TypeOK, Word
<1>3. Clock  BY <1>1 DEF Init, Clock, Phase
<1>4. QED  BY <1>2, <1>3 DEF Init, IInv, ReturnsTrueTime

-----------------------------------------------------------------------------
\* The actions of the timer and of the handler.

LEMMA TickInv == IInv /\ Tick => IInv'
<1> SUFFICES ASSUME IInv, Tick PROVE IInv'  OBVIOUS
<1> USE HalTimeAssumption
<1>1. TypeOK /\ Clock /\ Value(cnt) \in Nat  BY ValueType DEF IInv, TypeOK
<1>2. now' = now + 1 /\ UNCHANGED <<late, cnt, pc, todo, before, again, result, start, called, passes, first>>
  BY DEF Tick, thread
<1>3. TypeOK'
  BY <1>1, <1>2 DEF TypeOK, Tick
<1>4. Clock'
  <2>1. CASE val = 0
    <3>1. pending = 1 /\ now = Period * (Value(cnt) + 1)
      BY <1>1, <2>1 DEF Clock, Phase
    <3>2. val' = Period - 1 /\ pending' = 1 /\ Value(cnt') = Value(cnt)
      BY <1>2, <2>1, <3>1 DEF Tick, Value
    <3>3. Phase(val') = 1  BY <3>2 DEF Phase
    <3>4. QED  BY <1>1, <1>2, <3>1, <3>2, <3>3 DEF Clock
  <2>2. CASE val = 1
    <3>1. pending = 0 /\ now = Period * Value(cnt) + Period - 1
      BY <1>1, <2>2 DEF Clock, Tick, Phase, TypeOK
    <3>2. Period * (Value(cnt) + 1) = Period * Value(cnt) + Period  BY <1>1
    <3>3. val' = 0 /\ pending' = 1 /\ Value(cnt') = Value(cnt)  BY <1>2, <2>2 DEF Tick, Value
    <3>4. QED  BY <1>1, <1>2, <3>1, <3>2, <3>3 DEF Clock, Phase, TypeOK
  <2>3. CASE val \notin {0, 1}
    <3>1. val' = val - 1 /\ pending' = pending /\ val' # 0 /\ val # 0
      BY <1>1, <2>3 DEF Tick, TypeOK
    <3>2. Phase(val') = Phase(val) + 1  BY <1>1, <3>1 DEF Phase, TypeOK
    <3>3. Value(cnt') = Value(cnt)  BY <1>2
    <3>4. pending = 1 => Phase(val) < Latency  BY DEF Tick
    <3>5. Phase(val) \in Int  BY <1>1 DEF Phase, TypeOK
    <3>6. now' = Period * (Value(cnt') + pending') + Phase(val')
      <4> DEFINE P == Period * (Value(cnt) + pending)
      <4>1. now = P + Phase(val)  BY <1>1 DEF Clock
      <4>2. P \in Int  BY <1>1 DEF TypeOK
      <4> HIDE DEF P
      <4>3. now' = P + Phase(val')  BY <4>1, <4>2, <3>2, <3>5, <1>2
      <4>4. QED  BY <4>3, <3>1, <3>3 DEF P
    <3>7. QED  BY <1>1, <1>2, <3>1, <3>2, <3>4, <3>5, <3>6 DEF Clock
  <2>4. QED  BY <2>1, <2>2, <2>3
<1>5. pc # "out" => PassOK'
  <2> SUFFICES ASSUME pc # "out" PROVE PassOK'  OBVIOUS
  <2>1. PassOK  BY DEF IInv
  <2>2. now' <= start' + Pass \/ (now' = start' + Pass + 1 /\ val' = Period - 1)
    <3>1. now <= start + Pass \/ (now = start + Pass + 1 /\ val = Period - 1)
      BY <2>1 DEF PassOK, AtMostOneHandler
    <3>2. CASE now - start < Pass  BY <1>1, <1>2, <3>2 DEF TypeOK
    <3>3. CASE pending = 1 /\ val = 0
      <4>1. val' = Period - 1  BY <3>3 DEF Tick
      <4>2. now <= start + Pass  BY <3>1, <3>3
      <4>3. QED  BY <1>1, <1>2, <4>1, <4>2 DEF TypeOK
    <3>4. QED  BY <3>2, <3>3 DEF Tick
  <2>3. AtMostOneHandler'
    BY <2>1, <2>2, <1>2 DEF PassOK, AtMostOneHandler, Inc, Value
  <2>4. called' <= start' /\ start' <= now'  BY <2>1, <1>1, <1>2 DEF PassOK, TypeOK
  <2>5. cnt' = first' => \A w \in ReadSoFar' : before'[w] = first'[w]
    BY <2>1, <1>2 DEF PassOK, ReadSoFar
  <2>6. InCall => InCall'  BY <1>1, <1>2 DEF InCall, TypeOK
  <2>7. WrongIsNoticed => WrongIsNoticed'
    BY <2>6, <1>2 DEF WrongIsNoticed, Inc, Tick
  <2>8. QED  BY <2>1, <2>3, <2>4, <2>5, <2>7, <1>2 DEF PassOK
<1>6. QED  BY <1>2, <1>3, <1>4, <1>5 DEF IInv, ReturnsTrueTime, InCall, TypeOK

LEMMA HandlerInv == IInv /\ SysTick_Handler => IInv'
<1> SUFFICES ASSUME IInv, SysTick_Handler PROVE IInv'  OBVIOUS
<1> USE HalTimeAssumption
<1>1. TypeOK /\ Clock /\ Value(cnt) \in Nat  BY ValueType DEF IInv, TypeOK
<1>2. /\ UNCHANGED <<now, val, pc, todo, before, again, result, start, called, passes, first>>
      /\ pending = 1 /\ val # 0 /\ pending' = 0 /\ late' = 0 /\ cnt' = Inc(cnt)
  BY DEF SysTick_Handler, thread
<1>3. cnt \in [Word -> Nat] /\ cnt["lo"] \in 0 .. Base - 1  BY <1>1 DEF TypeOK
<1>4. /\ cnt' \in [Word -> Nat] /\ cnt'["lo"] \in 0 .. Base - 1
      /\ Value(cnt') = Value(cnt) + 1
  BY <1>2, <1>3, IncValue
<1>5. TypeOK'  BY <1>1, <1>2, <1>4 DEF TypeOK
<1>6. now = Period * (Value(cnt) + 1) + Phase(val) /\ Phase(val) <= Latency
  BY <1>1, <1>2 DEF Clock
<1>7. Phase(val) \in 1 .. Latency  BY <1>1, <1>2, <1>6 DEF Phase, TypeOK
<1>8. Clock'
  <2>1. now' = Period * (Value(cnt') + pending') + Phase(val')
    BY <1>2, <1>4, <1>6, <1>1
  <2>2. QED  BY <2>1, <1>2 DEF Clock
<1>9. pc # "out" => PassOK'
  <2> SUFFICES ASSUME pc # "out" PROVE PassOK'  OBVIOUS
  <2>1. PassOK  BY DEF IInv
  <2>2. now <= start + Pass + 1 /\ start <= now /\ {now, start} \subseteq Nat
    BY <2>1, <1>1 DEF PassOK, AtMostOneHandler, TypeOK
  <2>3. ~ (start <= Period * Value(cnt) + Latency)
    \* the handler has run in this pass already: too early for a second time
    <3>1. Period * (Value(cnt) + 1) = Period * Value(cnt) + Period  BY <1>1
    <3>2. Period * Value(cnt) \in Int  BY <1>1
    <3>3. QED  BY <3>1, <3>2, <2>2, <1>6, <1>7
  <2>4. cnt = first  BY <2>1, <2>3 DEF PassOK, AtMostOneHandler
  <2>5. cnt' = Inc(first') /\ first' = first /\ cnt' # first'
    BY <2>4, <1>2, <1>3, IncValue
  <2>6. start' <= Period * Value(cnt') + Latency
    <3>1. Period * (Value(cnt) + 1) \in Int  BY <1>1
    <3>2. start <= Period * (Value(cnt) + 1) + Latency  BY <3>1, <2>2, <1>6, <1>7
    <3>3. QED  BY <3>2, <1>2, <1>4
  <2>7. AtMostOneHandler'
    BY <2>1, <2>5, <2>6, <1>2 DEF PassOK, AtMostOneHandler
  <2>8. WrongIsNoticed => WrongIsNoticed'
    BY <2>5, <1>2 DEF WrongIsNoticed, InCall, Inc
  <2>9. QED  BY <2>1, <2>5, <2>7, <2>8, <1>2 DEF PassOK
<1>10. QED  BY <1>2, <1>5, <1>8, <1>9 DEF IInv, ReturnsTrueTime, InCall

-----------------------------------------------------------------------------
\* The steps of the thread.

LEMMA ThreadClock ==
  ASSUME IInv, UNCHANGED <<now, val, pending, cnt>>, late' \in {late, pending}
  PROVE  Clock' /\ Value(cnt) \in Nat
<1>1. TypeOK /\ Clock  BY DEF IInv
<1>2. late' <= pending'  BY <1>1 DEF Clock, TypeOK
<1>3. now' = Period * (Value(cnt') + pending') + Phase(val')
  BY <1>1 DEF Clock, Value, Phase
<1>4. pending' = 1 => Phase(val') <= Latency  BY <1>1 DEF Clock, Phase
<1>5. QED  BY <1>1, <1>2, <1>3, <1>4, ValueType DEF Clock, TypeOK

\* What a pass begins with.
LEMMA BeginPassInv ==
  ASSUME IInv, BeginPass, called' <= now, UNCHANGED <<now, val, pending, cnt>>
  PROVE  PassOK'
<1> USE HalTimeAssumption
<1>1. pc' = "before" /\ ReadSoFar' = {} /\ start' = now' /\ first' = cnt'
  BY DEF BeginPass, ReadSoFar
<1>2. now \in Nat /\ now' = now  BY DEF IInv, TypeOK
<1>3. AtMostOneHandler'  BY <1>1, <1>2 DEF AtMostOneHandler
<1>4. QED  BY <1>1, <1>2, <1>3 DEF PassOK

LEMMA BeginInv == IInv /\ (hal_get_time \/ retry) => IInv'
<1> SUFFICES ASSUME IInv, hal_get_time \/ retry PROVE IInv'  OBVIOUS
<1>1. /\ BeginPass
      /\ UNCHANGED <<now, val, pending, late, cnt, before, again, result>>
      /\ called' \in {called, now} /\ passes' \in {1, passes + 1}
      /\ pc = "out" => called' = now
  BY DEF hal_get_time, retry
<1>2. TypeOK  BY DEF IInv
<1>3. TypeOK'  BY <1>1, <1>2 DEF TypeOK, BeginPass
<1>4. Clock'  BY <1>1, ThreadClock
<1>5. called' <= now
  <2>1. pc # "out" => called <= now  BY <1>2 DEF IInv, PassOK, TypeOK
  <2>2. QED  BY <2>1, <1>1, <1>2 DEF TypeOK
<1>6. PassOK'  BY <1>1, <1>5, BeginPassInv
<1>7. pc' = "before"  BY <1>1 DEF BeginPass
<1>8. QED  BY <1>3, <1>4, <1>6, <1>7 DEF IInv, ReturnsTrueTime

\* A word that is read is a word of overflowcnt.
LEMMA LoadValue ==
  ASSUME NEW buf \in [Word -> Nat], NEW ws \in SUBSET Word, cnt \in [Word -> Nat]
  PROVE  /\ Load(buf, ws) \in [Word -> Nat]
         /\ \A w \in ws : Load(buf, ws)[w] = cnt[w]
         /\ \A w \in Word \ ws : Load(buf, ws)[w] = buf[w]
  BY DEF Load

\* What the thread's own steps do not disturb.
LEMMA KeepPass ==
  ASSUME IInv, pc # "out", pc' # "out", UNCHANGED <<now, val, cnt, start, called, first>>
  PROVE  /\ called' <= start' /\ start' <= now'
         /\ AtMostOneHandler'
  BY DEF IInv, PassOK, AtMostOneHandler, Inc, Value

LEMMA ReadBeforeInv ==
  ASSUME NEW ws \in SUBSET todo, IInv, read_before(ws) PROVE IInv'
<1>1. /\ pc = "before" /\ late = 0 /\ late' = pending
      /\ UNCHANGED <<now, val, pending, cnt, again, result, start, called, passes, first>>
      /\ before' = Load(before, ws) /\ todo' = todo \ ws
      /\ pc' = IF todo' = {} THEN "val" ELSE "before"
  BY DEF read_before, Access
<1>2. TypeOK /\ ws \in SUBSET Word  BY DEF IInv, TypeOK
<1>3. /\ before' \in [Word -> Nat]
      /\ \A w \in ws : before'[w] = cnt[w]
      /\ \A w \in Word \ ws : before'[w] = before[w]
  BY <1>1, <1>2, LoadValue DEF TypeOK
<1>4. TypeOK'  BY <1>1, <1>2, <1>3 DEF TypeOK
<1>5. Clock'  BY <1>1, ThreadClock
<1>6. pc' # "out" /\ pc' # "again" /\ pc # "out"  BY <1>1
<1>7. cnt' = first' => \A w \in ReadSoFar' : before'[w] = first'[w]
  <2>1. ReadSoFar = Word \ todo  BY <1>1 DEF ReadSoFar
  <2>2. ReadSoFar' = Word \ (todo \ ws)  BY <1>1 DEF ReadSoFar
  <2>3. cnt = first => \A w \in Word \ todo : before[w] = first[w]
    BY <1>6, <2>1 DEF IInv, PassOK
  <2>4. QED  BY <2>2, <2>3, <1>1, <1>2, <1>3
<1>8. PassOK'  BY <1>1, <1>6, <1>7, KeepPass DEF PassOK
<1>9. QED  BY <1>4, <1>5, <1>6, <1>8 DEF IInv, ReturnsTrueTime

\* When the handler has run in this pass, the next wrap is still to come.
LEMMA HandlerRan ==
  ASSUME IInv, pc # "out", cnt # first
  PROVE  cnt = Inc(first) /\ pending = 0
<1> USE HalTimeAssumption
<1>1. TypeOK /\ Clock /\ Value(cnt) \in Nat /\ PassOK  BY ValueType DEF IInv, TypeOK
<1>2. cnt = Inc(first) /\ start <= Period * Value(cnt) + Latency
  BY <1>1 DEF PassOK, AtMostOneHandler
<1>3. pending # 1
  <2> SUFFICES ASSUME pending = 1 PROVE FALSE  OBVIOUS
  <2>1. now = Period * (Value(cnt) + 1) + Phase(val)  BY <1>1 DEF Clock
  <2>2. Phase(val) \in Nat  BY <1>1 DEF Phase, TypeOK
  <2>3. now <= start + Pass + 1 /\ start \in Nat
    BY <1>1 DEF PassOK, AtMostOneHandler, TypeOK
  <2>4. Period * (Value(cnt) + 1) = Period * Value(cnt) + Period  BY <1>1
  <2>5. Period * Value(cnt) \in Int  BY <1>1
  <2>6. QED  BY <2>1, <2>2, <2>3, <2>4, <2>5, <1>2
<1>4. QED  BY <1>1, <1>2, <1>3 DEF TypeOK

\* Apart from the ticks between a wrap and its handler, the two variables give
\* the time.
LEMMA ExactTime ==
  ASSUME TypeOK, Clock, pending = 0 \/ val = 0
  PROVE  (Value(cnt) + 1) * Period - val = now
<1> USE HalTimeAssumption
<1>1. Value(cnt) \in Nat  BY ValueType DEF TypeOK
<1>2. (Value(cnt) + 1) * Period = Period * Value(cnt) + Period
      /\ Period * (Value(cnt) + 1) = Period * Value(cnt) + Period
      /\ Period * Value(cnt) \in Int
  BY <1>1
<1>3. CASE pending = 0
  <2>1. val # 0 /\ now = Period * Value(cnt) + (Period - val)
    BY <1>3, <1>1 DEF Clock, Phase
  <2>2. QED  BY <2>1, <1>2 DEF TypeOK
<1>4. CASE val = 0
  <2>1. now = Period * (Value(cnt) + 1) + 0  BY <1>4, <1>1 DEF Clock, Phase
  <2>2. QED  BY <2>1, <1>2, <1>4
<1>5. QED  BY <1>3, <1>4

LEMMA ReadValInv == IInv /\ read_val => IInv'
<1> SUFFICES ASSUME IInv, read_val PROVE IInv'  OBVIOUS
<1>1. /\ pc = "val" /\ late = 0 /\ late' = pending
      /\ UNCHANGED <<now, val, pending, cnt, before, again, start, called, passes, first>>
      /\ result' = (Value(before) + 1) * Period - val
      /\ pc' = "again" /\ todo' = Word
  BY DEF read_val, Access
<1>2. TypeOK /\ Clock /\ PassOK  BY <1>1 DEF IInv
<1>3. TypeOK'
  <2>1. Value(before) \in Nat  BY <1>2, ValueType DEF TypeOK
  <2>2. result' \in Int  BY <2>1, <1>1, <1>2, HalTimeAssumption DEF TypeOK
  <2>3. QED  BY <2>2, <1>1, <1>2 DEF TypeOK
<1>4. Clock'  BY <1>1, ThreadClock
<1>5. ReadSoFar = Word /\ ReadSoFar' = Word  BY <1>1 DEF ReadSoFar
<1>6. cnt = first => before = first
  <2> SUFFICES ASSUME cnt = first PROVE before = first  OBVIOUS
  <2>1. \A w \in Word : before[w] = first[w]  BY <1>2, <1>5 DEF PassOK
  <2>2. QED  BY <2>1, <1>2 DEF TypeOK
<1>7. Inc(first) # first  BY <1>2, IncValue DEF TypeOK
<1>8. before = cnt /\ (pending = 0 \/ val = 0) => InCall'
  <2> SUFFICES ASSUME before = cnt, pending = 0 \/ val = 0 PROVE InCall'  OBVIOUS
  <2>1. result' = now  BY <1>1, <1>2, ExactTime
  <2>2. called' <= now'  BY <1>1, <1>2 DEF PassOK, TypeOK
  <2>3. QED  BY <2>1, <2>2, <1>1, <1>2 DEF InCall, TypeOK
<1>9. WrongIsNoticed'
  <2>1. Word \ todo' = {}  BY <1>1
  <2>2. CASE cnt = first
    <3>1. before # Inc(first)  BY <1>6, <1>7, <2>2
    <3>2. pending = 1 => late' = 1  BY <1>1
    <3>3. CASE pending = 0  BY <1>6, <1>8, <2>2, <3>3 DEF WrongIsNoticed
    <3>4. CASE pending = 1
      BY <1>1, <2>1, <3>1, <3>2, <3>4 DEF WrongIsNoticed, Inc
    <3>5. QED  BY <3>3, <3>4, <1>2 DEF TypeOK
  <2>3. CASE cnt # first
    <3>1. cnt = Inc(first) /\ pending = 0  BY <2>3, <1>1, HandlerRan
    <3>2. CASE before = Inc(first)  BY <3>1, <3>2, <1>8 DEF WrongIsNoticed
    <3>3. CASE before # Inc(first)  BY <1>1, <2>1, <2>3, <3>3 DEF WrongIsNoticed, Inc
    <3>4. QED  BY <3>2, <3>3
  <2>4. QED  BY <2>2, <2>3
<1>10. cnt' = first' => \A w \in ReadSoFar' : before'[w] = first'[w]
  BY <1>1, <1>5, <1>6
<1>11. PassOK'
  <2>1. pc # "out" /\ pc' # "out"  BY <1>1
  <2>2. QED  BY <1>1, <2>1, <1>9, <1>10, KeepPass DEF PassOK
<1>12. QED  BY <1>1, <1>3, <1>4, <1>11 DEF IInv, ReturnsTrueTime

LEMMA ReadAgainInv ==
  ASSUME NEW ws \in SUBSET todo, IInv, read_again(ws) PROVE IInv'
<1>1. /\ pc = "again" /\ late = 0 /\ late' = pending
      /\ UNCHANGED <<now, val, pending, cnt, pc, before, result, start, called, passes, first>>
      /\ again' = Load(again, ws) /\ todo' = todo \ ws
  BY DEF read_again, Access
<1>2. TypeOK /\ PassOK /\ ws \in SUBSET Word  BY <1>1 DEF IInv, TypeOK
<1>3. /\ again' \in [Word -> Nat]
      /\ \A w \in ws : again'[w] = cnt[w]
      /\ \A w \in Word \ ws : again'[w] = again[w]
  BY <1>1, <1>2, LoadValue DEF TypeOK
<1>4. TypeOK'  BY <1>1, <1>2, <1>3 DEF TypeOK
<1>5. Clock'  BY <1>1, ThreadClock
<1>6. WrongIsNoticed'
  <2>1. CASE InCall  BY <2>1, <1>1 DEF WrongIsNoticed, InCall
  <2>2. CASE ~ InCall
    <3>1. /\ before # Inc(first)
          /\ cnt = first => late = 1
          /\ \A w \in Word \ todo : again[w] = Inc(first)[w]
      BY <2>2, <1>1, <1>2 DEF PassOK, WrongIsNoticed
    <3>2. cnt # first  BY <3>1, <1>1
    <3>3. cnt = Inc(first)  BY <3>2, <1>1, HandlerRan
    <3>4. \A w \in Word \ todo' : again'[w] = Inc(first)[w]
      BY <3>1, <3>3, <1>1, <1>2, <1>3
    <3>5. Inc(first') = Inc(first)  BY <1>1 DEF Inc
    <3>6. QED  BY <3>1, <3>2, <3>4, <3>5, <1>1 DEF WrongIsNoticed
  <2>3. QED  BY <2>1, <2>2
<1>7. PassOK'
  <2>1. pc # "out" /\ pc' # "out" /\ ReadSoFar' = ReadSoFar
    BY <1>1 DEF ReadSoFar
  <2>2. cnt' = first' => \A w \in ReadSoFar' : before'[w] = first'[w]
    BY <2>1, <1>1, <1>2 DEF PassOK
  <2>3. QED  BY <1>1, <2>1, <2>2, <1>6, KeepPass DEF PassOK
<1>8. QED  BY <1>1, <1>4, <1>5, <1>7 DEF IInv, ReturnsTrueTime

\* A pass that ends with the two reads equal has a right result.
LEMMA ReturnInv == IInv /\ return => IInv'
<1> SUFFICES ASSUME IInv, return PROVE IInv'  OBVIOUS
<1>1. /\ pc = "again" /\ todo = {} /\ again = before /\ pc' = "out"
      /\ UNCHANGED <<now, val, pending, late, cnt, todo, before, again, result,
                     start, called, passes, first>>
  BY DEF return, Unchanged
<1>2. TypeOK /\ PassOK  BY <1>1 DEF IInv
<1>3. TypeOK'  BY <1>1, <1>2 DEF TypeOK
<1>4. Clock'  BY <1>1, ThreadClock
<1>5. InCall
  <2> SUFFICES ASSUME ~ InCall PROVE FALSE  OBVIOUS
  <2>1. before # Inc(first) /\ \A w \in Word : again[w] = Inc(first)[w]
    BY <1>1, <1>2 DEF PassOK, WrongIsNoticed
  <2>2. Inc(first) \in [Word -> Nat] /\ again \in [Word -> Nat]
    BY <1>2, IncValue DEF TypeOK
  <2>3. again = Inc(first)  BY <2>1, <2>2
  <2>4. QED  BY <2>1, <2>3, <1>1
<1>6. InCall'  BY <1>1, <1>5 DEF InCall
<1>7. QED  BY <1>1, <1>3, <1>4, <1>6 DEF IInv, ReturnsTrueTime

-----------------------------------------------------------------------------
LEMMA StepInv == IInv /\ [Next]_vars => IInv'
<1> SUFFICES ASSUME IInv, [Next]_vars PROVE IInv'  OBVIOUS
<1>1. CASE Tick  BY <1>1, TickInv
<1>2. CASE SysTick_Handler  BY <1>2, HandlerInv
<1>3. CASE hal_get_time \/ retry  BY <1>3, BeginInv
<1>4. CASE \E ws \in (SUBSET todo) \ {{}} : read_before(ws) \/ read_again(ws)
  BY <1>4, ReadBeforeInv, ReadAgainInv
<1>5. CASE read_val  BY <1>5, ReadValInv
<1>6. CASE return  BY <1>6, ReturnInv
<1>7. CASE UNCHANGED vars
  BY <1>7 DEF vars, IInv, TypeOK, Clock, Value, Phase, PassOK, AtMostOneHandler, Inc,
     ReadSoFar, WrongIsNoticed, InCall, ReturnsTrueTime
<1>8. QED  BY <1>1, <1>2, <1>3, <1>4, <1>5, <1>6, <1>7 DEF Next, Step

THEOREM HalTimeInvariant == Spec => []IInv
<1>1. Init => IInv  BY InitInv
<1>2. IInv /\ [Next]_vars => IInv'  BY StepInv
<1>3. QED  BY <1>1, <1>2, PTL DEF Spec

\* The value hal_get_time returns is a time between the call and the return,
\* however the timer, the handler and the reads of the two words interleave.
THEOREM HalTimeReturnsTrueTime == Spec => []ReturnsTrueTime
<1>1. IInv => ReturnsTrueTime  BY DEF IInv
<1>2. QED  BY <1>1, HalTimeInvariant, PTL

\* No counter of the code or of the model leaves its range.
THEOREM HalTimeTypes == Spec => []TypeOK
<1>1. IInv => TypeOK  BY DEF IInv
<1>2. QED  BY <1>1, HalTimeInvariant, PTL

-----------------------------------------------------------------------------
(*  The number of passes  *)

\* A second pass begins after a handler that ran in the first one, so soon that
\* no other runs before it ends; without a handler the two reads are equal.
RetryInv ==
  /\ passes <= 2
  /\ pc # "out" =>
       /\ passes > 0
       /\ passes = 2 => cnt = first /\ start <= Period * Value(first) + Latency + Pass + 1
       /\ pc = "again" /\ cnt = first => \A w \in Word \ todo : again[w] = first[w]

LEMMA RetryStepInv ==
  ASSUME Latency + 2 * Pass + 2 < Period, IInv, RetryInv, [Next]_vars
  PROVE  RetryInv'
<1> USE HalTimeAssumption
<1>1. TypeOK /\ Clock /\ Value(cnt) \in Nat /\ Value(first) \in Nat
  BY ValueType DEF IInv, TypeOK
<1>2. CASE Tick
  BY <1>2 DEF Tick, thread, RetryInv, Value
<1>3. CASE SysTick_Handler
  <2>1. UNCHANGED thread /\ cnt' = Inc(cnt) /\ cnt' # cnt /\ pending = 1
    BY <1>1, <1>3, IncValue DEF SysTick_Handler, TypeOK
  <2>2. ASSUME pc # "out", passes = 2 PROVE FALSE
    \* the second pass ends before the next wrap
    <3>1. cnt = first /\ start <= Period * Value(first) + Latency + Pass + 1
      BY <2>2 DEF RetryInv
    <3>2. now = Period * (Value(cnt) + 1) + Phase(val) /\ Phase(val) \in Nat
      BY <1>1, <2>1 DEF Clock, Phase, TypeOK
    <3>3. now <= start + Pass + 1
      BY <2>2, <1>1 DEF IInv, PassOK, AtMostOneHandler, TypeOK
    <3>4. Period * (Value(cnt) + 1) = Period * Value(cnt) + Period /\ Period * Value(cnt) \in Nat
      BY <1>1
    <3>5. QED
      BY <3>1, <3>2, <3>3, <3>4, <1>1 DEF TypeOK
  <2>3. pc # "out" => cnt' # first \/ cnt # first
    BY <2>1
  <2>4. pc # "out" => cnt' # first
    <3>1. ASSUME pc # "out", cnt # first PROVE FALSE
      BY <3>1, HandlerRan, <2>1
    <3>2. QED
      BY <3>1, <2>3, <2>1
  <2>5. QED
    BY <2>1, <2>2, <2>4 DEF thread, RetryInv
<1>4. CASE hal_get_time
  BY <1>1, <1>4 DEF hal_get_time, BeginPass, RetryInv
<1>5. ASSUME NEW ws \in SUBSET todo, read_before(ws) PROVE RetryInv'
  BY <1>5 DEF read_before, Access, RetryInv, Value
<1>6. ASSUME NEW ws \in SUBSET todo, read_again(ws) PROVE RetryInv'
  <2>1. cnt = first => \A w \in Word \ todo' : again'[w] = first[w]
    BY <1>1, <1>6 DEF read_again, Access, RetryInv, Load, TypeOK
  <2>2. QED
    BY <1>6, <2>1 DEF read_again, Access, RetryInv, Value
<1>7. CASE read_val
  BY <1>7 DEF read_val, Access, RetryInv, Value
<1>8. CASE return
  BY <1>8 DEF return, RetryInv, Value
<1>9. CASE retry
  <2>1. /\ pc = "again" /\ todo = {} /\ again # before
        /\ pc' = "before" /\ start' = now /\ first' = cnt /\ cnt' = cnt /\ passes' = passes + 1
    BY <1>9 DEF retry, BeginPass, Unchanged
  <2>2. PassOK
    BY <2>1 DEF IInv
  <2>3. cnt # first
    <3> SUFFICES ASSUME cnt = first PROVE FALSE
      OBVIOUS
    <3>1. \A w \in Word : before[w] = first[w]
      BY <2>1, <2>2 DEF PassOK, ReadSoFar
    <3>2. \A w \in Word : again[w] = first[w]
      BY <2>1 DEF RetryInv
    <3>3. again = before
      BY <3>1, <3>2, <1>1 DEF TypeOK
    <3>4. QED
      BY <3>3, <2>1
  <2>4. passes = 1
    BY <1>1, <2>1, <2>3 DEF RetryInv, TypeOK
  <2>5. start <= Period * Value(cnt) + Latency /\ now <= start + Pass + 1
    BY <1>1, <2>2, <2>3 DEF PassOK, AtMostOneHandler, TypeOK
  <2>6. start' <= Period * Value(first') + Latency + Pass + 1
    <3>1. Period * Value(cnt) \in Nat
      BY <1>1
    <3>2. Value(first') = Value(cnt)
      BY <2>1
    <3>3. QED
      BY <3>1, <3>2, <2>1, <2>5, <1>1 DEF TypeOK
  <2>7. QED
    BY <2>1, <2>4, <2>6 DEF RetryInv
<1>10. CASE UNCHANGED vars
  BY <1>10 DEF vars, RetryInv, Value
<1>11. QED
  BY <1>2, <1>3, <1>4, <1>5, <1>6, <1>7, <1>8, <1>9, <1>10 DEF Next, Step

\* The loop of hal_get_time ends with its second pass, when two passes and the
\* latency fit into a period.  ReturnsTrueTime only needs one pass to fit; with
\* less than two a third pass may be needed.
THEOREM HalTimeRetriesAtMostOnce ==
  ASSUME Latency + 2 * Pass + 2 < Period
  PROVE  Spec => []RetriesAtMostOnce
<1>1. Init => RetryInv
  BY DEF Init, RetryInv
<1>2. IInv /\ RetryInv /\ [Next]_vars => RetryInv'
  BY RetryStepInv
<1>3. RetryInv => RetriesAtMostOnce
  BY DEF RetryInv, RetriesAtMostOnce
<1>4. QED
  BY <1>1, <1>2, <1>3, HalTimeInvariant, PTL DEF Spec

-----------------------------------------------------------------------------
(*  Random bytes  *)

\* Quotient and remainder.
LEMMA Division ==
  ASSUME NEW a \in Nat, NEW d \in Nat, d > 0
  PROVE  /\ a \div d \in Nat /\ a % d \in 0 .. d - 1
         /\ a = d * (a \div d) + (a % d)
  BY SMTT(30)

\* They are the only ones.
LEMMA DivisionIs ==
  ASSUME NEW a \in Nat, NEW d \in Nat, d > 0, NEW q \in Nat, NEW r \in 0 .. d - 1, a = d * q + r
  PROVE  a \div d = q /\ a % d = r
  BY SMTT(30)

LEMMA DivisionExact ==
  ASSUME NEW a \in Nat, NEW d \in Nat, d > 0, NEW q \in Nat, a = d * q
  PROVE  a \div d = q /\ a % d = 0
  BY SMTT(30)

\* One more: the last digit goes up, and from the last value to zero with a carry.
LEMMA DigitCarry ==
  ASSUME NEW n \in Nat, Base \in Nat, Base > 1
  PROVE  /\ (n + 1) % Base = ((n % Base) + 1) % Base
         /\ (n + 1) \div Base = IF n % Base = Base - 1 THEN n \div Base + 1 ELSE n \div Base
<1>1. n \div Base \in Nat /\ n % Base \in 0 .. Base - 1 /\ n = Base * (n \div Base) + (n % Base)
  BY Division
<1>2. CASE n % Base = Base - 1
  <2> DEFINE q == n \div Base + 1
  <2>1. n + 1 = Base * q /\ Base = Base * 1 /\ q \in Nat /\ n + 1 \in Nat
    BY <1>1, <1>2
  <2> HIDE DEF q
  <2>2. (n + 1) \div Base = q /\ (n + 1) % Base = 0
    BY <2>1, DivisionExact
  <2>3. Base % Base = 0
    BY <2>1, DivisionExact
  <2>4. QED
    BY <1>1, <1>2, <2>2, <2>3 DEF q
<1>3. CASE n % Base # Base - 1
  <2> DEFINE r == (n % Base) + 1
  <2>1. n + 1 = Base * (n \div Base) + r /\ r = Base * 0 + r
    BY <1>1
  <2>2. r \in 0 .. Base - 1 /\ n + 1 \in Nat /\ r \in Nat
    BY <1>1, <1>3
  <2> HIDE DEF r
  <2>3. (n + 1) \div Base = n \div Base /\ (n + 1) % Base = r /\ r % Base = r
    BY <1>1, <2>1, <2>2, DivisionIs
  <2>4. QED
    BY <1>3, <2>3 DEF r
<1>4. QED
  BY <1>2, <1>3

LEMMA RandomConstants == Base \in Nat /\ Base > 1 /\ Half \in Nat /\ Half > 0 /\ Random!Size \in Nat /\ Random!Size = 2 * Half
  BY BoardAssumption, HalTimeAssumption DEF Random!RandomBytesParameters, Random!Size

\* The four digits of a number.
Digits(n) == <<n, n \div Base, (n \div Base) \div Base, ((n \div Base) \div Base) \div Base>>

LEMMA CounterDigits ==
  ASSUME NEW n \in Nat
  PROVE  /\ Random!CounterAt(n) = [k \in 0 .. 3 |-> Digits(n)[k + 1] % Base]
         /\ \A k \in 0 .. 3 : Digits(n)[k + 1] \in Nat
         /\ \A k \in 0 .. 3 : Digits(n)[k + 1] % Base \in 0 .. Base - 1
<1>1. \A x \in Nat : x \div Base \in Nat /\ x % Base \in 0 .. Base - 1
  BY RandomConstants, Division
<1>2. \A k \in 0 .. 3 : k = 0 \/ k = 1 \/ k = 2 \/ k = 3
  OBVIOUS
<1>3. n \div Base \in Nat /\ (n \div Base) \div Base \in Nat /\ ((n \div Base) \div Base) \div Base \in Nat
  BY <1>1
<1>4. \A k \in 0 .. 3 : Digits(n)[k + 1] \in Nat
  BY <1>2, <1>3 DEF Digits
<1>5. QED
  BY <1>1, <1>4 DEF Digits, Random!CounterAt

\* Adding one with the carry of randombytes_regen goes to the next number.
LEMMA CounterIncrement ==
  ASSUME NEW n \in Nat
  PROVE  Random!Increment(Random!CounterAt(n)) = Random!CounterAt(n + 1)
<1> DEFINE d == Digits(n)
           e == Digits(n + 1)
           c == Random!CounterAt(n)
<1>1. /\ c = [k \in 0 .. 3 |-> d[k + 1] % Base]
      /\ Random!CounterAt(n + 1) = [k \in 0 .. 3 |-> e[k + 1] % Base]
      /\ d[1] \in Nat /\ d[2] \in Nat /\ d[3] \in Nat /\ d[4] \in Nat
      /\ d[1] = n /\ e[1] = n + 1
      /\ \A k \in 1 .. 3 : d[k + 1] = d[k] \div Base /\ e[k + 1] = e[k] \div Base
  <2>1. \A k \in 1 .. 3 : k = 1 \/ k = 2 \/ k = 3
    OBVIOUS
  <2>2. QED
    BY <2>1, CounterDigits DEF Digits
<1> HIDE DEF c, d, e
<1>2. \A k \in 0 .. 3 : Random!Increment(c)[k] =
         IF \A j \in 0 .. k - 1 : c[j] = Base - 1 THEN (c[k] + 1) % Base ELSE c[k]
  BY DEF Random!Increment
<1>3. \A x \in Nat : /\ (x + 1) % Base = ((x % Base) + 1) % Base
                    /\ (x + 1) \div Base = IF x % Base = Base - 1 THEN x \div Base + 1 ELSE x \div Base
  BY RandomConstants, DigitCarry
\* as long as all lower digits are full, the number above them goes up by one
<1>4. \A k \in 0 .. 3 : e[k + 1] = IF \A j \in 0 .. k - 1 : c[j] = Base - 1 THEN d[k + 1] + 1 ELSE d[k + 1]
  <2>0. e[1] = d[1] + 1
    BY <1>1
  <2>1. e[2] = IF c[0] = Base - 1 THEN d[2] + 1 ELSE d[2]
    BY <1>1, <1>3, <2>0
  <2>2. e[3] = IF c[0] = Base - 1 /\ c[1] = Base - 1 THEN d[3] + 1 ELSE d[3]
    BY <1>1, <1>3, <2>1
  <2>3. e[4] = IF c[0] = Base - 1 /\ c[1] = Base - 1 /\ c[2] = Base - 1 THEN d[4] + 1 ELSE d[4]
    BY <1>1, <1>3, <2>2
  <2>4. QED
    <3> SUFFICES ASSUME NEW k \in 0 .. 3
                 PROVE e[k + 1] = IF \A j \in 0 .. k - 1 : c[j] = Base - 1 THEN d[k + 1] + 1 ELSE d[k + 1]
      OBVIOUS
    <3>1. CASE k = 0  BY <3>1, <2>0
    <3>2. CASE k = 1  BY <3>2, <2>1
    <3>3. CASE k = 2
      <4>1. (\A j \in 0 .. k - 1 : c[j] = Base - 1) <=> c[0] = Base - 1 /\ c[1] = Base - 1
        BY <3>3
      <4>2. QED  BY <3>3, <4>1, <2>2
    <3>4. CASE k = 3
      <4>1. (\A j \in 0 .. k - 1 : c[j] = Base - 1) <=> c[0] = Base - 1 /\ c[1] = Base - 1 /\ c[2] = Base - 1
        BY <3>4
      <4>2. QED  BY <3>4, <4>1, <2>3
    <3>5. QED  BY <3>1, <3>2, <3>3, <3>4
<1>5. \A k \in 0 .. 3 : e[k + 1] % Base = Random!Increment(c)[k]
  <2> SUFFICES ASSUME NEW k \in 0 .. 3 PROVE e[k + 1] % Base = Random!Increment(c)[k]
    OBVIOUS
  <2>1. c[k] = d[k + 1] % Base /\ d[k + 1] \in Nat
    <3>1. k = 0 \/ k = 1 \/ k = 2 \/ k = 3
      OBVIOUS
    <3>2. QED
      BY <3>1, <1>1
  <2>2. QED
    BY <2>1, <1>2, <1>3, <1>4
<1>6. Random!Increment(c) = [k \in 0 .. 3 |-> Random!Increment(c)[k]]
  BY DEF Random!Increment
<1>7. QED
  BY <1>1, <1>5, <1>6 DEF c

\* What a byte of output is: byte of a block, or byte of a hardware word.
Drawn == (Random!Counter \X (0 .. Half - 1)) \cup (Nat \X (0 .. 3))

RandomTypes ==
  /\ output \in Seq(Drawn)
  /\ xlen \in Nat /\ drawn \in Nat /\ outleft \in 0 .. Random!Size
  /\ Len(output) + xlen = asked
  /\ ~ inCall => xlen = 0

\* b blocks have been computed and all but the last are handed out.
Blocks(b) ==
  /\ Len(output) + outleft = Random!Size * b
  /\ in = Random!CounterAt(2 * b)
  /\ outleft > 0 => out_buf = [j \in 0 .. Random!Size - 1 |->
                       <<Random!CounterAt(2 * (b - 1) + 1 + j \div Half), j % Half>>]

\* Without hardware the output is the stream, and the next block its continuation.
FromCounter ==
  /\ \E b \in Nat : Blocks(b)
  /\ \A n \in 1 .. Len(output) : output[n] = Random!Stream(n - 1)

\* Bytes of hardware words are of words already drawn, and all different.
FromHardware ==
  /\ \A n \in 1 .. Len(output) : \E w \in 0 .. drawn - 1, k \in 0 .. 3 : output[n] = <<w, k>>
  /\ \A m, n \in 1 .. Len(output) : output[m] = output[n] => m = n

RandomInv == RandomTypes /\ IF hardware THEN FromHardware ELSE FromCounter

LEMMA RandomInitInv == Random!Init => RandomInv
<1> SUFFICES ASSUME Random!Init PROVE RandomInv
  OBVIOUS
<1>1. Random!CounterAt(0) = [k \in 0 .. 3 |-> 0]
  <2>1. 0 \div Base = 0 /\ 0 % Base = 0
    BY RandomConstants, DivisionExact
  <2>2. \A k \in 0 .. 3 : Digits(0)[k + 1] = 0
    <3> SUFFICES ASSUME NEW k \in 0 .. 3 PROVE Digits(0)[k + 1] = 0
      OBVIOUS
    <3>1. k = 0 \/ k = 1 \/ k = 2 \/ k = 3
      OBVIOUS
    <3>2. QED
      BY <2>1, <3>1 DEF Digits
  <2>3. \A k \in 0 .. 3 : Digits(0)[k + 1] % Base = 0
    BY <2>1, <2>2
  <2>4. Random!CounterAt(0) = [k \in 0 .. 3 |-> Digits(0)[k + 1] % Base]
    BY CounterDigits
  <2>5. QED
    BY <2>3, <2>4
<1>2. Blocks(0)
  BY <1>1, RandomConstants DEF Random!Init, Blocks
<1>3. RandomTypes
  BY RandomConstants DEF Random!Init, RandomTypes
<1>4. QED
  BY <1>2, <1>3 DEF Random!Init, RandomInv, FromCounter, FromHardware

\* What regen computes is the next block of the stream.
LEMMA RegenBlock ==
  ASSUME NEW b \in Nat, Blocks(b), outleft = 0, output \in Seq(Drawn), Random!randombytes_regen, output' = output
  PROVE  Blocks(b + 1)' /\ outleft' = Random!Size
<1> DEFINE c1 == Random!Increment(in)
           c2 == Random!Increment(c1)
<1>1. c1 = Random!CounterAt(2 * b + 1) /\ c2 = Random!CounterAt(2 * b + 2)
  BY CounterIncrement DEF Blocks
<1>2. /\ in' = c2 /\ outleft' = Random!Size
      /\ out_buf' = [j \in 0 .. Random!Size - 1 |->
                      IF j < Half THEN Random!surf(c1)[j] ELSE Random!surf(c2)[j - Half]]
  BY DEF Random!randombytes_regen, Random!SecondIncrement
<1> HIDE DEF c1, c2
<1>3. \A j \in 0 .. Random!Size - 1 :
         (IF j < Half THEN Random!surf(c1)[j] ELSE Random!surf(c2)[j - Half])
           = <<Random!CounterAt(2 * b + 1 + j \div Half), j % Half>>
  <2> SUFFICES ASSUME NEW j \in 0 .. Random!Size - 1
               PROVE (IF j < Half THEN Random!surf(c1)[j] ELSE Random!surf(c2)[j - Half])
                       = <<Random!CounterAt(2 * b + 1 + j \div Half), j % Half>>
    OBVIOUS
  <2>1. CASE j < Half
    <3>1. j = Half * 0 + j /\ j \in 0 .. Half - 1 /\ j \in Nat
      BY <2>1, RandomConstants
    <3>2. j \div Half = 0 /\ j % Half = j
      BY <3>1, RandomConstants, DivisionIs
    <3>3. QED
      BY <1>1, <2>1, <3>1, <3>2 DEF Random!surf
  <2>2. CASE j >= Half
    <3>1. j = Half * 1 + (j - Half) /\ j - Half \in 0 .. Half - 1 /\ j \in Nat
      BY <2>2, RandomConstants
    <3>2. j \div Half = 1 /\ j % Half = j - Half
      BY <3>1, RandomConstants, DivisionIs
    <3>3. QED
      BY <1>1, <2>2, <3>1, <3>2, RandomConstants DEF Random!surf
  <2>3. QED
    BY <2>1, <2>2, RandomConstants
<1>4. out_buf' = [j \in 0 .. Random!Size - 1 |->
                    <<Random!CounterAt(2 * (b + 1 - 1) + 1 + j \div Half), j % Half>>]
  BY <1>2, <1>3
<1>5. Len(output') + outleft' = Random!Size * (b + 1)
  <2>1. Random!Size * (b + 1) = Random!Size * b + Random!Size
    BY RandomConstants
  <2>2. Len(output) + 0 = Random!Size * b /\ Len(output) \in Nat
    BY DEF Blocks
  <2>3. QED
    BY <1>2, <2>1, <2>2, RandomConstants
<1>6. in' = Random!CounterAt(2 * (b + 1))
  BY <1>1, <1>2
<1>7. QED
  BY <1>2, <1>4, <1>5, <1>6 DEF Blocks

\* The byte at the end of what is left of the block is the next of the stream.
LEMMA NextByte ==
  ASSUME NEW b \in Nat, Blocks(b), outleft \in 1 .. Random!Size, output \in Seq(Drawn)
  PROVE  /\ out_buf[outleft - 1] = Random!Stream(Len(output))
         /\ out_buf[outleft - 1] \in Drawn
<1> DEFINE L == Len(output)
           S == Random!Size
<1>1. L \in Nat /\ S \in Nat /\ S > 0 /\ S = 2 * Half
  BY RandomConstants
<1>2. L + outleft = S * b /\ b > 0
  BY <1>1 DEF Blocks
<1>3. L = S * (b - 1) + (S - outleft) /\ S - outleft \in 0 .. S - 1 /\ b - 1 \in Nat
  BY <1>1, <1>2
<1>4. L \div S = b - 1 /\ L % S = S - outleft
  <2> HIDE DEF L, S
  <2>1. QED
    BY <1>1, <1>3, DivisionIs
<1>5. outleft - 1 \in 0 .. S - 1 /\ S - 1 - (S - outleft) = outleft - 1
  BY <1>1
<1>6. out_buf[outleft - 1] = <<Random!CounterAt(2 * (b - 1) + 1 + (outleft - 1) \div Half), (outleft - 1) % Half>>
  <2>1. out_buf = [j \in 0 .. S - 1 |-> <<Random!CounterAt(2 * (b - 1) + 1 + j \div Half), j % Half>>]
    BY DEF Blocks
  <2> HIDE DEF S
  <2>2. QED
    BY <1>5, <2>1
<1>7. (outleft - 1) \div Half \in Nat /\ (outleft - 1) % Half \in 0 .. Half - 1
  BY <1>5, RandomConstants, Division
<1>8. Random!CounterAt(2 * (b - 1) + 1 + (outleft - 1) \div Half) \in Random!Counter
  <2> DEFINE m == 2 * (b - 1) + 1 + (outleft - 1) \div Half
  <2>1. m \in Nat
    BY <1>3, <1>7
  <2> HIDE DEF m
  <2>2. Random!CounterAt(m) \in Random!Counter
    BY <2>1, CounterDigits DEF Random!Counter
  <2>3. QED
    BY <2>2 DEF m
<1>9. QED
  BY <1>4, <1>5, <1>6, <1>7, <1>8 DEF Random!Stream, Drawn

\* The hardware generator hands out m bytes, different ones, of one new word.
LEMMA HardwareInv ==
  ASSUME RandomInv, hardware, hardware', NEW m \in 1 .. 4, m <= xlen,
         NEW p \in [1 .. m -> 0 .. 3], \A a, b \in 1 .. m : p[a] = p[b] => a = b,
         output' = output \o [b \in 1 .. m |-> <<drawn, p[b]>>], drawn' = drawn + 1,
         xlen' = xlen - m, UNCHANGED <<outleft, inCall, asked>>
  PROVE  RandomInv'
<1> DEFINE t == [b \in 1 .. m |-> <<drawn, p[b]>>]
           L == Len(output)
<1>1. RandomTypes /\ FromHardware /\ L \in Nat
  BY DEF RandomInv, RandomTypes
<1>2. /\ t \in Seq(Drawn) /\ Len(t) = m
      /\ \A n \in 1 .. m : t[n] = <<drawn, p[n]>>
  <2>1. \A n \in 1 .. m : <<drawn, p[n]>> \in Drawn
    BY <1>1 DEF RandomTypes, Drawn
  <2>2. QED
    BY <2>1
<1>3. /\ output' \in Seq(Drawn) /\ Len(output') = L + m
      /\ \A n \in 1 .. L : output'[n] = output[n]
      /\ \A n \in L + 1 .. L + m : output'[n] = <<drawn, p[n - L]>>
  <2>1. output' = output \o t /\ output \in Seq(Drawn)
    BY <1>1 DEF t, RandomTypes
  <2> HIDE DEF t, L
  <2>2. Len(output) = L /\ Len(output \o t) = L + m
    BY <1>2, <2>1 DEF L
  <2>3. \A n \in 1 .. L : (output \o t)[n] = output[n]
    BY <1>1, <2>1, <2>2, <1>2
  <2>4. \A n \in L + 1 .. L + m : (output \o t)[n] = t[n - L] /\ n - L \in 1 .. m
    BY <1>1, <2>1, <2>2, <1>2
  <2>5. output \o t \in Seq(Drawn)
    BY <1>2, <2>1
  <2>6. QED
    BY <1>2, <2>1, <2>2, <2>3, <2>4, <2>5
<1>4. RandomTypes'
  <2>1. Len(output') + xlen' = asked' /\ xlen' \in Nat /\ drawn' \in Nat /\ inCall
    BY <1>1, <1>3 DEF RandomTypes
  <2>2. QED
    BY <1>1, <1>3, <2>1, RandomConstants DEF RandomTypes
<1>5. \A n \in 1 .. L : \E w \in 0 .. drawn - 1, k \in 0 .. 3 : output'[n] = <<w, k>>
  BY <1>1, <1>3 DEF FromHardware
<1>6. \A n \in L + 1 .. L + m : p[n - L] \in 0 .. 3
  BY <1>1
<1>7. \A n \in 1 .. L + m : \E w \in 0 .. drawn' - 1, k \in 0 .. 3 : output'[n] = <<w, k>>
  <2> SUFFICES ASSUME NEW n \in 1 .. L + m
               PROVE  \E w \in 0 .. drawn' - 1, k \in 0 .. 3 : output'[n] = <<w, k>>
    OBVIOUS
  <2>1. drawn \in 0 .. drawn' - 1 /\ 0 .. drawn - 1 \subseteq 0 .. drawn' - 1
    BY <1>1 DEF RandomTypes
  <2>2. CASE n \in 1 .. L
    BY <1>5, <2>1, <2>2
  <2>3. CASE n \in L + 1 .. L + m
    <3>1. output'[n] = <<drawn, p[n - L]>> /\ p[n - L] \in 0 .. 3
      BY <1>3, <1>6, <2>3
    <3>2. QED
      BY <2>1, <3>1
  <2>4. n \in 1 .. L \/ n \in L + 1 .. L + m
    <3> HIDE DEF L
    <3>1. QED
      BY <1>1
  <2>5. QED
    BY <2>2, <2>3, <2>4
<1>8. ASSUME NEW a \in 1 .. L + m, NEW b \in 1 .. L + m, output'[a] = output'[b], a <= b
      PROVE  a = b
  <2>1. CASE b \in 1 .. L
    <3>1. a \in 1 .. L
      BY <1>1, <1>8, <2>1
    <3>2. QED
      BY <1>1, <1>3, <1>8, <2>1, <3>1 DEF FromHardware
  <2>2. CASE a \in L + 1 .. L + m
    <3>1. a - L \in 1 .. m /\ b - L \in 1 .. m /\ b \in L + 1 .. L + m
      BY <1>1, <1>8, <2>2
    <3>2. p[a - L] = p[b - L]
      BY <1>3, <1>8, <2>2, <3>1
    <3>3. a - L = b - L
      BY <3>1, <3>2
    <3>4. QED
      BY <1>1, <3>3
  <2>3. CASE a \in 1 .. L /\ b \in L + 1 .. L + m
    <3>1. PICK w \in 0 .. drawn - 1, k \in 0 .. 3 : output'[a] = <<w, k>>
      BY <1>5, <2>3
    <3>2. w = drawn
      BY <1>3, <1>8, <2>3, <3>1
    <3>3. QED
      BY <1>1, <3>1, <3>2 DEF RandomTypes
  <2>4. QED
    BY <1>1, <2>1, <2>2, <2>3
<1>9. \A a, b \in 1 .. L + m : output'[a] = output'[b] => a = b
  BY <1>1, <1>8
<1>10. FromHardware'
  <2> HIDE DEF L
  <2>1. QED
    BY <1>3, <1>7, <1>9 DEF FromHardware
<1>11. QED
  BY <1>4, <1>10 DEF RandomInv

LEMMA RandomStepInv == RandomInv /\ [Random!Next]_random => RandomInv'
<1> SUFFICES ASSUME RandomInv, [Random!Next]_random PROVE RandomInv'
  OBVIOUS
<1> USE RandomConstants
<1>1. RandomTypes
  BY DEF RandomInv
<1>2. ASSUME NEW len \in 0 .. MaxLen, Random!randombytes(len) PROVE RandomInv'
  <2>1. MaxLen \in Nat /\ len \in Nat
    BY BoardAssumption DEF Random!RandomBytesParameters
  <2>2. RandomTypes'
    BY <1>1, <1>2, <2>1 DEF Random!randombytes, RandomTypes
  <2>3. QED
    BY <1>2, <2>2 DEF Random!randombytes, RandomInv, FromHardware, FromCounter, Blocks
<1>3. CASE Random!regen
  <2>1. ~ hardware /\ outleft = 0 /\ Random!randombytes_regen
        /\ UNCHANGED <<hardware, drawn, inCall, xlen, asked, output>>
    BY <1>3 DEF Random!regen
  <2>2. PICK b \in Nat : Blocks(b)
    BY <2>1 DEF RandomInv, FromCounter
  <2>3. Blocks(b + 1)' /\ outleft' = Random!Size
    BY <1>1, <2>1, <2>2, RegenBlock DEF RandomTypes
  <2>4. RandomTypes'
    BY <1>1, <2>1, <2>3 DEF RandomTypes
  <2>5. FromCounter'
    BY <2>1, <2>3 DEF RandomInv, FromCounter
  <2>6. QED
    BY <2>1, <2>4, <2>5 DEF RandomInv
<1>4. CASE Random!write_byte
  <2>1. /\ ~ hardware /\ xlen > 0 /\ outleft > 0 /\ outleft' = outleft - 1
        /\ inCall /\ xlen' = xlen - 1 /\ output' = Append(output, out_buf[outleft - 1])
        /\ UNCHANGED <<hardware, drawn, in, out_buf, inCall, asked>>
    BY <1>4 DEF Random!write_byte
  <2>2. PICK b \in Nat : Blocks(b)
    BY <2>1 DEF RandomInv, FromCounter
  <2>3. out_buf[outleft - 1] = Random!Stream(Len(output)) /\ out_buf[outleft - 1] \in Drawn
    BY <1>1, <2>1, <2>2, NextByte DEF RandomTypes
  <2>4. output' \in Seq(Drawn) /\ Len(output') = Len(output) + 1
    BY <1>1, <2>1, <2>3 DEF RandomTypes
  <2>5. RandomTypes'
    BY <1>1, <2>1, <2>4 DEF RandomTypes
  <2>6. Blocks(b)'
    <3>1. Len(output') + outleft' = Len(output) + outleft /\ outleft > 0
      BY <1>1, <2>1, <2>4 DEF RandomTypes
    <3>2. QED
      BY <2>1, <2>2, <3>1 DEF Blocks
  <2>7. \A n \in 1 .. Len(output') : output'[n] = Random!Stream(n - 1)
    BY <1>1, <2>1, <2>3 DEF RandomInv, FromCounter, RandomTypes
  <2>8. QED
    BY <2>1, <2>5, <2>6, <2>7 DEF RandomInv, FromCounter
<1>5. CASE Random!rng_word
  <2> DEFINE p == [b \in 1 .. 4 |-> b - 1]
  <2>1. p \in [1 .. 4 -> 0 .. 3] /\ \A a, b \in 1 .. 4 : p[a] = p[b] => a = b
    OBVIOUS
  <2>2. [b \in 1 .. 4 |-> <<drawn, b - 1>>] = [b \in 1 .. 4 |-> <<drawn, p[b]>>]
    OBVIOUS
  <2> HIDE DEF p
  <2>3. QED
    <3>1. /\ hardware /\ hardware' /\ xlen > 4 /\ drawn' = drawn + 1 /\ xlen' = xlen - 4
          /\ UNCHANGED <<outleft, inCall, asked>>
      BY <1>5 DEF Random!rng_word
    <3>2. output' = output \o [b \in 1 .. 4 |-> <<drawn, p[b]>>]
      BY <1>5, <2>2 DEF Random!rng_word
    <3>3. 4 \in 1 .. 4 /\ 4 <= xlen
      BY <1>1, <3>1 DEF RandomTypes
    <3>4. QED
      BY <2>1, <3>1, <3>2, <3>3, HardwareInv
<1>6. CASE Random!rng_last
  <2> DEFINE p == [b \in 1 .. xlen |-> xlen - b]
  <2>1. xlen \in 1 .. 4 /\ xlen - xlen = 0 /\ xlen <= xlen
    BY <1>6 DEF Random!rng_last
  <2>2. p \in [1 .. xlen -> 0 .. 3] /\ \A a, b \in 1 .. xlen : p[a] = p[b] => a = b
    BY <2>1
  <2>3. [b \in 1 .. xlen |-> <<drawn, xlen - b>>] = [b \in 1 .. xlen |-> <<drawn, p[b]>>]
    OBVIOUS
  <2> HIDE DEF p
  <2>4. QED
    <3>1. /\ hardware /\ hardware' /\ drawn' = drawn + 1 /\ xlen' = 0
          /\ UNCHANGED <<outleft, inCall, asked>>
      BY <1>6 DEF Random!rng_last
    <3>2. output' = output \o [b \in 1 .. xlen |-> <<drawn, p[b]>>]
      BY <1>6, <2>3 DEF Random!rng_last
    <3>3. QED
      BY <2>1, <2>2, <3>1, <3>2, HardwareInv
<1>7. CASE Random!return
  BY <1>1, <1>7 DEF Random!return, RandomInv, RandomTypes, FromHardware, FromCounter, Blocks
<1>8. CASE UNCHANGED random
  BY <1>8 DEF random, RandomInv, RandomTypes, FromHardware, FromCounter, Blocks
<1>9. QED
  BY <1>2, <1>3, <1>4, <1>5, <1>6, <1>7, <1>8 DEF Random!Next, Random!Step

-----------------------------------------------------------------------------
(*  Stack and heap  *)

\* The heap ends below the frame of hal_spraystack; what was sprayed is known
\* from the first call on.
MemoryTypes ==
  /\ at \in {"program", "spray", "ready", "call", "measure", "check", "measured"}
  /\ heap_end \in Nat /\ sp \in Int /\ pointer \in Int /\ size \in Int
  /\ sprayed \subseteq Int /\ used \subseteq Int /\ pushed \subseteq Int
  /\ heap_end < Top - Frame
  /\ last_sp = IF at = "program" THEN 0 ELSE Top - Frame

\* The pattern is below the frame of hal_spraystack, and no word the call has
\* used holds it; the heap is below all of them.
WordsApart ==
  /\ \A w \in sprayed : w < Top - Frame /\ w \notin used
  /\ \A w \in used \cup pushed : heap_end <= w
  /\ at \in {"program", "spray", "ready"} => used = {}
  /\ at = "call" => heap_end <= sp

\* Where the pattern is missing somebody has written, unless the heap shrank.
SprayedOr(last) == \A w \in heap_end .. last : w \in sprayed \cup used \cup pushed

Pattern ==
  /\ at = "spray" => pointer \in heap_end .. last_sp - 1
  /\ at = "spray" /\ ~ freed => SprayedOr(pointer - 1)
  /\ at \in {"ready", "call", "measure", "check"} /\ ~ freed => SprayedOr(last_sp - 1)

\* hal_checkstack has passed words with the pattern only.
Measuring ==
  /\ at = "check" =>
       /\ pointer \in heap_end .. last_sp - 1
       /\ size = last_sp - pointer
       /\ \A w \in used : pointer <= w
  /\ at = "measured" =>
       /\ size >= 0 /\ \A w \in used : last_sp - w <= size
       /\ ~ freed => size = 0 \/ \E w \in used \cup pushed : size <= last_sp - w

MemoryInv == MemoryTypes /\ WordsApart /\ Pattern /\ Measuring

LEMMA MemoryInitInv == Memory!MemoryInit => MemoryInv
<1> SUFFICES ASSUME Memory!MemoryInit PROVE MemoryInv
  OBVIOUS
<1>1. heap_end \in Nat /\ heap_end < Top - Frame /\ Top \in Nat
  BY BoardAssumption DEF Memory!MemoryInit, Memory!BoardMemoryParameters
<1>2. MemoryTypes
  BY <1>1 DEF Memory!MemoryInit, MemoryTypes
<1>3. WordsApart
  BY <1>1 DEF Memory!MemoryInit, WordsApart
<1>4. Pattern /\ Measuring
  BY DEF Memory!MemoryInit, Pattern, Measuring
<1>5. QED
  BY <1>2, <1>3, <1>4 DEF MemoryInv

LEMMA MemoryStepInv == MemoryInv /\ [Memory!MemoryNext]_memory => MemoryInv'
<1> SUFFICES ASSUME MemoryInv, [Memory!MemoryNext]_memory PROVE MemoryInv'
  OBVIOUS
<1> USE DEF MemoryInv, MemoryTypes, WordsApart, Pattern, SprayedOr, Measuring
<1> Top \in Nat /\ Frame \in Nat /\ Pushed \in Nat /\ HeapStart \subseteq Nat
  BY BoardAssumption DEF Memory!BoardMemoryParameters
<1>1. CASE Memory!hal_spraystack
  <2>1. /\ at = "program" /\ at' = "spray" /\ sp' = Top - Frame /\ last_sp' = Top - Frame
        /\ pointer' = heap_end /\ pushed' = {} /\ freed' = FALSE
        /\ UNCHANGED <<sprayed, heap_end, size, used, pushes>>
    BY <1>1 DEF Memory!hal_spraystack
  <2>2. SprayedOr(pointer - 1)'
    BY <2>1
  <2>3. MemoryTypes'
    BY <2>1
  <2>4. WordsApart'
    BY <2>1
  <2>5. Pattern' /\ Measuring'
    BY <2>1, <2>2
  <2>6. QED
    BY <2>3, <2>4, <2>5
<1>2. CASE Memory!spray_word
  BY <1>2 DEF Memory!spray_word, Memory!SprayOn
<1>3. CASE Memory!call
  BY <1>3 DEF Memory!call
<1>4. CASE Memory!write
  BY <1>4 DEF Memory!write
<1>5. CASE Memory!return
  BY <1>5 DEF Memory!return
<1>6. CASE Memory!hal_checkstack
  BY <1>6 DEF Memory!hal_checkstack
<1>7. CASE Memory!check_word
  BY <1>7 DEF Memory!check_word, Memory!Stop
<1>8. CASE Memory!interrupt
  BY <1>8 DEF Memory!interrupt
<1>9. CASE Memory!__wrap__sbrk
  <2>1. PICK incr \in {-1, 1} :
           /\ Memory!BelowStack(heap_end + incr)
           /\ \E low \in HeapStart : low <= heap_end + incr
           /\ heap_end' = heap_end + incr
           /\ sprayed' = IF incr = 1 THEN sprayed \ {heap_end} ELSE sprayed
           /\ freed' = (freed \/ incr = -1)
    BY <1>9 DEF Memory!__wrap__sbrk
  <2>2. /\ UNCHANGED <<at, sp, last_sp, pointer, size, used, pushed, pushes>>
        /\ at \in {"program", "ready", "call", "measure"}
    BY <1>9 DEF Memory!__wrap__sbrk
  <2>3. heap_end' < sp - Pushed /\ heap_end' < Top - Frame /\ \A w \in used \cup pushed : heap_end' <= w
    BY <2>1 DEF Memory!BelowStack
  <2>4. MemoryTypes' /\ WordsApart'
    BY <2>1, <2>2, <2>3
  <2>5. CASE incr = 1
    <3>1. heap_end' = heap_end + 1 /\ sprayed' = sprayed \ {heap_end}
      BY <2>1, <2>5
    <3>2. ~ freed' => ~ freed
      BY <2>1
    <3>3. \A last \in Int : SprayedOr(last) => SprayedOr(last)'
      BY <2>2, <3>1
    <3>4. QED
      BY <2>2, <2>4, <3>1, <3>2, <3>3
  <2>6. CASE incr = -1
    <3>1. freed'
      BY <2>1, <2>6
    <3>2. QED
      BY <2>2, <2>4, <3>1
  <2>7. QED
    BY <2>5, <2>6
<1>10. CASE UNCHANGED memory
  BY <1>10 DEF memory
<1> QED BY <1>1, <1>2, <1>3, <1>4, <1>5, <1>6, <1>7, <1>8, <1>9, <1>10 DEF Memory!MemoryNext

-----------------------------------------------------------------------------
(* The board: the services share nothing, so that each keeps what holds of *)
(* it alone.                                                               *)

BoardInv == IInv /\ RandomInv /\ MemoryInv

LEMMA BoardInitInv == BoardInit => BoardInv
  BY InitInv, RandomInitInv, MemoryInitInv DEF BoardInit, BoardInv

LEMMA BoardStepInv == BoardInv /\ [BoardNext]_board => BoardInv'
<1> SUFFICES ASSUME BoardInv, [BoardNext]_board PROVE BoardInv'
  OBVIOUS
<1>1. IInv /\ RandomInv /\ MemoryInv
  BY DEF BoardInv
<1>2. [Next]_vars /\ [Random!Next]_random /\ [Memory!MemoryNext]_memory
  BY DEF BoardNext, Clocked, board
<1>3. QED
  BY <1>1, <1>2, StepInv, RandomStepInv, MemoryStepInv DEF BoardInv

\* Each service keeps its part of BoardInv, whichever of them runs.
THEOREM BoardInvariant == BoardSpec => []BoardInv
<1>1. QED
  BY BoardInitInv, BoardStepInv, PTL DEF BoardSpec

\* The bytes of randombytes: all that are asked for, from one fixed stream, in
\* order and without a gap, for every size of words, blocks and requests; no
\* byte of a hardware generator twice.
THEOREM BoardOutputIsStream == BoardSpec => []OutputIsStream
<1>1. BoardInv => OutputIsStream
  <2> SUFFICES ASSUME RandomInv PROVE Random!OutputIsStream
    BY DEF BoardInv, OutputIsStream
  <2>1. ~ inCall => Len(output) = asked
    BY DEF RandomInv, RandomTypes
  <2>2. hardware => Random!IsInjective(output)
    BY DEF RandomInv, RandomTypes, FromHardware, Random!IsInjective
  <2>3. ~ hardware => \A n \in 1 .. Len(output) : output[n] = Random!Stream(n - 1)
    BY DEF RandomInv, FromCounter
  <2>4. QED
    BY <2>1, <2>2, <2>3 DEF Random!OutputIsStream
<1>2. QED
  BY <1>1, BoardInvariant, PTL

\* hal_checkstack: at least what the call has used, at most what the call and
\* the interrupts have, for every size of memory and frames and wherever the
\* interrupts come.
THEOREM BoardStackMeasured == BoardSpec => []StackMeasured
<1>1. BoardInv => StackMeasured
  BY DEF BoardInv, MemoryInv, WordsApart, Measuring, StackMeasured, Memory!StackMeasured, Memory!Depth
<1>2. QED
  BY <1>1, BoardInvariant, PTL

\* hal_get_time, as part of the board.
THEOREM BoardReturnsTrueTime == BoardSpec => []ReturnsTrueTime
<1>1. BoardInv => ReturnsTrueTime
  BY DEF BoardInv, IInv
<1>2. QED
  BY <1>1, BoardInvariant, PTL
=============================================================================
