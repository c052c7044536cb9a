----------------------------- MODULE WallProofs -----------------------------
(***************************************************************************)
(* The flag _in_handler and the types, wherever the interpreter switches;  *)
(* and what stopping, the time of the last sample and the ticks of a       *)
(* profile rest on when it does not switch between the test of the flag    *)
(* and its store.                                                          *)
(***************************************************************************)
EXTENDS WallProfiler, FiniteSums, TLAPS

Critical(i) == stack[i].pc \notin {"check", "set"}

ShapeInv ==
  /\ {"in_handler", "started", "last_sample_time", "lock"} \subseteq DOMAIN self
  /\ \E S : stack \in Seq(S)
  /\ \A i \in 1 .. Len(stack) : "pc" \in DOMAIN stack[i]

\* A handler past its store of the flag keeps those on top of it at their test, and
\* was not itself started on top of one past its store.
ReentryInv ==
  \A i \in 1 .. Len(stack) :
    Critical(i) =>
      /\ self.in_handler
      /\ \A j \in 1 .. i - 1 : stack[j].pc = "check"
      /\ \A j \in i + 1 .. Len(stack) : ~ Critical(j)

WallInv == ShapeInv /\ ReentryInv

-----------------------------------------------------------------------------
(***************************************************************************)
(* The stack of handlers: one is called, goes on, or returns.              *)
(***************************************************************************)
LEMMA Pushed ==
  ASSUME ShapeInv, NEW h, "pc" \in DOMAIN h, stack' = <<h>> \o stack
  PROVE  /\ Len(stack') = Len(stack) + 1 /\ stack'[1] = h /\ Len(stack) \in Nat
         /\ \A i \in 2 .. Len(stack') : stack'[i] = stack[i - 1]
         /\ \E S : stack' \in Seq(S)
         /\ \A i \in 1 .. Len(stack') : "pc" \in DOMAIN stack'[i]
<1>1. PICK S : stack \in Seq(S)
  BY DEF ShapeInv
<1>2. /\ stack' \in Seq(S \cup {h}) /\ Len(stack') = Len(stack) + 1 /\ stack'[1] = h
      /\ Len(stack) \in Nat /\ \A i \in 1 .. Len(stack) : stack'[i + 1] = stack[i]
  BY <1>1
<1>3. ASSUME NEW i \in 2 .. Len(stack') PROVE stack'[i] = stack[i - 1]
  <2>1. i - 1 \in 1 .. Len(stack) /\ (i - 1) + 1 = i
    BY <1>2
  <2> QED
    BY <1>2, <2>1
<1>4. ASSUME NEW i \in 1 .. Len(stack') PROVE "pc" \in DOMAIN stack'[i]
  <2>1. CASE i = 1
    BY <1>2, <2>1
  <2>2. CASE i # 1
    <3>1. i \in 2 .. Len(stack') /\ i - 1 \in 1 .. Len(stack)
      BY <1>2, <2>2
    <3> QED
      BY <1>3, <3>1 DEF ShapeInv
  <2> QED
    BY <2>1, <2>2
<1> QED
  BY <1>2, <1>3, <1>4

LEMMA Became ==
  ASSUME ShapeInv, stack # <<>>, NEW h, "pc" \in DOMAIN h, Become(h)
  PROVE  /\ Len(stack) \in Nat /\ Len(stack) >= 1 /\ me = stack[1] /\ "pc" \in DOMAIN me
         /\ Len(stack') = Len(stack) /\ stack'[1] = h
         /\ \A i \in 2 .. Len(stack) : stack'[i] = stack[i]
         /\ \E S : stack' \in Seq(S)
         /\ \A i \in 1 .. Len(stack') : "pc" \in DOMAIN stack'[i]
<1>1. PICK S : stack \in Seq(S)
  BY DEF ShapeInv
<1> DEFINE t == Tail(stack)
<1>2. /\ t \in Seq(S) /\ Len(t) = Len(stack) - 1 /\ Len(stack) \in Nat /\ Len(stack) >= 1
      /\ me = stack[1]
      /\ \A i \in 1 .. Len(t) : t[i] = stack[i + 1]
  BY <1>1 DEF me
<1>3. stack' = <<h>> \o t
  BY DEF Become
<1> HIDE DEF t
<1>4. /\ stack' \in Seq(S \cup {h}) /\ Len(stack') = Len(t) + 1 /\ stack'[1] = h
      /\ \A i \in 1 .. Len(t) : stack'[i + 1] = t[i]
  BY <1>2, <1>3
<1>5. ASSUME NEW i \in 2 .. Len(stack) PROVE stack'[i] = stack[i]
  <2>1. i - 1 \in 1 .. Len(t) /\ (i - 1) + 1 = i
    BY <1>2
  <2> QED
    BY <1>2, <1>4, <2>1
<1>6. ASSUME NEW i \in 1 .. Len(stack') PROVE "pc" \in DOMAIN stack'[i]
  <2>1. CASE i = 1
    BY <1>4, <2>1
  <2>2. CASE i # 1
    <3>1. i \in 2 .. Len(stack) /\ i \in 1 .. Len(stack)
      BY <1>2, <1>4, <2>2
    <3> QED
      BY <1>5, <3>1 DEF ShapeInv
  <2> QED
    BY <2>1, <2>2
<1>7. "pc" \in DOMAIN me
  BY <1>2 DEF ShapeInv
<1> QED
  BY <1>2, <1>4, <1>5, <1>6, <1>7

LEMMA Returned ==
  ASSUME ShapeInv, stack # <<>>, ReturnFromHandler
  PROVE  /\ Len(stack) \in Nat /\ Len(stack) >= 1 /\ me = stack[1]
         /\ Len(stack') = Len(stack) - 1
         /\ \A i \in 1 .. Len(stack') : stack'[i] = stack[i + 1]
         /\ \E S : stack' \in Seq(S)
         /\ \A i \in 1 .. Len(stack') : "pc" \in DOMAIN stack'[i]
<1>1. PICK S : stack \in Seq(S)
  BY DEF ShapeInv
<1>2. /\ stack' \in Seq(S) /\ Len(stack') = Len(stack) - 1 /\ Len(stack) \in Nat
      /\ Len(stack) >= 1 /\ me = stack[1]
      /\ \A i \in 1 .. Len(stack') : stack'[i] = stack[i + 1]
  BY <1>1 DEF ReturnFromHandler, me
<1>3. ASSUME NEW i \in 1 .. Len(stack') PROVE "pc" \in DOMAIN stack'[i]
  <2>1. i + 1 \in 1 .. Len(stack)
    BY <1>2
  <2> QED
    BY <1>2, <2>1 DEF ShapeInv
<1> QED
  BY <1>2, <1>3

-----------------------------------------------------------------------------
(***************************************************************************)
(* The flag keeps two handlers from being past its store.                  *)
(***************************************************************************)
SelfShape == {"in_handler", "started", "last_sample_time", "lock"} \subseteq DOMAIN self

LEMMA GoingOn ==
  ASSUME WallInv, stack # <<>>, NEW h, "pc" \in DOMAIN h, Become(h), SelfShape',
         \/ /\ me.pc \notin {"check", "set"} /\ h.pc \notin {"check", "set"}
            /\ self'.in_handler = self.in_handler
         \/ /\ me.pc = "check" /\ h.pc = "set"
            /\ ~ self.in_handler /\ self'.in_handler = self.in_handler
         \/ /\ me.pc = "set" /\ h.pc \notin {"check", "set"} /\ self'.in_handler
  PROVE  WallInv'
<1>1. /\ Len(stack) \in Nat /\ Len(stack) >= 1 /\ me = stack[1]
      /\ Len(stack') = Len(stack) /\ stack'[1] = h
      /\ \A i \in 2 .. Len(stack) : stack'[i] = stack[i]
  BY Became DEF WallInv
<1>2. ShapeInv'
  BY Became DEF WallInv, ShapeInv, SelfShape
<1>3. ASSUME NEW i \in 1 .. Len(stack'), Critical(i)'
      PROVE  /\ self'.in_handler
             /\ \A j \in 1 .. i - 1 : stack'[j].pc = "check"
             /\ \A j \in i + 1 .. Len(stack') : ~ Critical(j)'
  <2>1. CASE i = 1
    BY <1>1, <1>3, <2>1 DEF WallInv, ReentryInv, Critical
  <2>2. CASE i # 1
    <3>1. /\ i \in 2 .. Len(stack) /\ Critical(i) /\ 1 \in 1 .. i - 1
      BY <1>1, <1>3, <2>2 DEF Critical
    <3>2. self.in_handler /\ stack[1].pc = "check"
      BY <1>1, <3>1 DEF WallInv, ReentryInv
    <3> QED
      BY <1>1, <3>2
  <2> QED
    BY <2>1, <2>2
<1> QED
  BY <1>2, <1>3 DEF WallInv, ReentryInv

LEMMA Leaving ==
  ASSUME WallInv, stack # <<>>, ReturnFromHandler, SelfShape',
         \/ me.pc = "check" /\ self'.in_handler = self.in_handler
         \/ me.pc \notin {"check", "set"}
  PROVE  WallInv'
<1>1. /\ Len(stack) \in Nat /\ Len(stack) >= 1 /\ me = stack[1]
      /\ Len(stack') = Len(stack) - 1
      /\ \A i \in 1 .. Len(stack') : stack'[i] = stack[i + 1]
  BY Returned DEF WallInv
<1>2. ShapeInv'
  BY Returned DEF WallInv, ShapeInv, SelfShape
<1>3. ASSUME NEW i \in 1 .. Len(stack'), Critical(i)'
      PROVE  /\ self'.in_handler
             /\ \A j \in 1 .. i - 1 : stack'[j].pc = "check"
             /\ \A j \in i + 1 .. Len(stack') : ~ Critical(j)'
  <2>1. i + 1 \in 1 .. Len(stack) /\ Critical(i + 1) /\ 1 \in 1 .. (i + 1) - 1
    BY <1>1, <1>3 DEF Critical
  <2>2. /\ self.in_handler /\ stack[1].pc = "check"
        /\ \A j \in 1 .. (i + 1) - 1 : stack[j].pc = "check"
        /\ \A j \in (i + 1) + 1 .. Len(stack) : ~ Critical(j)
    BY <2>1 DEF WallInv, ReentryInv
  <2>3. ASSUME NEW j \in 1 .. i - 1 PROVE stack'[j].pc = "check"
    <3>1. j + 1 \in 1 .. (i + 1) - 1 /\ j \in 1 .. Len(stack')
      BY <1>1, <1>3
    <3> QED
      BY <1>1, <2>2, <3>1
  <2>4. ASSUME NEW j \in i + 1 .. Len(stack') PROVE ~ Critical(j)'
    <3>1. j + 1 \in (i + 1) + 1 .. Len(stack) /\ j \in 1 .. Len(stack')
      BY <1>1, <1>3
    <3> QED
      BY <1>1, <2>2, <3>1 DEF Critical
  <2>5. self'.in_handler
    BY <1>1, <2>2
  <2> QED
    BY <2>3, <2>4, <2>5
<1> QED
  BY <1>2, <1>3 DEF WallInv, ReentryInv

(***************************************************************************)
(* A handler that is called starts before its test.                        *)
(***************************************************************************)
LEMMA CallingStep == ASSUME WallInv, NEW t, CallHandler(t) PROVE WallInv'
<1> DEFINE h == [pc |-> "check", trace |-> t, now |-> 0, ticks |-> 1, value |-> 0, dict |-> 0]
<1>1. stack' = <<h>> \o stack /\ self' = self /\ "pc" \in DOMAIN h /\ h.pc = "check"
  BY DEF CallHandler
<1> HIDE DEF h
<1>2. /\ Len(stack') = Len(stack) + 1 /\ stack'[1] = h /\ Len(stack) \in Nat
      /\ \A i \in 2 .. Len(stack') : stack'[i] = stack[i - 1]
  BY <1>1, Pushed DEF WallInv
<1>3. ShapeInv'
  BY <1>1, Pushed DEF WallInv, ShapeInv
<1>4. ASSUME NEW i \in 1 .. Len(stack'), Critical(i)'
      PROVE  /\ self'.in_handler
             /\ \A j \in 1 .. i - 1 : stack'[j].pc = "check"
             /\ \A j \in i + 1 .. Len(stack') : ~ Critical(j)'
  <2>1. i # 1
    BY <1>1, <1>2, <1>4 DEF Critical
  <2>2. i - 1 \in 1 .. Len(stack) /\ i \in 2 .. Len(stack') /\ Critical(i - 1)
    BY <1>2, <1>4, <2>1 DEF Critical
  <2>3. /\ self.in_handler
        /\ \A j \in 1 .. (i - 1) - 1 : stack[j].pc = "check"
        /\ \A j \in (i - 1) + 1 .. Len(stack) : ~ Critical(j)
    BY <2>2 DEF WallInv, ReentryInv
  <2>4. ASSUME NEW j \in 1 .. i - 1 PROVE stack'[j].pc = "check"
    <3>1. CASE j = 1
      BY <1>1, <1>2, <3>1
    <3>2. CASE j # 1
      <4>1. j \in 2 .. Len(stack') /\ j - 1 \in 1 .. (i - 1) - 1
        BY <1>2, <2>2, <3>2
      <4> QED
        BY <1>2, <2>3, <4>1
    <3> QED
      BY <3>1, <3>2
  <2>5. ASSUME NEW j \in i + 1 .. Len(stack') PROVE ~ Critical(j)'
    <3>1. j \in 2 .. Len(stack') /\ j - 1 \in (i - 1) + 1 .. Len(stack)
      BY <1>2, <2>2
    <3> QED
      BY <1>2, <2>3, <3>1 DEF Critical
  <2> QED
    BY <1>1, <2>3, <2>4, <2>5
<1> QED
  BY <1>3, <1>4 DEF WallInv, ReentryInv

(***************************************************************************)
(* A step of a handler.                                                    *)
(***************************************************************************)
LEMMA HandlerReentry == ASSUME WallInv, HandlerStep PROVE WallInv'
<1>1. SelfShape /\ (stack # <<>> => "pc" \in DOMAIN me)
  <2>1. ASSUME stack # <<>> PROVE "pc" \in DOMAIN me
    <3>1. PICK S : stack \in Seq(S)
      BY DEF WallInv, ShapeInv
    <3>2. me = stack[1] /\ 1 \in 1 .. Len(stack)
      BY <2>1, <3>1 DEF me
    <3> QED
      BY <3>2 DEF WallInv, ShapeInv
  <2> QED
    BY <2>1 DEF WallInv, ShapeInv, SelfShape
<1>2. CASE HandlerCheck
  <2>1. SelfShape' /\ self' = self /\ stack # <<>> /\ me.pc = "check"
    BY <1>1, <1>2 DEF HandlerCheck, At, SelfShape
  <2>2. CASE ReturnFromHandler
    BY <2>1, <2>2, Leaving
  <2>3. CASE ~ self.in_handler /\ GotoPoint("set")
    <3>1. "pc" \in DOMAIN [me EXCEPT !.pc = "set"] /\ [me EXCEPT !.pc = "set"].pc = "set"
      BY <1>1, <2>1
    <3> QED
      BY <2>1, <2>3, <3>1, GoingOn DEF GotoPoint
  <2> QED
    BY <1>2, <2>2, <2>3 DEF HandlerCheck
<1>3. CASE HandlerSet
  <2>1. SelfShape' /\ self'.in_handler /\ stack # <<>> /\ me.pc = "set"
    BY <1>1, <1>3 DEF HandlerSet, At, SelfShape
  <2>2. "pc" \in DOMAIN [me EXCEPT !.pc = "lock"] /\ [me EXCEPT !.pc = "lock"].pc = "lock"
    BY <1>1, <2>1
  <2> QED
    BY <1>3, <2>1, <2>2, GoingOn DEF GotoPoint, HandlerSet
<1>4. CASE HandlerExit
  <2>1. SelfShape' /\ stack # <<>> /\ me.pc = "exit" /\ ReturnFromHandler
    BY <1>1, <1>4 DEF HandlerExit, At, SelfShape
  <2> QED
    BY <2>1, Leaving
<1>5. CASE \/ HandlerLock \/ HandlerTest \/ HandlerDiff \/ HandlerAdvance \/ HandlerStore
           \/ HandlerUnlock \/ HandlerGet \/ HandlerPut \/ HandlerCount \/ HandlerAdd
  <2>1. /\ stack # <<>> /\ me.pc \notin {"check", "set"}
        /\ SelfShape' /\ self'.in_handler = self.in_handler
    BY <1>1, <1>5
       DEF HandlerLock, HandlerTest, HandlerDiff, HandlerAdvance, HandlerStore, HandlerUnlock,
           HandlerGet, HandlerPut, HandlerCount, HandlerAdd, At, SelfShape
  <2>2. CASE \E h : "pc" \in DOMAIN h /\ h.pc \notin {"check", "set"} /\ Become(h)
    BY <2>1, <2>2, GoingOn
  <2>3. CASE RaiseTypeError
    <3>1. stack' = <<>> /\ stack' \in Seq({}) /\ Len(stack') = 0
      BY <2>3 DEF RaiseTypeError
    <3> QED
      BY <2>1, <3>1 DEF WallInv, ShapeInv, ReentryInv, SelfShape
  <2>4. \/ \E h : "pc" \in DOMAIN h /\ h.pc \notin {"check", "set"} /\ Become(h)
        \/ RaiseTypeError
    BY <1>1, <1>5, <2>1
       DEF HandlerLock, HandlerTest, HandlerDiff, HandlerAdvance, HandlerStore, HandlerUnlock,
           HandlerGet, HandlerPut, HandlerCount, HandlerAdd, GotoPoint
  <2> QED
    BY <2>2, <2>3, <2>4
<1> QED
  BY <1>2, <1>3, <1>4, <1>5 DEF HandlerStep

LEMMA InitWall == Init => WallInv
<1> SUFFICES ASSUME Init PROVE WallInv
  OBVIOUS
<1>1. stack = <<>> /\ stack \in Seq({}) /\ Len(stack) = 0
  BY DEF Init
<1> QED
  BY <1>1 DEF Init, WallInv, ShapeInv, ReentryInv

(***************************************************************************)
(* The polling thread does not touch the stack, nor the flag.              *)
(***************************************************************************)
LEMMA PollingReentry ==
  ASSUME WallInv, PollStep \/ ProfileStart, stack' = stack PROVE WallInv'
<1>1. SelfShape
  BY DEF WallInv, ShapeInv, SelfShape
<1>2. SelfShape' /\ self'.in_handler = self.in_handler
  BY <1>1 DEF SelfShape, PollStep, ProfileStart, ClearTraces, ClearTime, ClearCount, SetStarted,
              Arm, WakeUp, Pause, Rearm, Forget, Disarm, ClearStarted, Wait, AddUnknown, Iterate,
              ProfileReturn
<1> QED
  BY <1>2 DEF WallInv, ShapeInv, ReentryInv, SelfShape, Critical

LEMMA NextWall == WallInv /\ [Next]_wallVars => WallInv'
<1> SUFFICES ASSUME WallInv, [Next]_wallVars PROVE WallInv'
  OBVIOUS
<1>1. CASE Tick \/ UNCHANGED wallVars
  <2>1. self' = self /\ stack' = stack
    BY <1>1 DEF Tick, wallVars, mainVars
  <2>2. ShapeInv'
    BY <2>1 DEF WallInv, ShapeInv
  <2>3. ReentryInv'
    BY <2>1 DEF WallInv, ReentryInv, Critical
  <2> QED
    BY <2>2, <2>3 DEF WallInv
<1>2. CASE \E t \in Stacks : CallHandler(t)
  <2>1. PICK t \in Stacks : CallHandler(t)
    BY <1>2
  <2> QED
    BY <2>1, CallingStep
<1>3. CASE HandlerStep
  BY <1>3, HandlerReentry
<1>4. CASE PollStep
  BY <1>4, PollingReentry DEF PollStep
<1>5. CASE ProfileStart /\ UNCHANGED <<clock, tripped, stack, raised>>
  BY <1>5, PollingReentry
<1> QED
  BY <1>1, <1>2, <1>3, <1>4, <1>5 DEF Next

LEMMA WallAlways == Spec => []WallInv
BY InitWall, NextWall, PTL DEF Spec

(***************************************************************************)
(* "Simply using a bool flag to prevent reentry is fine"                   *)
(* (pythonprofiler.py:175-177): at most one handler is past the store of   *)
(* the flag, wherever the interpreter calls handlers on top of handlers    *)
(* and hands over the GIL, in every version of CPython.                    *)
(***************************************************************************)
THEOREM FlagPreventsReentry == Spec => []NoReentry
<1>1. WallInv => NoReentry
  <2> SUFFICES ASSUME WallInv,
                      NEW i \in 1 .. Len(stack), NEW j \in 1 .. Len(stack),
                      Critical(i), Critical(j), i # j
               PROVE  FALSE
    BY DEF NoReentry, Critical
  <2>1. Len(stack) \in Nat
    BY DEF WallInv, ShapeInv
  <2>2. CASE j < i
    BY <2>1, <2>2 DEF WallInv, ReentryInv, Critical
  <2>3. CASE i < j
    BY <2>1, <2>3 DEF WallInv, ReentryInv, Critical
  <2> QED
    BY <2>1, <2>2, <2>3
<1> QED
  BY <1>1, WallAlways, PTL

-----------------------------------------------------------------------------
(***************************************************************************)
(* When the interpreter does not leave a handler between its test of the   *)
(* flag and its store.                                                     *)
(***************************************************************************)

\* Nothing is being profiled.
Quiet == {"idle", "clear_traces", "clear_time", "clear_count", "start",
          "unknown", "iterate", "return"}

\* The polling thread holds the lock of _last_sample_time; a handler does.
PollingHolds == ppc \in {"pause", "rearm", "forget"}
LockPoints   == {"test", "diff", "advance", "store", "unlock"}
HandlerHolds == \E i \in 1 .. Len(stack) : stack[i].pc \in LockPoints

QuietInv ==
  /\ \A i \in 2 .. Len(stack) : stack[i].pc # "set"
  /\ ppc \in Quiet => /\ ~ self.started /\ ~ self.in_handler
                      /\ \A i \in 1 .. Len(stack) : stack[i].pc = "check"
  /\ ppc = "wait" => ~ self.started
  /\ closing => ppc \in Quiet \ {"start"}

LockInv ==
  /\ PollingHolds => ~ HandlerHolds
  /\ self.lock = IF PollingHolds THEN HeldByPolling ELSE IF HandlerHolds THEN 1 ELSE 0

\* _last_sample_time is there for the handler that subtracts it.
TimeInv ==
  /\ ~ raised
  /\ \A i \in 1 .. Len(stack) :
       stack[i].pc \in {"diff", "advance"} => self.last_sample_time # None

StopInv == WallInv /\ QuietInv /\ LockInv /\ TimeInv

LEMMA InitStop == Init => StopInv
<1> SUFFICES ASSUME Init PROVE StopInv
  OBVIOUS
<1>1. WallInv
  BY InitWall
<1>2. stack = <<>> /\ Len(stack) = 0
  BY DEF Init
<1> QED
  BY <1>1, <1>2
     DEF Init, StopInv, QuietInv, LockInv, TimeInv, Quiet, PollingHolds, HandlerHolds, HeldByPolling

(***************************************************************************)
(* A handler that is past its store, or on its way there, is alone.        *)
(***************************************************************************)
LEMMA Alone ==
  ASSUME StopInv, stack # <<>>, me.pc # "check"
  PROVE  /\ Len(stack) \in Nat /\ Len(stack) >= 1 /\ me = stack[1] /\ "pc" \in DOMAIN me
         /\ \A i \in 2 .. Len(stack) : stack[i].pc = "check"
         /\ ppc \notin Quiet
<1>1. PICK S : stack \in Seq(S)
  BY DEF StopInv, WallInv, ShapeInv
<1>2. Len(stack) \in Nat /\ Len(stack) >= 1 /\ me = stack[1]
  BY <1>1 DEF me
<1>3. ASSUME NEW i \in 2 .. Len(stack) PROVE stack[i].pc = "check"
  <2>1. i \in 1 .. Len(stack) /\ 1 \in 1 .. i - 1
    BY <1>2, <1>3
  <2>2. ~ Critical(i)
    BY <1>2, <2>1 DEF StopInv, WallInv, ReentryInv
  <2> QED
    BY <1>3, <2>2 DEF StopInv, QuietInv, Critical
<1>4. ppc \notin Quiet
  BY <1>2 DEF StopInv, QuietInv
<1>5. "pc" \in DOMAIN me
  BY <1>2 DEF StopInv, WallInv, ShapeInv
<1> QED
  BY <1>2, <1>3, <1>4, <1>5

(***************************************************************************)
(* A handler is called only where the one below it can be left.            *)
(***************************************************************************)
LEMMA CallingStop ==
  ASSUME "set" \notin SwitchPoints, StopInv, NEW t, CallHandler(t) PROVE StopInv'
<1> DEFINE h == [pc |-> "check", trace |-> t, now |-> 0, ticks |-> 1, value |-> 0, dict |-> 0]
<1>1. stack' = <<h>> \o stack /\ UNCHANGED <<self, raised, pollVars>> /\ Switchable
  BY DEF CallHandler
<1>2. "pc" \in DOMAIN h /\ h.pc = "check"
  OBVIOUS
<1> HIDE DEF h
<1>3. /\ Len(stack') = Len(stack) + 1 /\ stack'[1] = h /\ Len(stack) \in Nat
      /\ \A i \in 2 .. Len(stack') : stack'[i] = stack[i - 1]
  BY <1>1, <1>2, Pushed DEF StopInv, WallInv
<1>4. WallInv'
  BY CallingStep DEF StopInv
<1>5. ASSUME NEW i \in 2 .. Len(stack')
      PROVE  i - 1 \in 1 .. Len(stack) /\ stack'[i].pc # "set"
  <2>1. i - 1 \in 1 .. Len(stack)
    BY <1>3
  <2>2. CASE i - 1 = 1
    <3>1. stack # <<>> /\ Head(stack) = stack[1]
      <4>1. PICK S : stack \in Seq(S)
        BY DEF StopInv, WallInv, ShapeInv
      <4> QED
        BY <2>1, <4>1
    <3>2. stack[1].pc # "set"
      BY <1>1, <3>1 DEF Switchable
    <3> QED
      BY <1>3, <2>1, <2>2, <3>2
  <2>3. CASE i - 1 # 1
    <3>1. i - 1 \in 2 .. Len(stack)
      BY <2>1, <2>3
    <3> QED
      BY <1>3, <2>1, <3>1 DEF StopInv, QuietInv
  <2> QED
    BY <2>2, <2>3
<1>6. \A i \in 1 .. Len(stack') : i = 1 \/ i \in 2 .. Len(stack')
  BY <1>3
<1>7. QuietInv'
  BY <1>1, <1>2, <1>3, <1>5, <1>6 DEF StopInv, QuietInv, pollVars, loopVars
<1>8. HandlerHolds' <=> HandlerHolds
  <2>1. ASSUME NEW i \in 1 .. Len(stack') , stack'[i].pc \in LockPoints PROVE HandlerHolds
    BY <1>2, <1>3, <1>5, <1>6, <2>1 DEF HandlerHolds, LockPoints
  <2>2. ASSUME NEW i \in 1 .. Len(stack), stack[i].pc \in LockPoints PROVE HandlerHolds'
    <3>1. i + 1 \in 2 .. Len(stack') /\ (i + 1) - 1 = i /\ i + 1 \in 1 .. Len(stack')
      BY <1>3
    <3> QED
      BY <1>3, <2>2, <3>1 DEF HandlerHolds
  <2> QED
    BY <2>1, <2>2 DEF HandlerHolds
<1>9. LockInv'
  BY <1>1, <1>8 DEF StopInv, LockInv, PollingHolds, pollVars
<1>10. TimeInv'
  BY <1>1, <1>2, <1>3, <1>5, <1>6 DEF StopInv, TimeInv
<1> QED
  BY <1>4, <1>7, <1>9, <1>10 DEF StopInv

(***************************************************************************)
(* A handler that is alone goes on.                                        *)
(***************************************************************************)
LEMMA AloneGoesOn ==
  ASSUME StopInv, stack # <<>>, me.pc # "check", NEW h, "pc" \in DOMAIN h, Become(h)
  PROVE  /\ ppc \notin Quiet
         /\ Len(stack') \in Nat /\ Len(stack') >= 1 /\ stack'[1] = h
         /\ \A i \in 2 .. Len(stack') : stack'[i].pc = "check"
         /\ HandlerHolds <=> me.pc \in LockPoints
         /\ HandlerHolds' <=> h.pc \in LockPoints
<1>1. /\ Len(stack) \in Nat /\ Len(stack) >= 1 /\ me = stack[1]
      /\ \A i \in 2 .. Len(stack) : stack[i].pc = "check"
      /\ ppc \notin Quiet
  BY Alone
<1>2. /\ Len(stack') = Len(stack) /\ stack'[1] = h
      /\ \A i \in 2 .. Len(stack) : stack'[i] = stack[i]
  BY Became DEF StopInv, WallInv
<1>3. \A i \in 1 .. Len(stack) : i = 1 \/ i \in 2 .. Len(stack)
  BY <1>1
<1>4. 1 \in 1 .. Len(stack)
  BY <1>1
<1>5. HandlerHolds <=> me.pc \in LockPoints
  BY <1>1, <1>3, <1>4 DEF HandlerHolds, LockPoints
<1>6. HandlerHolds' <=> h.pc \in LockPoints
  BY <1>1, <1>2, <1>3, <1>4 DEF HandlerHolds, LockPoints
<1> QED
  BY <1>1, <1>2, <1>5, <1>6

LEMMA HandlerStop == ASSUME StopInv, HandlerStep PROVE StopInv'
<1>1. WallInv' /\ SelfShape /\ UNCHANGED <<ppc, closing>>
  BY HandlerReentry DEF StopInv, WallInv, ShapeInv, SelfShape, HandlerStep, pollVars, loopVars
<1>2. CASE HandlerCheck /\ ReturnFromHandler
  <2>1. stack # <<>> /\ me.pc = "check" /\ self' = self /\ raised' = raised
    BY <1>2 DEF HandlerCheck, At
  <2>2. /\ Len(stack) \in Nat /\ Len(stack) >= 1 /\ me = stack[1]
        /\ Len(stack') = Len(stack) - 1
        /\ \A i \in 1 .. Len(stack') : stack'[i] = stack[i + 1]
    BY <1>2, <2>1, Returned DEF StopInv, WallInv
  <2>3. \A i \in 1 .. Len(stack') : i + 1 \in 1 .. Len(stack) /\ i + 1 \in 2 .. Len(stack)
    BY <2>2
  <2>4. \A i \in 1 .. Len(stack) : i = 1 \/ (i - 1 \in 1 .. Len(stack') /\ (i - 1) + 1 = i)
    BY <2>2
  <2>5. QuietInv'
    <3>1. \A i \in 2 .. Len(stack') : i \in 1 .. Len(stack')
      BY <2>2
    <3> QED
      BY <1>1, <2>1, <2>2, <2>3, <3>1 DEF StopInv, QuietInv
  <2>6. HandlerHolds' <=> HandlerHolds
    BY <2>1, <2>2, <2>3, <2>4 DEF HandlerHolds, LockPoints
  <2>7. LockInv'
    BY <1>1, <2>1, <2>6 DEF StopInv, LockInv, PollingHolds
  <2>8. TimeInv'
    BY <2>1, <2>2, <2>3 DEF StopInv, TimeInv
  <2> QED
    BY <1>1, <2>5, <2>7, <2>8 DEF StopInv
<1>3. CASE HandlerCheck /\ GotoPoint("set") /\ self.started
  <2> DEFINE h == [me EXCEPT !.pc = "set"]
  <2>1. stack # <<>> /\ me.pc = "check" /\ self' = self /\ raised' = raised /\ Become(h)
    BY <1>3 DEF HandlerCheck, At, GotoPoint
  <2>2. me = stack[1] /\ "pc" \in DOMAIN me
    <3>1. PICK S : stack \in Seq(S)
      BY DEF StopInv, WallInv, ShapeInv
    <3>2. me = stack[1] /\ 1 \in 1 .. Len(stack)
      BY <2>1, <3>1 DEF me
    <3> QED
      BY <3>2 DEF StopInv, WallInv, ShapeInv
  <2>3. "pc" \in DOMAIN h /\ h.pc = "set"
    BY <2>2
  <2> HIDE DEF h
  <2>4. /\ Len(stack) \in Nat /\ Len(stack) >= 1
        /\ Len(stack') = Len(stack) /\ stack'[1] = h
        /\ \A i \in 2 .. Len(stack) : stack'[i] = stack[i]
    BY <2>1, <2>3, Became DEF StopInv, WallInv
  <2>5. \A i \in 1 .. Len(stack) : i = 1 \/ i \in 2 .. Len(stack)
    BY <2>4
  <2>6. ppc \notin Quiet
    BY <1>3 DEF StopInv, QuietInv
  <2>7. QuietInv'
    BY <1>1, <2>1, <2>4, <2>6 DEF StopInv, QuietInv
  <2>8. HandlerHolds' <=> HandlerHolds
    BY <2>1, <2>2, <2>3, <2>4, <2>5 DEF HandlerHolds, LockPoints
  <2>9. LockInv'
    BY <1>1, <2>1, <2>8 DEF StopInv, LockInv, PollingHolds
  <2>10. TimeInv'
    BY <2>1, <2>3, <2>4, <2>5 DEF StopInv, TimeInv
  <2> QED
    BY <1>1, <2>7, <2>9, <2>10 DEF StopInv
<1>4. CASE HandlerExit
  <2>1. /\ stack # <<>> /\ me.pc = "exit" /\ ReturnFromHandler /\ raised' = raised
        /\ self'.started = self.started /\ self'.lock = self.lock
    BY <1>1, <1>4 DEF HandlerExit, At, SelfShape
  <2>2. /\ Len(stack) \in Nat /\ Len(stack) >= 1 /\ me = stack[1] /\ ppc \notin Quiet
        /\ \A i \in 2 .. Len(stack) : stack[i].pc = "check"
    BY <2>1, Alone
  <2>3. /\ Len(stack') = Len(stack) - 1
        /\ \A i \in 1 .. Len(stack') : stack'[i] = stack[i + 1]
    BY <2>1, Returned DEF StopInv, WallInv
  <2>4. ASSUME NEW i \in 1 .. Len(stack') PROVE stack'[i].pc = "check"
    <3>1. i + 1 \in 2 .. Len(stack)
      BY <2>2, <2>3
    <3> QED
      BY <2>2, <2>3, <3>1
  <2>5. \A i \in 2 .. Len(stack') : i \in 1 .. Len(stack')
    BY <2>2, <2>3
  <2>6. \A i \in 1 .. Len(stack) : i = 1 \/ i \in 2 .. Len(stack)
    BY <2>2
  <2>7. ~ HandlerHolds /\ ~ HandlerHolds'
    BY <2>1, <2>2, <2>4, <2>6 DEF HandlerHolds, LockPoints
  <2>8. QuietInv'
    BY <1>1, <2>1, <2>2, <2>4, <2>5 DEF StopInv, QuietInv
  <2>9. LockInv'
    BY <1>1, <2>1, <2>7 DEF StopInv, LockInv, PollingHolds
  <2>10. TimeInv'
    BY <2>1, <2>4 DEF StopInv, TimeInv
  <2> QED
    BY <1>1, <2>8, <2>9, <2>10 DEF StopInv
<1>5. ASSUME stack # <<>>, me.pc # "check", NEW h, "pc" \in DOMAIN h, Become(h),
             self'.started = self.started, raised' = raised,
             h.pc \in {"diff", "advance"} => self'.last_sample_time # None,
             \/ (me.pc \in LockPoints <=> h.pc \in LockPoints) /\ self'.lock = self.lock
             \/ /\ me.pc \notin LockPoints /\ h.pc \in LockPoints
                /\ self.lock # HeldByPolling /\ self'.lock = self.lock + 1
             \/ me.pc \in LockPoints /\ h.pc \notin LockPoints /\ self'.lock = self.lock - 1
      PROVE  StopInv'
  <2>1. /\ ppc \notin Quiet
        /\ Len(stack') \in Nat /\ Len(stack') >= 1 /\ stack'[1] = h
        /\ \A i \in 2 .. Len(stack') : stack'[i].pc = "check"
        /\ HandlerHolds <=> me.pc \in LockPoints
        /\ HandlerHolds' <=> h.pc \in LockPoints
    BY <1>5, AloneGoesOn
  <2>2. QuietInv'
    BY <1>1, <1>5, <2>1 DEF StopInv, QuietInv
  <2>3. LockInv'
    BY <1>1, <1>5, <2>1 DEF StopInv, LockInv, PollingHolds, HeldByPolling
  <2>4. \A i \in 1 .. Len(stack') : i = 1 \/ i \in 2 .. Len(stack')
    BY <2>1
  <2>5. TimeInv'
    BY <1>5, <2>1, <2>4 DEF StopInv, TimeInv
  <2> QED
    BY <1>1, <2>2, <2>3, <2>5 DEF StopInv
<1>6. CASE \/ HandlerSet \/ HandlerLock \/ HandlerTest \/ HandlerDiff \/ HandlerAdvance
           \/ HandlerStore \/ HandlerUnlock \/ HandlerGet \/ HandlerPut \/ HandlerCount
           \/ HandlerAdd
  <2>1. stack # <<>> /\ me.pc # "check"
    BY <1>6 DEF HandlerSet, HandlerLock, HandlerTest, HandlerDiff, HandlerAdvance, HandlerStore,
                HandlerUnlock, HandlerGet, HandlerPut, HandlerCount, HandlerAdd, At
  <2>2. me = stack[1] /\ "pc" \in DOMAIN me /\ 1 \in 1 .. Len(stack)
    BY <2>1, Alone
  <2>3. self'.started = self.started
    BY <1>1, <1>6
       DEF HandlerSet, HandlerLock, HandlerTest, HandlerDiff, HandlerAdvance, HandlerStore,
           HandlerUnlock, HandlerGet, HandlerPut, HandlerCount, HandlerAdd, SelfShape
  <2>4. CASE HandlerLock
    BY <1>1, <1>5, <2>1, <2>2, <2>3, <2>4 DEF HandlerLock, At, LockPoints, SelfShape
  <2>5. CASE HandlerTest
    BY <1>1, <1>5, <2>1, <2>2, <2>3, <2>5 DEF HandlerTest, At, LockPoints, SelfShape, GotoPoint
  <2>6. CASE HandlerDiff
    <3>1. self.last_sample_time # None
      BY <2>2, <2>6 DEF StopInv, TimeInv, HandlerDiff, At
    <3> QED
      BY <1>1, <1>5, <2>1, <2>2, <2>3, <2>6, <3>1 DEF HandlerDiff, At, LockPoints, SelfShape
  <2>7. CASE HandlerAdvance
    <3>1. self.last_sample_time # None
      BY <2>2, <2>7 DEF StopInv, TimeInv, HandlerAdvance, At
    <3> QED
      BY <1>1, <1>5, <2>1, <2>2, <2>3, <2>7, <3>1 DEF HandlerAdvance, At, LockPoints, SelfShape
  <2>8. CASE HandlerStore
    BY <1>1, <1>5, <2>1, <2>2, <2>3, <2>8 DEF HandlerStore, At, LockPoints, SelfShape
  <2>9. CASE HandlerUnlock
    BY <1>1, <1>5, <2>1, <2>2, <2>3, <2>9 DEF HandlerUnlock, At, LockPoints, SelfShape, GotoPoint
  <2>10. CASE HandlerSet \/ HandlerAdd \/ HandlerCount
    BY <1>1, <1>5, <2>1, <2>2, <2>3, <2>10
       DEF HandlerSet, HandlerAdd, HandlerCount, At, LockPoints, SelfShape, GotoPoint
  <2>11. CASE HandlerGet
    BY <1>1, <1>5, <2>1, <2>2, <2>3, <2>11 DEF HandlerGet, At, LockPoints, SelfShape
  <2>12. CASE HandlerPut
    BY <1>1, <1>5, <2>1, <2>2, <2>3, <2>12 DEF HandlerPut, At, LockPoints, SelfShape
  <2> QED
    BY <1>6, <2>4, <2>5, <2>6, <2>7, <2>8, <2>9, <2>10, <2>11, <2>12
<1> QED
  BY <1>2, <1>3, <1>4, <1>6 DEF HandlerStep, HandlerCheck

(***************************************************************************)
(* A step of the polling thread.                                           *)
(***************************************************************************)
LEMMA PollingStop ==
  ASSUME StopInv, "set" \notin SwitchPoints, Switchable,
         PollStep \/ ProfileStart, stack' = stack, raised' = raised
  PROVE  StopInv'
<1>1. WallInv' /\ SelfShape
  BY PollingReentry DEF StopInv, WallInv, ShapeInv, SelfShape
<1>2. HandlerHolds' <=> HandlerHolds
  BY DEF HandlerHolds
<1>3. self'.in_handler = self.in_handler
  BY <1>1 DEF SelfShape, PollStep, ProfileStart, ClearTraces, ClearTime, ClearCount, SetStarted,
              Arm, WakeUp, Pause, Rearm, Forget, Disarm, ClearStarted, Wait, AddUnknown, Iterate,
              ProfileReturn
<1>4. QuietInv'
  <2>1. CASE ProfileStart \/ ClearTraces \/ ClearTime \/ ClearCount
    <3>1. ppc \in Quiet /\ ppc' \in Quiet /\ self'.started = self.started
      BY <1>1, <2>1 DEF Quiet, SelfShape, ProfileStart, ClearTraces, ClearTime, ClearCount, PollGoto
    <3>2. closing' => ppc' # "start"
      BY <2>1 DEF StopInv, QuietInv, Quiet, ProfileStart, ClearTraces, ClearTime, ClearCount,
                  PollGoto, loopVars
    <3>3. ppc' # "wait"
      BY <3>1 DEF Quiet
    <3> QED
      BY <1>3, <3>1, <3>2, <3>3 DEF StopInv, QuietInv
  <2>2. CASE SetStarted \/ Arm \/ WakeUp \/ Pause \/ Rearm \/ Forget \/ Disarm \/ ClearStarted
    BY <1>1, <1>3, <2>2
       DEF StopInv, QuietInv, Quiet, SelfShape, SetStarted, Arm, WakeUp, Pause, Rearm, Forget,
           Disarm, ClearStarted, PollGoto, loopVars
  <2>3. CASE Wait
    <3>1. /\ ppc = "wait" /\ ppc' = "unknown" /\ ~ self.in_handler
          /\ self' = self /\ closing' = closing
      BY <2>3 DEF Wait, PollGoto, loopVars
    <3>2. ASSUME NEW i \in 1 .. Len(stack) PROVE stack[i].pc = "check"
      <4>1. ~ Critical(i)
        BY <3>1 DEF StopInv, WallInv, ReentryInv
      <4>2. PICK S : stack \in Seq(S)
        BY DEF StopInv, WallInv, ShapeInv
      <4>3. CASE i = 1
        <5>1. stack # <<>> /\ Head(stack) = stack[1]
          BY <4>2, <4>3
        <5> QED
          BY <4>1, <4>3, <5>1 DEF Critical, Switchable
      <4>4. CASE i # 1
        <5>1. i \in 2 .. Len(stack)
          BY <4>2, <4>4
        <5> QED
          BY <4>1, <5>1 DEF Critical, StopInv, QuietInv
      <4> QED
        BY <4>3, <4>4
    <3>3. ~ self.started
      BY <3>1 DEF StopInv, QuietInv
    <3> QED
      BY <3>1, <3>2, <3>3 DEF StopInv, QuietInv, Quiet
  <2>4. CASE AddUnknown \/ Iterate \/ ProfileReturn
    BY <1>1, <1>3, <2>4
       DEF StopInv, QuietInv, Quiet, SelfShape, AddUnknown, Iterate, ProfileReturn, PollGoto,
           loopVars
  <2> QED
    BY <2>1, <2>2, <2>3, <2>4 DEF PollStep
<1>5. LockInv'
  <2>1. CASE WakeUp
    <3>1. ~ HandlerHolds /\ self'.lock = HeldByPolling /\ ppc' = "pause"
      BY <1>1, <2>1 DEF StopInv, LockInv, WakeUp, PollGoto, SelfShape, HeldByPolling
    <3> QED
      BY <1>2, <3>1 DEF LockInv, PollingHolds
  <2>2. CASE Forget
    <3>1. ~ HandlerHolds /\ self'.lock = 0 /\ ~ PollingHolds'
      BY <1>1, <2>2 DEF StopInv, LockInv, Forget, PollGoto, SelfShape, PollingHolds
    <3> QED
      BY <1>2, <3>1 DEF LockInv
  <2>3. CASE Pause \/ Rearm
    <3>1. self' = self /\ PollingHolds /\ PollingHolds'
      BY <2>3 DEF Pause, Rearm, PollGoto, PollingHolds
    <3> QED
      BY <1>2, <3>1 DEF StopInv, LockInv
  <2>4. CASE \/ ProfileStart \/ ClearTraces \/ ClearTime \/ ClearCount \/ SetStarted \/ Arm
             \/ Disarm \/ ClearStarted \/ Wait \/ AddUnknown \/ Iterate \/ ProfileReturn
    <3>1. self'.lock = self.lock /\ ~ PollingHolds /\ ~ PollingHolds'
      BY <1>1, <2>4
         DEF SelfShape, ProfileStart, ClearTraces, ClearTime, ClearCount, SetStarted, Arm, Disarm,
             ClearStarted, Wait, AddUnknown, Iterate, ProfileReturn, PollGoto, PollingHolds
    <3> QED
      BY <1>2, <3>1 DEF StopInv, LockInv
  <2> QED
    BY <2>1, <2>2, <2>3, <2>4 DEF PollStep
<1>6. TimeInv'
  <2>1. CASE Forget \/ ClearTime
    <3>1. \A i \in 1 .. Len(stack) : stack[i].pc \notin {"diff", "advance"}
      BY <2>1 DEF Forget, ClearTime, PollGoto, StopInv, LockInv, QuietInv, Quiet, PollingHolds,
                  HandlerHolds, LockPoints
    <3> QED
      BY <3>1 DEF StopInv, TimeInv
  <2>2. CASE ~ (Forget \/ ClearTime)
    <3>1. self'.last_sample_time = self.last_sample_time
      BY <1>1, <2>2
         DEF SelfShape, PollStep, ProfileStart, ClearTraces, ClearCount, SetStarted, Arm, WakeUp,
             Pause, Rearm, Disarm, ClearStarted, Wait, AddUnknown, Iterate, ProfileReturn
    <3> QED
      BY <3>1 DEF StopInv, TimeInv
  <2> QED
    BY <2>1, <2>2
<1> QED
  BY <1>1, <1>4, <1>5, <1>6 DEF StopInv

LEMMA NextStop ==
  ASSUME "set" \notin SwitchPoints, StopInv, [Next]_wallVars PROVE StopInv'
<1>1. CASE Tick \/ UNCHANGED wallVars
  <2>1. UNCHANGED <<self, stack, raised, ppc, closing>>
    BY <1>1 DEF Tick, wallVars, mainVars, pollVars, loopVars
  <2>2. WallInv'
    BY NextWall DEF StopInv
  <2>3. QuietInv'
    BY <2>1 DEF StopInv, QuietInv
  <2>4. LockInv' /\ TimeInv'
    BY <2>1 DEF StopInv, LockInv, TimeInv, PollingHolds, HandlerHolds
  <2> QED
    BY <2>2, <2>3, <2>4 DEF StopInv
<1>2. CASE \E t \in Stacks : CallHandler(t)
  <2>1. PICK t \in Stacks : CallHandler(t)
    BY <1>2
  <2> QED
    BY <2>1, CallingStop
<1>3. CASE HandlerStep
  BY <1>3, HandlerStop
<1>4. CASE PollStep
  BY <1>4, PollingStop DEF PollStep
<1>5. CASE Switchable /\ ProfileStart /\ UNCHANGED <<clock, tripped, stack, raised>>
  BY <1>5, PollingStop
<1> QED
  BY <1>1, <1>2, <1>3, <1>4, <1>5 DEF Next

LEMMA StopAlways == ASSUME "set" \notin SwitchPoints PROVE Spec => []StopInv
<1>1. StopInv /\ [Next]_wallVars => StopInv'
  BY NextStop
<1> QED
  BY <1>1, InitStop, PTL DEF Spec

(***************************************************************************)
(* _stop_profiling waits for the last handler (pythonprofiler.py:223-235)  *)
(* whatever else may happen at other points of _handler, if the            *)
(* interpreter does not hand over the GIL between its test of _in_handler  *)
(* and its store (185-188): wall_stop_race has no other cause.             *)
(***************************************************************************)
THEOREM StopWaits ==
  ASSUME "set" \notin SwitchPoints PROVE Spec => []StopWaitsForHandler
<1>1. StopInv => StopWaitsForHandler
  BY DEF StopInv, QuietInv, Quiet, StopWaitsForHandler, Serializing
<1> QED
  BY <1>1, StopAlways, PTL

(***************************************************************************)
(* Under the same condition the handler raises no TypeError into the       *)
(* program: _last_sample_time is cleared under the lock, or when no        *)
(* handler is past its test (pythonprofiler.py:131-144, 204-213, 248-251). *)
(***************************************************************************)
THEOREM HandlerIsSilent ==
  ASSUME "set" \notin SwitchPoints PROVE Spec => []HandlerNeverRaises
<1>1. StopInv => HandlerNeverRaises
  BY DEF StopInv, TimeInv, HandlerNeverRaises
<1> QED
  BY <1>1, StopAlways, PTL

-----------------------------------------------------------------------------
(***************************************************************************)
(* The types, wherever the interpreter switches.                           *)
(***************************************************************************)

\* The dicts of ticks by stack.
Dicts ==
  {d \in UNION {[S -> Nat] : S \in SUBSET (Stacks \cup {UnknownStack})} : IsFiniteSet(DOMAIN d)}

Selves ==
  [traces : Dicts, dict : Nat, in_handler : BOOLEAN, started : BOOLEAN,
   last_sample_time : Nat \cup {None}, trace_count : Nat, lock : {HeldByPolling, 0, 1}]

Handlers ==
  [pc : HandlerPoints, trace : Stacks, now : Nat, ticks : Nat, value : Nat, dict : Nat]

PollPoints == Quiet \cup {"arm", "sleep", "pause", "rearm", "forget", "disarm", "stop", "wait"}

TypeInv ==
  /\ clock \in Nat /\ target \in Nat /\ recorded \in Nat /\ size \in Nat
  /\ armed \in BOOLEAN /\ tripped \in BOOLEAN /\ raised \in BOOLEAN /\ closing \in BOOLEAN
  /\ self \in Selves
  /\ stack \in Seq(Handlers) /\ Len(stack) <= MaxNesting
  /\ ppc \in PollPoints
  /\ profiles \in 0 .. MaxProfiles

Working(points) == \E i \in 1 .. Len(stack) : stack[i].pc \in points

HeldInv ==
  /\ self.lock = HeldByPolling <=> PollingHolds
  /\ HandlerHolds => self.lock = 1
  /\ self.lock = 1 => /\ self.in_handler /\ MaxNesting >= 1
                      /\ HandlerHolds \/ \A i \in 1 .. Len(stack) : stack[i].pc = "check"

LEMMA EmptyDict == NoTraces \in Dicts /\ DOMAIN NoTraces = {}
<1>1. DOMAIN NoTraces = {} /\ NoTraces = [x \in {} |-> 0]
  BY DEF NoTraces
<1>2. NoTraces \in [{} -> Nat] /\ {} \in SUBSET (Stacks \cup {UnknownStack})
  BY <1>1
<1>3. IsFiniteSet({})
  BY FS_EmptySet
<1> QED
  BY <1>1, <1>2, <1>3 DEF Dicts

LEMMA DictOf ==
  ASSUME NEW d
  PROVE  d \in Dicts <=> /\ d = [k \in DOMAIN d |-> d[k]]
                         /\ DOMAIN d \subseteq Stacks \cup {UnknownStack}
                         /\ IsFiniteSet(DOMAIN d)
                         /\ \A k \in DOMAIN d : d[k] \in Nat
BY DEF Dicts

LEMMA WithEntry ==
  ASSUME NEW d \in Dicts, NEW k \in Stacks \cup {UnknownStack}, NEW n \in Nat
  PROVE  /\ With(d, k, n) \in Dicts
         /\ DOMAIN With(d, k, n) = DOMAIN d \cup {k}
         /\ With(d, k, n)[k] = n
         /\ \A j \in DOMAIN d : j # k => With(d, k, n)[j] = d[j]
<1> DEFINE e == With(d, k, n)
<1>1. /\ e = [j \in DOMAIN d \cup {k} |-> e[j]] /\ DOMAIN e = DOMAIN d \cup {k} /\ e[k] = n
      /\ \A j \in DOMAIN d : j # k => e[j] = d[j]
  BY DEF With
<1>2. /\ DOMAIN d \subseteq Stacks \cup {UnknownStack} /\ IsFiniteSet(DOMAIN d)
      /\ \A j \in DOMAIN d : d[j] \in Nat
  BY DictOf
<1>3. IsFiniteSet(DOMAIN e)
  BY <1>1, <1>2, FS_AddElement
<1> HIDE DEF e
<1>4. /\ DOMAIN e \subseteq Stacks \cup {UnknownStack}
      /\ \A j \in DOMAIN e : e[j] \in Nat
  BY <1>1, <1>2
<1>5. e \in Dicts
  BY <1>1, <1>3, <1>4, DictOf
<1> QED
  BY <1>1, <1>5 DEF e

LEMMA InitTypes == Init => TypeInv /\ HeldInv
<1> SUFFICES ASSUME Init PROVE TypeInv /\ HeldInv
  OBVIOUS
<1>1. self \in Selves
  BY EmptyDict DEF Init, Selves
<1>2. stack = <<>> /\ stack \in Seq(Handlers) /\ Len(stack) = 0
  BY DEF Init
<1>3. Len(stack) <= MaxNesting /\ 0 \in 0 .. MaxProfiles
  BY <1>2, WallAssumption
<1>4. TypeInv
  BY <1>1, <1>2, <1>3 DEF Init, TypeInv, PollPoints, Quiet
<1>5. HeldInv
  BY <1>2 DEF Init, HeldInv, PollingHolds, HandlerHolds, HeldByPolling
<1> QED
  BY <1>4, <1>5

(***************************************************************************)
(* The largest of two numbers.                                             *)
(***************************************************************************)
LEMMA MaxOfTwo ==
  ASSUME NEW a \in Int, NEW b \in Int
  PROVE  Max({a, b}) = IF a <= b THEN b ELSE a
<1> DEFINE m == IF a <= b THEN b ELSE a
<1>1. m \in {a, b} /\ \A y \in {a, b} : m >= y
  OBVIOUS
<1>2. \A x \in {a, b} : (\A y \in {a, b} : x >= y) => x = m
  OBVIOUS
<1> HIDE DEF m
<1>3. Max({a, b}) = m
  BY <1>1, <1>2 DEF Max
<1> QED
  BY <1>3 DEF m

(***************************************************************************)
(* The innermost handler has its types, and so does the stack without it.  *)
(***************************************************************************)
LEMMA Innermost ==
  ASSUME TypeInv, stack # <<>>
  PROVE  /\ Len(stack) \in Nat /\ Len(stack) >= 1 /\ me = stack[1] /\ me \in Handlers
         /\ Tail(stack) \in Seq(Handlers) /\ Len(Tail(stack)) = Len(stack) - 1
BY DEF TypeInv, me

LEMMA StackTypes ==
  ASSUME TypeInv, stack # <<>>,
         \/ \E h \in Handlers : Become(h)
         \/ ReturnFromHandler
         \/ stack' = <<>>
  PROVE  stack' \in Seq(Handlers) /\ Len(stack') <= MaxNesting
<1> DEFINE t == Tail(stack)
<1>1. /\ Len(stack) \in Nat /\ Len(stack) >= 1 /\ Len(stack) <= MaxNesting
      /\ t \in Seq(Handlers) /\ Len(t) = Len(stack) - 1
  BY Innermost DEF TypeInv
<1>2. CASE \E h \in Handlers : Become(h)
  <2>1. PICK h \in Handlers : stack' = <<h>> \o t
    BY <1>2 DEF Become
  <2> HIDE DEF t
  <2>2. stack' \in Seq(Handlers) /\ Len(stack') = 1 + Len(t)
    BY <1>1, <2>1
  <2> QED
    BY <1>1, <2>2
<1>3. CASE ReturnFromHandler
  BY <1>1, <1>3, WallAssumption DEF ReturnFromHandler
<1>4. CASE stack' = <<>>
  BY <1>4, WallAssumption
<1> QED
  BY <1>2, <1>3, <1>4

(***************************************************************************)
(* The lock is free when a handler that was let in acquires it, and held   *)
(* when it releases it.                                                    *)
(***************************************************************************)
LEMMA LockHeld ==
  ASSUME WallInv, TypeInv, HeldInv, stack # <<>>
  PROVE  /\ me.pc \in LockPoints => self.lock = 1
         /\ me.pc \notin LockPoints \cup {"check"} => self.lock # 1
<1>1. 1 \in 1 .. Len(stack) /\ me = stack[1] /\ Len(stack) \in Nat
  BY Innermost
<1>2. ASSUME me.pc \notin LockPoints \cup {"check"} PROVE ~ HandlerHolds
  <2> SUFFICES ASSUME NEW i \in 1 .. Len(stack), stack[i].pc \in LockPoints
               PROVE  FALSE
    BY DEF HandlerHolds
  <2>1. Critical(i) /\ i # 1
    BY <1>1, <1>2 DEF Critical, LockPoints
  <2>2. 1 \in 1 .. i - 1
    BY <1>1, <2>1
  <2>3. stack[1].pc = "check"
    BY <2>1, <2>2 DEF WallInv, ReentryInv
  <2> QED
    BY <1>1, <1>2, <2>3
<1> QED
  BY <1>1, <1>2 DEF HeldInv, HandlerHolds

LEMMA HandlerTypes == ASSUME WallInv, TypeInv, HeldInv, HandlerStep PROVE TypeInv'
<1>1. stack # <<>>
  BY DEF HandlerStep, HandlerCheck, HandlerSet, HandlerLock, HandlerTest, HandlerDiff,
         HandlerAdvance, HandlerStore, HandlerUnlock, HandlerGet, HandlerPut, HandlerCount,
         HandlerAdd, HandlerExit, At
<1>2. me \in Handlers /\ self \in Selves /\ clock \in Nat /\ recorded \in Nat
  BY <1>1, Innermost DEF TypeInv
<1>3. /\ clock' \in Nat /\ target' \in Nat /\ size' \in Nat /\ armed' \in BOOLEAN
      /\ tripped' \in BOOLEAN /\ closing' \in BOOLEAN /\ ppc' \in PollPoints
      /\ profiles' \in 0 .. MaxProfiles
  BY DEF TypeInv, HandlerStep, systemVars, pollVars, loopVars, buildVars
<1>4. SUFFICES /\ self' \in Selves /\ recorded' \in Nat
               /\ \/ \E h \in Handlers : Become(h)
                  \/ ReturnFromHandler
                  \/ stack' = <<>>
  <2>1. stack' \in Seq(Handlers) /\ Len(stack') <= MaxNesting
    BY <1>1, <1>4, StackTypes
  <2>2. raised' \in BOOLEAN
    BY DEF TypeInv, HandlerStep, HandlerCheck, HandlerSet, HandlerLock, HandlerTest, HandlerDiff,
           HandlerAdvance, HandlerStore, HandlerUnlock, HandlerGet, HandlerPut, HandlerCount,
           HandlerAdd, HandlerExit, RaiseTypeError
  <2> QED
    BY <1>3, <1>4, <2>1, <2>2 DEF TypeInv
<1>5. CASE HandlerCheck
  <2>1. [me EXCEPT !.pc = "set"] \in Handlers
    BY <1>2 DEF Handlers, HandlerPoints
  <2> QED
    BY <1>2, <1>5, <2>1 DEF HandlerCheck, GotoPoint
<1>6. CASE HandlerSet
  <2>1. [me EXCEPT !.pc = "lock"] \in Handlers
    BY <1>2 DEF Handlers, HandlerPoints
  <2>2. self' \in Selves
    BY <1>2, <1>6 DEF HandlerSet, Selves
  <2> QED
    BY <1>2, <1>6, <2>1, <2>2 DEF HandlerSet, GotoPoint
<1>7. CASE HandlerLock
  <2>1. [me EXCEPT !.pc = "test", !.now = clock] \in Handlers
    BY <1>2 DEF Handlers, HandlerPoints
  <2>2. self.lock = 0
    <3>1. me.pc = "lock" /\ self.lock # HeldByPolling
      BY <1>7 DEF HandlerLock, At
    <3>2. self.lock # 1
      BY <1>1, <3>1, LockHeld DEF LockPoints
    <3> QED
      BY <1>2, <3>1, <3>2 DEF Selves
  <2>3. self' \in Selves
    BY <1>2, <1>7, <2>2 DEF HandlerLock, Selves
  <2> QED
    BY <1>2, <1>7, <2>1, <2>3 DEF HandlerLock
<1>8. CASE HandlerTest
  <2>1. /\ [me EXCEPT !.pc = "unlock", !.now = 0] \in Handlers
        /\ [me EXCEPT !.pc = "diff"] \in Handlers
    BY <1>2 DEF Handlers, HandlerPoints
  <2>2. [self EXCEPT !.last_sample_time = me.now] \in Selves
    BY <1>2 DEF Selves, Handlers
  <2> QED
    BY <1>2, <1>8, <2>1, <2>2 DEF HandlerTest, GotoPoint
<1>9. CASE HandlerDiff
  <2>1. CASE self.last_sample_time # None
    <3> DEFINE late == me.now - self.last_sample_time
               n == Max({1, late})
    <3>1. late \in Int
      BY <1>2, <2>1 DEF Selves, Handlers
    <3> HIDE DEF late
    <3>2. n \in Nat
      BY <3>1, MaxOfTwo
    <3> HIDE DEF n
    <3>3. [me EXCEPT !.pc = "advance", !.now = 0, !.ticks = n] \in Handlers
      BY <1>2, <3>2 DEF Handlers, HandlerPoints
    <3>4. /\ Become([me EXCEPT !.pc = "advance", !.now = 0, !.ticks = n])
          /\ recorded' = recorded + n /\ self' = self
      BY <1>9, <2>1 DEF HandlerDiff, n, late
    <3> QED
      BY <1>2, <3>2, <3>3, <3>4
  <2>2. CASE self.last_sample_time = None
    BY <1>2, <1>9, <2>2 DEF HandlerDiff, RaiseTypeError
  <2> QED
    BY <2>1, <2>2
<1>10. CASE HandlerAdvance
  <2>1. CASE self.last_sample_time # None
    <3> DEFINE n == self.last_sample_time + me.ticks
    <3>1. n \in Nat
      BY <1>2, <2>1 DEF Selves, Handlers
    <3>2. /\ Become([me EXCEPT !.pc = "store", !.value = n]) /\ self' = self
          /\ recorded' = recorded
      BY <1>10, <2>1 DEF HandlerAdvance
    <3> HIDE DEF n
    <3>3. [me EXCEPT !.pc = "store", !.value = n] \in Handlers
      BY <1>2, <3>1 DEF Handlers, HandlerPoints
    <3> QED
      BY <1>2, <3>2, <3>3
  <2>2. CASE self.last_sample_time = None
    BY <1>2, <1>10, <2>2 DEF HandlerAdvance, RaiseTypeError
  <2> QED
    BY <2>1, <2>2
<1>11. CASE HandlerStore
  <2>1. /\ [me EXCEPT !.pc = "unlock", !.value = 0] \in Handlers
        /\ [self EXCEPT !.last_sample_time = me.value] \in Selves
    BY <1>2 DEF Selves, Handlers, HandlerPoints
  <2> QED
    BY <1>2, <1>11, <2>1 DEF HandlerStore
<1>12. CASE HandlerUnlock
  <2>1. self.lock = 1
    BY <1>1, <1>12, LockHeld DEF HandlerUnlock, At, LockPoints
  <2>2. /\ [me EXCEPT !.pc = "get"] \in Handlers
        /\ [self EXCEPT !.lock = @ - 1] \in Selves
    BY <1>2, <2>1 DEF Selves, Handlers, HandlerPoints
  <2> QED
    BY <1>2, <1>12, <2>2 DEF HandlerUnlock, GotoPoint
<1>13. CASE HandlerGet
  <2> DEFINE n == IF me.trace \in DOMAIN self.traces THEN self.traces[me.trace] ELSE 0
             d == With(self.traces, me.trace, n)
  <2>1. self.traces \in Dicts /\ me.trace \in Stacks \cup {UnknownStack}
    BY <1>2 DEF Selves, Handlers
  <2>2. n \in Nat
    BY <2>1, DictOf
  <2> HIDE DEF n
  <2>3. d \in Dicts
    BY <2>1, <2>2, WithEntry
  <2> HIDE DEF d
  <2>4. /\ [me EXCEPT !.pc = "put", !.dict = self.dict, !.value = n] \in Handlers
        /\ [self EXCEPT !.traces = d] \in Selves
    BY <1>2, <2>2, <2>3 DEF Selves, Handlers, HandlerPoints
  <2>5. /\ Become([me EXCEPT !.pc = "put", !.dict = self.dict, !.value = n])
        /\ self' = [self EXCEPT !.traces = d]
    BY <1>13 DEF HandlerGet, n, d
  <2> QED
    BY <1>2, <1>13, <2>4, <2>5 DEF HandlerGet
<1>14. CASE HandlerPut
  <2> DEFINE n == me.value + me.ticks
             d == With(self.traces, me.trace, n)
  <2>1. self.traces \in Dicts /\ me.trace \in Stacks \cup {UnknownStack} /\ n \in Nat
    BY <1>2 DEF Selves, Handlers
  <2>2. d \in Dicts
    BY <2>1, WithEntry
  <2> HIDE DEF d
  <2>3. /\ [me EXCEPT !.pc = "count", !.dict = 0, !.value = 0] \in Handlers
        /\ [self EXCEPT !.traces = d] \in Selves
    BY <1>2, <2>2 DEF Selves, Handlers, HandlerPoints
  <2>4. self' = self \/ self' = [self EXCEPT !.traces = d]
    BY <1>14 DEF HandlerPut, d
  <2> QED
    BY <1>2, <1>14, <2>3, <2>4 DEF HandlerPut
<1>15. CASE HandlerCount
  <2>1. [me EXCEPT !.pc = "add", !.value = self.trace_count] \in Handlers
    BY <1>2 DEF Selves, Handlers, HandlerPoints
  <2> QED
    BY <1>2, <1>15, <2>1 DEF HandlerCount
<1>16. CASE HandlerAdd
  <2>1. /\ [me EXCEPT !.pc = "exit"] \in Handlers
        /\ [self EXCEPT !.trace_count = me.value + me.ticks] \in Selves
    BY <1>2 DEF Selves, Handlers, HandlerPoints
  <2> QED
    BY <1>2, <1>16, <2>1 DEF HandlerAdd, GotoPoint
<1>17. CASE HandlerExit
  <2>1. [self EXCEPT !.in_handler = FALSE] \in Selves
    BY <1>2 DEF Selves
  <2> QED
    BY <1>2, <1>17, <2>1 DEF HandlerExit
<1> QED
  BY <1>5, <1>6, <1>7, <1>8, <1>9, <1>10, <1>11, <1>12, <1>13, <1>14, <1>15, <1>16, <1>17
     DEF HandlerStep

(***************************************************************************)
(* A handler that is past its store of the flag goes on: it holds the lock *)
(* if any does.                                                            *)
(***************************************************************************)
LEMMA HoldsGoingOn ==
  ASSUME WallInv, stack # <<>>, me.pc \notin {"check", "set"},
         NEW h, "pc" \in DOMAIN h, Become(h)
  PROVE  /\ HandlerHolds <=> me.pc \in LockPoints
         /\ HandlerHolds' <=> h.pc \in LockPoints
         /\ self.in_handler
<1>1. /\ Len(stack) \in Nat /\ Len(stack) >= 1 /\ me = stack[1]
      /\ Len(stack') = Len(stack) /\ stack'[1] = h
      /\ \A i \in 2 .. Len(stack) : stack'[i] = stack[i]
  BY Became DEF WallInv
<1>2. 1 \in 1 .. Len(stack) /\ Critical(1)
  BY <1>1 DEF Critical
<1>3. self.in_handler /\ \A j \in 2 .. Len(stack) : ~ Critical(j)
  BY <1>2 DEF WallInv, ReentryInv
<1>4. \A i \in 1 .. Len(stack) : i = 1 \/ i \in 2 .. Len(stack)
  BY <1>1
<1>5. \A i \in 2 .. Len(stack) : stack[i].pc \notin LockPoints
  BY <1>3 DEF Critical, LockPoints
<1> QED
  BY <1>1, <1>2, <1>3, <1>4, <1>5 DEF HandlerHolds

(***************************************************************************)
(* No handler holds the lock after a step of one that does not.            *)
(***************************************************************************)
LEMMA HoldsNot ==
  ASSUME WallInv, stack # <<>>, ~ HandlerHolds,
         \/ \E h : "pc" \in DOMAIN h /\ h.pc \notin LockPoints /\ Become(h)
         \/ ReturnFromHandler
  PROVE  ~ HandlerHolds'
<1>1. CASE ReturnFromHandler
  <2>1. /\ Len(stack) \in Nat /\ Len(stack') = Len(stack) - 1
        /\ \A i \in 1 .. Len(stack') : stack'[i] = stack[i + 1]
    BY <1>1, Returned DEF WallInv
  <2>2. \A i \in 1 .. Len(stack') : i + 1 \in 1 .. Len(stack)
    BY <2>1
  <2> QED
    BY <2>1, <2>2 DEF HandlerHolds
<1>2. CASE \E h : "pc" \in DOMAIN h /\ h.pc \notin LockPoints /\ Become(h)
  <2>1. PICK h : "pc" \in DOMAIN h /\ h.pc \notin LockPoints /\ Become(h)
    BY <1>2
  <2>2. /\ Len(stack) \in Nat /\ Len(stack') = Len(stack) /\ stack'[1] = h
        /\ \A i \in 2 .. Len(stack) : stack'[i] = stack[i]
    BY <2>1, Became DEF WallInv
  <2>3. \A i \in 1 .. Len(stack) : i = 1 \/ i \in 2 .. Len(stack)
    BY <2>2
  <2> QED
    BY <2>1, <2>2, <2>3 DEF HandlerHolds
<1> QED
  BY <1>1, <1>2

LEMMA HandlerHeld ==
  ASSUME WallInv, TypeInv, HeldInv, HandlerStep PROVE HeldInv'
<1>1. stack # <<>> /\ ppc' = ppc
  BY DEF HandlerStep, HandlerCheck, HandlerSet, HandlerLock, HandlerTest, HandlerDiff,
         HandlerAdvance, HandlerStore, HandlerUnlock, HandlerGet, HandlerPut, HandlerCount,
         HandlerAdd, HandlerExit, At, pollVars
<1>2. /\ Len(stack) \in Nat /\ Len(stack) >= 1 /\ me = stack[1] /\ "pc" \in DOMAIN me
      /\ self \in Selves /\ MaxNesting >= 1
  BY <1>1, Innermost, WallAssumption DEF TypeInv, Handlers
<1>3. self.lock \in {HeldByPolling, 0, 1} /\ (PollingHolds' <=> PollingHolds)
  BY <1>1, <1>2 DEF Selves, PollingHolds
<1>4. CASE HandlerCheck /\ ReturnFromHandler
  <2>1. self' = self /\ me.pc = "check"
    BY <1>4 DEF HandlerCheck, At
  <2>2. /\ Len(stack') = Len(stack) - 1
        /\ \A i \in 1 .. Len(stack') : stack'[i] = stack[i + 1]
    BY <1>1, <1>4, Returned DEF WallInv
  <2>3. \A i \in 1 .. Len(stack') : i + 1 \in 1 .. Len(stack)
    BY <1>2, <2>2
  <2>4. \A i \in 1 .. Len(stack) : i = 1 \/ (i - 1 \in 1 .. Len(stack') /\ (i - 1) + 1 = i)
    BY <1>2, <2>2
  <2>5. HandlerHolds' <=> HandlerHolds
    BY <1>2, <2>1, <2>2, <2>3, <2>4 DEF HandlerHolds, LockPoints
  <2> QED
    BY <1>3, <2>1, <2>2, <2>3, <2>5 DEF HeldInv
<1>5. CASE HandlerCheck /\ GotoPoint("set") /\ ~ self.in_handler
  <2>1. self' = self /\ self.lock # 1 /\ ~ HandlerHolds
    BY <1>5 DEF HandlerCheck, HeldInv
  <2>2. "pc" \in DOMAIN [me EXCEPT !.pc = "set"] /\ [me EXCEPT !.pc = "set"].pc \notin LockPoints
    BY <1>2 DEF LockPoints
  <2>3. ~ HandlerHolds'
    BY <1>1, <1>5, <2>1, <2>2, HoldsNot DEF GotoPoint
  <2> QED
    BY <1>3, <2>1, <2>3 DEF HeldInv
<1>6. CASE HandlerSet
  <2>1. self.lock # 1 /\ ~ HandlerHolds
    BY <1>1, <1>6, LockHeld DEF HandlerSet, At, LockPoints, HeldInv
  <2>2. /\ "pc" \in DOMAIN [me EXCEPT !.pc = "lock"]
        /\ [me EXCEPT !.pc = "lock"].pc \notin LockPoints
    BY <1>2 DEF LockPoints
  <2>3. ~ HandlerHolds'
    BY <1>1, <1>6, <2>1, <2>2, HoldsNot DEF HandlerSet, GotoPoint
  <2>4. self'.lock = self.lock
    BY <1>2, <1>6 DEF HandlerSet, Selves
  <2> QED
    BY <1>3, <2>1, <2>3, <2>4 DEF HeldInv
<1>7. CASE HandlerExit
  <2>1. self.lock # 1 /\ ~ HandlerHolds /\ ReturnFromHandler
    BY <1>1, <1>7, LockHeld DEF HandlerExit, At, LockPoints, HeldInv
  <2>2. ~ HandlerHolds'
    BY <1>1, <2>1, HoldsNot
  <2>3. self'.lock = self.lock
    BY <1>2, <1>7 DEF HandlerExit, Selves
  <2> QED
    BY <1>3, <2>1, <2>2, <2>3 DEF HeldInv
<1>8. CASE RaiseTypeError /\ (HandlerDiff \/ HandlerAdvance)
  <2>1. /\ me.pc \in LockPoints \ {"check", "set"} /\ self' = self
        /\ stack' = <<>> /\ Len(stack') = 0
    BY <1>8 DEF HandlerDiff, HandlerAdvance, At, RaiseTypeError, LockPoints
  <2>2. self.lock = 1
    BY <1>1, <2>1, LockHeld
  <2> QED
    BY <1>3, <2>1, <2>2 DEF HeldInv, HandlerHolds
<1>9. ASSUME me.pc \notin {"check", "set"}, NEW h, "pc" \in DOMAIN h, Become(h),
             self'.in_handler = self.in_handler,
             \/ (me.pc \in LockPoints <=> h.pc \in LockPoints) /\ self'.lock = self.lock
             \/ /\ me.pc \notin LockPoints /\ h.pc \in LockPoints
                /\ self.lock # HeldByPolling /\ self'.lock = self.lock + 1
             \/ me.pc \in LockPoints /\ h.pc \notin LockPoints /\ self'.lock = self.lock - 1
      PROVE  HeldInv'
  <2>1. /\ HandlerHolds <=> me.pc \in LockPoints
        /\ HandlerHolds' <=> h.pc \in LockPoints
        /\ self.in_handler
    BY <1>1, <1>9, HoldsGoingOn
  <2>2. /\ me.pc \in LockPoints => self.lock = 1
        /\ me.pc \notin LockPoints => self.lock # 1
    BY <1>1, <1>9, LockHeld
  <2> QED
    BY <1>2, <1>3, <1>9, <2>1, <2>2 DEF HeldInv, HeldByPolling
<1>10. CASE HandlerLock
  BY <1>2, <1>9, <1>10 DEF HandlerLock, At, LockPoints, Selves
<1>11. CASE HandlerTest
  BY <1>2, <1>9, <1>11 DEF HandlerTest, At, LockPoints, Selves, GotoPoint
<1>12. CASE HandlerDiff /\ ~ RaiseTypeError
  BY <1>2, <1>9, <1>12 DEF HandlerDiff, At, LockPoints, Selves
<1>13. CASE HandlerAdvance /\ ~ RaiseTypeError
  BY <1>2, <1>9, <1>13 DEF HandlerAdvance, At, LockPoints, Selves
<1>14. CASE HandlerStore
  BY <1>2, <1>9, <1>14 DEF HandlerStore, At, LockPoints, Selves
<1>15. CASE HandlerUnlock
  BY <1>2, <1>9, <1>15 DEF HandlerUnlock, At, LockPoints, Selves, GotoPoint
<1>16. CASE HandlerGet
  BY <1>2, <1>9, <1>16 DEF HandlerGet, At, LockPoints, Selves
<1>17. CASE HandlerPut
  BY <1>2, <1>9, <1>17 DEF HandlerPut, At, LockPoints, Selves
<1>18. CASE HandlerCount \/ HandlerAdd
  BY <1>2, <1>9, <1>18 DEF HandlerCount, HandlerAdd, At, LockPoints, Selves, GotoPoint
<1> QED
  BY <1>4, <1>5, <1>6, <1>7, <1>8, <1>10, <1>11, <1>12, <1>13, <1>14, <1>15, <1>16, <1>17, <1>18
     DEF HandlerStep, HandlerCheck

LEMMA CallingTypes ==
  ASSUME WallInv, TypeInv, HeldInv, NEW t \in Stacks, CallHandler(t)
  PROVE  TypeInv' /\ HeldInv'
<1> DEFINE h == [pc |-> "check", trace |-> t, now |-> 0, ticks |-> 1, value |-> 0, dict |-> 0]
<1>1. /\ stack' = <<h>> \o stack /\ Len(stack) < MaxNesting
      /\ UNCHANGED <<clock, armed, self, raised, recorded, pollVars>> /\ tripped' = FALSE
  BY DEF CallHandler
<1>2. h \in Handlers /\ h.pc = "check" /\ "pc" \in DOMAIN h
  BY DEF Handlers, HandlerPoints
<1> HIDE DEF h
<1>3. stack \in Seq(Handlers) /\ Len(stack) \in Nat
  BY DEF TypeInv
<1>4. stack' \in Seq(Handlers) /\ Len(stack') = 1 + Len(stack)
  BY <1>1, <1>2, <1>3
<1>5. Len(stack') <= MaxNesting
  BY <1>1, <1>3, <1>4, WallAssumption
<1>6. TypeInv'
  BY <1>1, <1>4, <1>5 DEF TypeInv, pollVars, loopVars, buildVars
<1>7. /\ Len(stack') = Len(stack) + 1 /\ stack'[1] = h
      /\ \A i \in 2 .. Len(stack') : stack'[i] = stack[i - 1]
  BY <1>1, <1>2, Pushed DEF WallInv
<1>8. \A i \in 1 .. Len(stack') : i = 1 \/ (i \in 2 .. Len(stack') /\ i - 1 \in 1 .. Len(stack))
  BY <1>3, <1>7
<1>9. \A i \in 1 .. Len(stack) : /\ i + 1 \in 2 .. Len(stack') /\ (i + 1) - 1 = i
                                 /\ i + 1 \in 1 .. Len(stack')
  BY <1>3, <1>7
<1>10. HandlerHolds' <=> HandlerHolds
  BY <1>2, <1>7, <1>8, <1>9 DEF HandlerHolds, LockPoints
<1>11. (\A i \in 1 .. Len(stack) : stack[i].pc = "check")
         => (\A i \in 1 .. Len(stack') : stack'[i].pc = "check")
  BY <1>2, <1>7, <1>8
<1>12. HeldInv'
  BY <1>1, <1>10, <1>11 DEF HeldInv, PollingHolds, pollVars
<1> QED
  BY <1>6, <1>12

(***************************************************************************)
(* A step of the polling thread.                                           *)
(***************************************************************************)
LEMMA PollingTypes ==
  ASSUME TypeInv, HeldInv, PollStep \/ ProfileStart, UNCHANGED <<clock, tripped, stack, raised>>
  PROVE  TypeInv' /\ HeldInv'
<1>1. /\ clock \in Nat /\ target \in Nat /\ recorded \in Nat /\ size \in Nat
      /\ armed \in BOOLEAN /\ closing \in BOOLEAN /\ self \in Selves /\ ppc \in PollPoints
      /\ profiles \in 0 .. MaxProfiles
  BY DEF TypeInv
<1>2. SUFFICES /\ target' \in Nat /\ recorded' \in Nat /\ size' \in Nat
               /\ armed' \in BOOLEAN /\ closing' \in BOOLEAN /\ ppc' \in PollPoints
               /\ profiles' \in 0 .. MaxProfiles
               /\ self' \in Selves /\ self'.in_handler = self.in_handler
               /\ \/ self'.lock = self.lock /\ (PollingHolds' <=> PollingHolds)
                  \/ ~ HandlerHolds /\ self'.lock = HeldByPolling /\ PollingHolds'
                  \/ ~ HandlerHolds /\ self'.lock = 0 /\ ~ PollingHolds'
  <2>1. TypeInv'
    BY <1>2 DEF TypeInv
  <2>2. HandlerHolds' <=> HandlerHolds
    BY DEF HandlerHolds
  <2>3. HeldInv'
    BY <1>2, <2>2 DEF HeldInv, HeldByPolling
  <2> QED
    BY <2>1, <2>3
<1> USE DEF PollGoto, PollPoints, Quiet
<1>3. CASE ProfileStart
  <2>1. profiles' \in 0 .. MaxProfiles
    BY <1>1, <1>3, WallAssumption DEF ProfileStart
  <2> QED
    BY <1>1, <1>3, <2>1 DEF ProfileStart, PollingHolds, buildVars
<1>4. CASE ClearTraces
  <2>1. self' \in Selves /\ self'.in_handler = self.in_handler /\ self'.lock = self.lock
    <3>1. self.dict + 1 \in Nat /\ self' = [self EXCEPT !.traces = NoTraces, !.dict = @ + 1]
      BY <1>1, <1>4 DEF ClearTraces, Selves
    <3>2. \A n \in Nat : [self EXCEPT !.traces = NoTraces, !.dict = n] \in Selves
      BY <1>1, EmptyDict DEF Selves
    <3> QED
      BY <1>1, <3>1, <3>2 DEF Selves
  <2> QED
    BY <1>1, <1>4, <2>1 DEF ClearTraces, PollingHolds, loopVars, buildVars
<1>5. CASE ClearTime
  <2>1. self' \in Selves /\ self'.in_handler = self.in_handler /\ self'.lock = self.lock
    BY <1>1, <1>5 DEF ClearTime, Selves
  <2> QED
    BY <1>1, <1>5, <2>1 DEF ClearTime, PollingHolds, loopVars, buildVars
<1>6. CASE ClearCount
  <2>1. self' \in Selves /\ self'.in_handler = self.in_handler /\ self'.lock = self.lock
    BY <1>1, <1>6 DEF ClearCount, Selves
  <2>2. target' \in Nat
    BY <1>1, <1>6, WallAssumption DEF ClearCount
  <2> QED
    BY <1>1, <1>6, <2>1, <2>2 DEF ClearCount, PollingHolds, buildVars
<1>7. CASE SetStarted \/ ClearStarted
  <2>1. self' \in Selves /\ self'.in_handler = self.in_handler /\ self'.lock = self.lock
    BY <1>1, <1>7 DEF SetStarted, ClearStarted, Selves
  <2> QED
    BY <1>1, <1>7, <2>1 DEF SetStarted, ClearStarted, PollingHolds, loopVars, buildVars
<1>8. CASE Arm \/ Disarm
  BY <1>1, <1>8 DEF Arm, Disarm, PollingHolds, loopVars, buildVars
<1>9. CASE WakeUp
  <2>1. /\ self' \in Selves /\ self'.in_handler = self.in_handler
        /\ self'.lock = HeldByPolling
    BY <1>1, <1>9 DEF WakeUp, Selves
  <2>2. ~ HandlerHolds
    BY <1>9 DEF WakeUp, HeldInv
  <2> QED
    BY <1>1, <1>9, <2>1, <2>2 DEF WakeUp, PollingHolds, loopVars, buildVars
<1>10. CASE Pause \/ Rearm
  BY <1>1, <1>10 DEF Pause, Rearm, PollingHolds, loopVars, buildVars
<1>11. CASE Forget
  <2>1. self' \in Selves /\ self'.in_handler = self.in_handler /\ self'.lock = 0
    BY <1>1, <1>11 DEF Forget, Selves
  <2>2. ~ HandlerHolds
    BY <1>11 DEF Forget, HeldInv, PollingHolds, HeldByPolling
  <2> QED
    BY <1>1, <1>11, <2>1, <2>2 DEF Forget, PollingHolds, loopVars, buildVars
<1>12. CASE Wait
  BY <1>1, <1>12 DEF Wait, PollingHolds, loopVars, buildVars
<1>13. CASE AddUnknown
  <2> DEFINE unknown == Duration - self.trace_count
             filled  == IF unknown > 0 THEN With(self.traces, UnknownStack, unknown)
                                       ELSE self.traces
  <2>1. self.traces \in Dicts
    BY <1>1 DEF Selves
  <2>2. unknown \in Int
    BY <1>1, WallAssumption DEF Selves
  <2>3. /\ self' = [self EXCEPT !.traces = filled] /\ size' = Cardinality(DOMAIN filled)
        /\ UNCHANGED <<armed, recorded, loopVars>> /\ ppc = "unknown" /\ ppc' = "iterate"
    BY <1>13 DEF AddUnknown
  <2> HIDE DEF unknown
  <2>4. filled \in Dicts
    <3>1. CASE unknown > 0
      <4>1. unknown \in Nat /\ UnknownStack \in Stacks \cup {UnknownStack}
        BY <2>2, <3>1
      <4>2. With(self.traces, UnknownStack, unknown) \in Dicts
        BY <2>1, <4>1, WithEntry
      <4> QED
        BY <3>1, <4>2
    <3>2. CASE ~ (unknown > 0)
      BY <2>1, <3>2
    <3> QED
      BY <3>1, <3>2
  <2> HIDE DEF filled
  <2>5. size' \in Nat
    BY <2>3, <2>4, DictOf, FS_CardinalityType
  <2>6. self' \in Selves /\ self'.in_handler = self.in_handler /\ self'.lock = self.lock
    BY <1>1, <2>3, <2>4 DEF Selves
  <2> QED
    BY <1>1, <2>3, <2>5, <2>6 DEF PollingHolds, loopVars
<1>14. CASE Iterate
  <2>1. /\ ppc = "iterate" /\ ppc' \in {"idle", "iterate", "clear_traces"}
        /\ closing' \in {closing, TRUE}
        /\ UNCHANGED <<armed, self, recorded, target, size, profiles>>
    BY <1>14 DEF Iterate
  <2>2. closing' \in BOOLEAN
    BY <1>1, <2>1
  <2> QED
    BY <1>1, <2>1, <2>2 DEF PollingHolds
<1>15. CASE ProfileReturn
  BY <1>1, <1>15 DEF ProfileReturn, PollingHolds
<1> QED
  BY <1>3, <1>4, <1>5, <1>6, <1>7, <1>8, <1>9, <1>10, <1>11, <1>12, <1>13, <1>14,
     <1>15 DEF PollStep

TypedInv == WallInv /\ TypeInv /\ HeldInv

LEMMA NextTyped == TypedInv /\ [Next]_wallVars => TypedInv'
<1> SUFFICES ASSUME TypedInv, [Next]_wallVars PROVE TypedInv'
  OBVIOUS
<1>1. WallInv'
  BY NextWall DEF TypedInv
<1>2. CASE UNCHANGED wallVars
  <2>1. TypeInv'
    BY <1>2 DEF TypedInv, TypeInv, wallVars, systemVars, mainVars, pollVars, loopVars, buildVars
  <2>2. HeldInv'
    BY <1>2 DEF TypedInv, HeldInv, HandlerHolds, PollingHolds, wallVars, mainVars, pollVars
  <2> QED
    BY <1>1, <2>1, <2>2 DEF TypedInv
<1>3. CASE Tick
  <2>1. TypeInv'
    BY <1>3 DEF Tick, TypedInv, TypeInv, mainVars, pollVars, loopVars, buildVars
  <2>2. HeldInv'
    BY <1>3 DEF Tick, TypedInv, HeldInv, HandlerHolds, PollingHolds, mainVars, pollVars
  <2> QED
    BY <1>1, <2>1, <2>2 DEF TypedInv
<1>4. CASE \E t \in Stacks : CallHandler(t)
  BY <1>1, <1>4, CallingTypes DEF TypedInv
<1>5. CASE HandlerStep
  BY <1>1, <1>5, HandlerTypes, HandlerHeld DEF TypedInv
<1>6. CASE PollStep \/ (ProfileStart /\ UNCHANGED <<clock, tripped, stack, raised>>)
  BY <1>1, <1>6, PollingTypes DEF TypedInv, PollStep
<1> QED
  BY <1>2, <1>3, <1>4, <1>5, <1>6 DEF Next

LEMMA TypedAlways == Spec => []TypedInv
<1>1. Init => TypedInv
  BY InitWall, InitTypes DEF TypedInv
<1> QED
  BY <1>1, NextTyped, PTL DEF Spec

(***************************************************************************)
(* Type correctness, wherever the interpreter switches: what the handler   *)
(* and the polling thread leave in one another's attributes is always of   *)
(* the type the other reads, though _last_sample_time may be None          *)
(* (pythonprofiler.py:118-146, 162-213), and the lock is never taken twice *)
(* by the main thread.                                                     *)
(***************************************************************************)
THEOREM WallTypeCorrect == Spec => []TypeOK
<1>1. ASSUME TypedInv PROVE TypeOK
  <2>1. self \in Selves /\ stack \in Seq(Handlers)
    BY <1>1 DEF TypedInv, TypeInv
  <2>2. DOMAIN self.traces \subseteq Stacks \cup {UnknownStack}
    BY <2>1, DictOf DEF Selves
  <2>3. self.last_sample_time \in Nat \cup {None} /\ self.trace_count \in Nat
    BY <2>1 DEF Selves
  <2>4. self.lock \in HeldByPolling .. MaxNesting
    BY <1>1, <2>1, WallAssumption DEF Selves, TypedInv, HeldInv, HeldByPolling
  <2>5. \A i \in 1 .. Len(stack) : stack[i].pc \in HandlerPoints
    <3>1. \A i \in 1 .. Len(stack) : stack[i] \in Handlers
      BY <2>1
    <3> QED
      BY <3>1 DEF Handlers
  <2> QED
    BY <1>1, <2>2, <2>3, <2>4, <2>5 DEF TypedInv, TypeInv, TypeOK
<1> QED
  BY <1>1, TypedAlways, PTL

-----------------------------------------------------------------------------
(***************************************************************************)
(* The time of the last sample.  Each handler that runs or is due may add a*)
(* tick to it that the clock has not reached; none may add two.            *)
(***************************************************************************)

AfterStore == {"unlock", "get", "put", "count", "add", "exit"}

\* The handlers, running or due, that may yet add a tick to _last_sample_time.
Stored == \E i \in 1 .. Len(stack) : stack[i].pc \in AfterStore
Due    == Len(stack) + (IF tripped THEN 1 ELSE 0) - (IF Stored THEN 1 ELSE 0)

\* What handler h knows of the time.
Timely(h) ==
  /\ h.now <= clock
  /\ h.pc \in {"advance", "store"} =>
       /\ self.last_sample_time # None
       /\ h.ticks = 1 \/ self.last_sample_time + h.ticks <= clock
  /\ h.pc = "store" => h.value = self.last_sample_time + h.ticks

DriftInv ==
  /\ self.last_sample_time # None => self.last_sample_time + Due <= clock + MaxNesting
  /\ \A i \in 1 .. Len(stack) : Timely(stack[i])

ClockInv == StopInv /\ TypedInv /\ DriftInv

DueBound == Due \in Int /\ Due >= 0 /\ Due <= MaxNesting + 1 /\ (Stored => Due <= MaxNesting)

LEMMA DueType == TypeInv => DueBound
<1> SUFFICES ASSUME TypeInv PROVE DueBound
  OBVIOUS
<1>1. Len(stack) \in Nat /\ Len(stack) <= MaxNesting /\ MaxNesting \in Nat
  BY WallAssumption DEF TypeInv
<1>2. ASSUME NEW i \in 1 .. Len(stack) PROVE Len(stack) >= 1
  BY <1>1
<1> QED
  BY <1>1, <1>2 DEF DueBound, Due, Stored

(***************************************************************************)
(* The innermost handler goes on, alone past the test of the flag.         *)
(***************************************************************************)
LEMMA DueGoesOn ==
  ASSUME StopInv, stack # <<>>, me.pc # "check", NEW h, "pc" \in DOMAIN h, Become(h),
         tripped' = tripped
  PROVE  /\ Len(stack) \in Nat /\ Len(stack) >= 1
         /\ Due = Len(stack) + (IF tripped THEN 1 ELSE 0) - (IF me.pc \in AfterStore THEN 1 ELSE 0)
         /\ Due' = Len(stack) + (IF tripped THEN 1 ELSE 0) - (IF h.pc \in AfterStore THEN 1 ELSE 0)
<1>1. /\ Len(stack) \in Nat /\ Len(stack) >= 1 /\ me = stack[1]
      /\ \A i \in 2 .. Len(stack) : stack[i].pc = "check"
  BY Alone
<1>2. /\ Len(stack') = Len(stack) /\ stack'[1] = h
      /\ \A i \in 2 .. Len(stack) : stack'[i] = stack[i]
  BY <1>1, Became DEF StopInv, WallInv
<1>3. \A i \in 1 .. Len(stack) : i = 1 \/ i \in 2 .. Len(stack)
  BY <1>1
<1>4. 1 \in 1 .. Len(stack) /\ "check" \notin AfterStore
  BY <1>1 DEF AfterStore
<1>5. (Stored <=> me.pc \in AfterStore) /\ (Stored' <=> h.pc \in AfterStore)
  BY <1>1, <1>2, <1>3, <1>4 DEF Stored
<1> QED
  BY <1>1, <1>2, <1>5 DEF Due

LEMMA TimelyGoesOn ==
  ASSUME ClockInv, stack # <<>>, NEW h, "pc" \in DOMAIN h, Become(h), Timely(h)',
         me.pc # "check" \/ self' = self, clock' = clock
  PROVE  \A i \in 1 .. Len(stack') : Timely(stack[i])'
<1>1. /\ Len(stack) \in Nat /\ Len(stack) >= 1 /\ me = stack[1]
      /\ Len(stack') = Len(stack) /\ stack'[1] = h
      /\ \A i \in 2 .. Len(stack) : stack'[i] = stack[i]
  BY Became DEF ClockInv, StopInv, WallInv
<1> TAKE i \in 1 .. Len(stack')
<1>2. CASE i = 1
  BY <1>1, <1>2 DEF Timely
<1>3. CASE i # 1
  <2>1. i \in 2 .. Len(stack) /\ i \in 1 .. Len(stack) /\ stack'[i] = stack[i]
    BY <1>1, <1>3
  <2>2. Timely(stack[i])
    BY <2>1 DEF ClockInv, DriftInv
  <2>3. CASE me.pc # "check"
    <3>1. stack[i].pc = "check"
      BY <2>1, <2>3, Alone DEF ClockInv
    <3> QED
      BY <2>1, <2>2, <3>1 DEF Timely
  <2>4. CASE self' = self
    BY <2>1, <2>2, <2>4 DEF Timely
  <2> QED
    BY <2>3, <2>4
<1> QED
  BY <1>2, <1>3

LEMMA HandlerDrift == ASSUME ClockInv, TypedInv', HandlerStep PROVE DriftInv'
<1>1. stack # <<>> /\ clock' = clock /\ tripped' = tripped
  BY DEF HandlerStep, HandlerCheck, HandlerSet, HandlerLock, HandlerTest, HandlerDiff,
         HandlerAdvance, HandlerStore, HandlerUnlock, HandlerGet, HandlerPut, HandlerCount,
         HandlerAdd, HandlerExit, At, systemVars
<1>2. /\ Len(stack) \in Nat /\ Len(stack) >= 1 /\ me = stack[1] /\ me \in Handlers
      /\ self \in Selves /\ clock \in Nat /\ MaxNesting \in Nat /\ "pc" \in DOMAIN me
  BY <1>1, Innermost, WallAssumption DEF ClockInv, TypedInv, TypeInv, Handlers
<1>3. Timely(me) /\ me.now \in Nat /\ me.ticks \in Nat /\ me.value \in Nat
  BY <1>2 DEF ClockInv, DriftInv, Handlers
<1>4. /\ Due \in Int /\ Due' \in Int /\ Due' <= MaxNesting + 1
      /\ Stored' => Due' <= MaxNesting
  <2>1. TypeInv' => DueBound'
    BY DueType, PTL
  <2> QED
    BY <2>1, DueType DEF ClockInv, TypedInv, DueBound
<1>5. self.last_sample_time \in Nat \cup {None} /\ self'.last_sample_time \in Nat \cup {None}
  BY DEF ClockInv, TypedInv, TypeInv, Selves
<1>6. CASE HandlerCheck /\ ReturnFromHandler
  <2>1. self' = self /\ me.pc = "check"
    BY <1>6 DEF HandlerCheck, At
  <2>2. /\ Len(stack') = Len(stack) - 1
        /\ \A i \in 1 .. Len(stack') : stack'[i] = stack[i + 1]
    BY <1>1, <1>6, Returned DEF ClockInv, StopInv, WallInv
  <2>3. \A i \in 1 .. Len(stack') : i + 1 \in 1 .. Len(stack)
    BY <1>2, <2>2
  <2>4. \A i \in 1 .. Len(stack) : i = 1 \/ (i - 1 \in 1 .. Len(stack') /\ (i - 1) + 1 = i)
    BY <1>2, <2>2
  <2>5. Stored' <=> Stored
    BY <1>2, <2>1, <2>2, <2>3, <2>4 DEF Stored, AfterStore
  <2>6. Due' = Due - 1
    <3>1. CASE Stored
      <4>1. Stored'
        BY <2>5, <3>1
      <4> QED
        BY <1>1, <1>2, <2>2, <3>1, <4>1 DEF Due
    <3>2. CASE ~ Stored
      <4>1. ~ Stored'
        BY <2>5, <3>2
      <4> QED
        BY <1>1, <1>2, <2>2, <3>2, <4>1 DEF Due
    <3> QED
      BY <3>1, <3>2
  <2>7. \A i \in 1 .. Len(stack') : Timely(stack[i])'
    BY <1>1, <2>1, <2>2, <2>3 DEF ClockInv, DriftInv, Timely
  <2> QED
    BY <1>1, <1>2, <1>4, <1>5, <2>1, <2>6, <2>7 DEF ClockInv, DriftInv
<1>7. CASE HandlerCheck /\ GotoPoint("set")
  <2>0. PICK h : h = [me EXCEPT !.pc = "set"]
    OBVIOUS
  <2>1. self' = self /\ me.pc = "check" /\ Become(h)
    BY <1>7, <2>0 DEF HandlerCheck, At, GotoPoint
  <2>2. "pc" \in DOMAIN h /\ h.pc = "set" /\ h.now = me.now
    BY <2>0, <1>2 DEF Handlers
  <2>3. /\ Len(stack') = Len(stack) /\ stack'[1] = h
        /\ \A i \in 2 .. Len(stack) : stack'[i] = stack[i]
    BY <1>1, <2>1, <2>2, Became DEF ClockInv, StopInv, WallInv
  <2>4. \A i \in 1 .. Len(stack) : i = 1 \/ i \in 2 .. Len(stack)
    BY <1>2
  <2>5. Stored' <=> Stored
    BY <1>2, <2>1, <2>2, <2>3, <2>4 DEF Stored, AfterStore
  <2>6. Due' = Due
    BY <1>1, <1>2, <2>3, <2>5 DEF Due
  <2>7. Timely(h)'
    BY <1>1, <1>3, <2>2 DEF Timely
  <2>8. \A i \in 1 .. Len(stack') : Timely(stack[i])'
    BY <1>1, <2>1, <2>2, <2>7, TimelyGoesOn
  <2> QED
    BY <1>1, <2>1, <2>6, <2>8 DEF ClockInv, DriftInv
<1>8. CASE HandlerExit
  <2>1. me.pc = "exit" /\ ReturnFromHandler /\ self'.last_sample_time = self.last_sample_time
    BY <1>2, <1>8 DEF HandlerExit, At, Selves
  <2>2. \A i \in 2 .. Len(stack) : stack[i].pc = "check"
    BY <1>1, <2>1, Alone DEF ClockInv
  <2>3. /\ Len(stack') = Len(stack) - 1
        /\ \A i \in 1 .. Len(stack') : stack'[i] = stack[i + 1]
    BY <1>1, <2>1, Returned DEF ClockInv, StopInv, WallInv
  <2>4. \A i \in 1 .. Len(stack') : i + 1 \in 1 .. Len(stack) /\ i + 1 \in 2 .. Len(stack)
    BY <1>2, <2>3
  <2>5. 1 \in 1 .. Len(stack) /\ me.pc \in AfterStore /\ "check" \notin AfterStore
    BY <1>2, <2>1 DEF AfterStore
  <2>6. Stored /\ ~ Stored'
    BY <1>2, <2>2, <2>3, <2>4, <2>5 DEF Stored
  <2>7. Due' = Due
    BY <1>1, <1>2, <2>3, <2>6 DEF Due
  <2>8. \A i \in 1 .. Len(stack') : Timely(stack[i])'
    BY <1>1, <2>2, <2>3, <2>4 DEF ClockInv, DriftInv, Timely
  <2> QED
    BY <1>1, <2>1, <2>7, <2>8 DEF ClockInv, DriftInv
<1>9. ASSUME me.pc # "check", NEW h, "pc" \in DOMAIN h, Become(h), Timely(h)',
             \/ /\ self'.last_sample_time = self.last_sample_time
                /\ me.pc \in AfterStore => h.pc \in AfterStore
             \/ h.pc \in AfterStore /\ self'.last_sample_time <= clock
             \/ /\ self.last_sample_time # None
                /\ self'.last_sample_time = self.last_sample_time + 1
                /\ me.pc \notin AfterStore /\ h.pc \in AfterStore
      PROVE  DriftInv'
  <2>1. \A i \in 1 .. Len(stack') : Timely(stack[i])'
    BY <1>1, <1>9, TimelyGoesOn
  <2>2. /\ Due = Len(stack) + (IF tripped THEN 1 ELSE 0) - (IF me.pc \in AfterStore THEN 1 ELSE 0)
        /\ Due' = Len(stack) + (IF tripped THEN 1 ELSE 0) - (IF h.pc \in AfterStore THEN 1 ELSE 0)
    BY <1>1, <1>9, DueGoesOn DEF ClockInv
  <2>3. h.pc \in AfterStore => Due' <= MaxNesting
    <3>1. stack'[1] = h /\ Len(stack') = Len(stack)
      BY <1>1, <1>9, Became DEF ClockInv, StopInv, WallInv
    <3>2. 1 \in 1 .. Len(stack')
      BY <1>2, <3>1
    <3> QED
      BY <1>4, <1>9, <3>1, <3>2 DEF Stored
  <2>4. self.last_sample_time # None => self.last_sample_time + Due <= clock + MaxNesting
    BY DEF ClockInv, DriftInv
  <2>5. self'.last_sample_time # None => self'.last_sample_time + Due' <= clock + MaxNesting
    <3> DEFINE t == self.last_sample_time
               u == self'.last_sample_time
    <3> SUFFICES ASSUME u # None PROVE u + Due' <= clock + MaxNesting
      OBVIOUS
    <3>1. u \in Nat
      BY <1>5
    <3>2. CASE u = t /\ (me.pc \in AfterStore => h.pc \in AfterStore)
      <4>1. Due' <= Due
        BY <1>2, <2>2, <3>2
      <4> QED
        BY <1>2, <1>4, <2>4, <3>1, <3>2, <4>1
    <3>3. CASE h.pc \in AfterStore /\ u <= clock
      BY <1>2, <1>4, <2>3, <3>1, <3>3
    <3>4. CASE t # None /\ u = t + 1 /\ me.pc \notin AfterStore /\ h.pc \in AfterStore
      <4>1. t \in Nat /\ Due' = Due - 1
        BY <1>2, <1>5, <2>2, <3>4
      <4> QED
        BY <1>2, <1>4, <2>4, <3>1, <3>4, <4>1
    <3> QED
      BY <1>9, <3>2, <3>3, <3>4
  <2> QED
    BY <1>1, <2>1, <2>5 DEF DriftInv
<1>10. CASE HandlerSet \/ HandlerUnlock \/ HandlerAdd
  <2>1. PICK p \in {"lock", "get", "exit"} :
          GotoPoint(p) /\ self'.last_sample_time = self.last_sample_time
          /\ me.pc # "check" /\ (me.pc \in AfterStore => p \in AfterStore)
    BY <1>2, <1>10 DEF HandlerSet, HandlerUnlock, HandlerAdd, At, AfterStore, Selves
  <2>0. PICK h : h = [me EXCEPT !.pc = p]
    OBVIOUS
  <2>2. h.pc = p /\ h.now = me.now /\ "pc" \in DOMAIN h /\ Become(h)
    BY <2>0, <1>2, <2>1 DEF Handlers, GotoPoint
  <2>3. Timely(h)'
    BY <1>1, <1>3, <2>1, <2>2 DEF Timely
  <2> QED
    BY <1>9, <2>1, <2>2, <2>3
<1>11. CASE HandlerGet \/ HandlerPut \/ HandlerCount
  <2>1. PICK h : /\ h.pc \in AfterStore /\ h.now = me.now /\ "pc" \in DOMAIN h /\ Become(h)
                 /\ me.pc # "check" /\ self'.last_sample_time = self.last_sample_time
    <3>1. /\ me.pc # "check"
          /\ \/ \E d, n : Become([me EXCEPT !.pc = "put", !.dict = d, !.value = n])
             \/ Become([me EXCEPT !.pc = "count", !.dict = 0, !.value = 0])
             \/ \E n : Become([me EXCEPT !.pc = "add", !.value = n])
      BY <1>11 DEF HandlerGet, HandlerPut, HandlerCount, At
    <3>2. self'.last_sample_time = self.last_sample_time
      BY <1>2, <1>11 DEF HandlerGet, HandlerPut, HandlerCount, Selves
    <3> QED
      BY <1>2, <3>1, <3>2 DEF Handlers, AfterStore
  <2>2. Timely(h)'
    BY <1>1, <1>3, <2>1 DEF Timely, AfterStore
  <2> QED
    BY <1>9, <2>1, <2>2
<1>12. CASE HandlerLock
  <2>0. PICK h : h = [me EXCEPT !.pc = "test", !.now = clock]
    OBVIOUS
  <2>1. /\ Become(h) /\ h.pc = "test" /\ h.now = clock /\ "pc" \in DOMAIN h /\ me.pc = "lock"
        /\ self'.last_sample_time = self.last_sample_time
    BY <2>0, <1>2, <1>12 DEF HandlerLock, At, Handlers, Selves
  <2>2. Timely(h)'
    BY <1>1, <1>2, <2>1 DEF Timely
  <2> QED
    BY <1>9, <2>1, <2>2 DEF AfterStore
<1>13. CASE HandlerTest
  <2>1. me.pc = "test"
    BY <1>13 DEF HandlerTest, At
  <2>2. CASE self.last_sample_time = None
    <3>0. PICK h : h = [me EXCEPT !.pc = "unlock", !.now = 0]
      OBVIOUS
    <3>1. /\ Become(h) /\ h.pc = "unlock" /\ h.now = 0 /\ "pc" \in DOMAIN h
          /\ self'.last_sample_time = me.now
      BY <3>0, <1>2, <1>13, <2>2 DEF HandlerTest, Handlers, Selves
    <3>2. Timely(h)'
      BY <1>1, <1>2, <3>1 DEF Timely
    <3>3. h.pc \in AfterStore /\ self'.last_sample_time <= clock
      BY <1>3, <3>1 DEF Timely, AfterStore
    <3> QED
      BY <1>9, <2>1, <3>1, <3>2, <3>3
  <2>3. CASE self.last_sample_time # None
    <3>0. PICK h : h = [me EXCEPT !.pc = "diff"]
      OBVIOUS
    <3>1. Become(h) /\ h.pc = "diff" /\ h.now = me.now /\ "pc" \in DOMAIN h /\ self' = self
      BY <3>0, <1>2, <1>13, <2>3 DEF HandlerTest, Handlers, GotoPoint
    <3>2. Timely(h)'
      BY <1>1, <1>3, <3>1 DEF Timely
    <3> QED
      BY <1>9, <2>1, <3>1, <3>2 DEF AfterStore
  <2> QED
    BY <2>2, <2>3
<1>14. CASE HandlerDiff
  <2>1. me.pc = "diff" /\ self' = self
    BY <1>14 DEF HandlerDiff, At
  <2>2. self.last_sample_time # None
    BY <1>2, <2>1 DEF ClockInv, StopInv, TimeInv
  <2> DEFINE late == me.now - self.last_sample_time
  <2>3. self.last_sample_time \in Nat /\ late \in Int /\ self.last_sample_time + late = me.now
    BY <1>3, <1>5, <2>2
  <2>4. PICK n : n = Max({1, late})
    OBVIOUS
  <2>5. PICK h : h = [me EXCEPT !.pc = "advance", !.now = 0, !.ticks = n]
    OBVIOUS
  <2>6. /\ Become(h) /\ h.pc = "advance" /\ h.now = 0 /\ h.ticks = n /\ "pc" \in DOMAIN h
    BY <1>2, <1>14, <2>2, <2>4, <2>5 DEF HandlerDiff, Handlers
  <2> HIDE DEF late
  <2>7. n = 1 \/ n = late
    BY <2>3, <2>4, MaxOfTwo
  <2>8. n = 1 \/ self.last_sample_time + n <= clock
    BY <1>2, <1>3, <2>3, <2>7 DEF Timely
  <2>9. Timely(h)'
    BY <1>1, <1>2, <2>1, <2>2, <2>6, <2>8 DEF Timely
  <2> QED
    BY <1>9, <2>1, <2>6, <2>9 DEF AfterStore
<1>15. CASE HandlerAdvance
  <2>1. me.pc = "advance" /\ self' = self
    BY <1>15 DEF HandlerAdvance, At
  <2>2. self.last_sample_time # None
    BY <1>2, <2>1 DEF ClockInv, StopInv, TimeInv
  <2>0. PICK h : h = [me EXCEPT !.pc = "store", !.value = self.last_sample_time + me.ticks]
    OBVIOUS
  <2>3. /\ Become(h) /\ h.pc = "store" /\ h.now = me.now /\ h.ticks = me.ticks
        /\ h.value = self.last_sample_time + me.ticks /\ "pc" \in DOMAIN h
    BY <2>0, <1>2, <1>15, <2>2 DEF HandlerAdvance, Handlers
  <2>4. Timely(h)'
    BY <1>1, <1>3, <2>1, <2>3 DEF Timely
  <2> QED
    BY <1>9, <2>1, <2>3, <2>4 DEF AfterStore
<1>16. CASE HandlerStore
  <2>0. PICK h : h = [me EXCEPT !.pc = "unlock", !.value = 0]
    OBVIOUS
  <2>1. /\ Become(h) /\ h.pc = "unlock" /\ h.now = me.now /\ "pc" \in DOMAIN h
        /\ me.pc = "store" /\ self'.last_sample_time = me.value
    BY <2>0, <1>2, <1>16 DEF HandlerStore, At, Handlers, Selves
  <2>2. Timely(h)'
    BY <1>1, <1>3, <2>1 DEF Timely
  <2>3. /\ self.last_sample_time # None /\ me.value = self.last_sample_time + me.ticks
        /\ me.ticks = 1 \/ self.last_sample_time + me.ticks <= clock
    BY <1>3, <2>1 DEF Timely
  <2> QED
    BY <1>9, <2>1, <2>2, <2>3 DEF AfterStore
<1> QED
  BY <1>6, <1>7, <1>8, <1>10, <1>11, <1>12, <1>13, <1>14, <1>15, <1>16
     DEF HandlerStep, HandlerCheck

LEMMA CallingDrift ==
  ASSUME ClockInv, TypedInv', NEW t \in Stacks, CallHandler(t) PROVE DriftInv'
<1>1. PICK h : h = [pc |-> "check", trace |-> t, now |-> 0, ticks |-> 1, value |-> 0, dict |-> 0]
  OBVIOUS
<1>2. /\ stack' = <<h>> \o stack /\ tripped /\ ~ tripped' /\ self' = self /\ clock' = clock
      /\ h.pc = "check" /\ h.now = 0 /\ "pc" \in DOMAIN h
  BY <1>1 DEF CallHandler
<1>3. /\ Len(stack') = Len(stack) + 1 /\ stack'[1] = h /\ Len(stack) \in Nat
      /\ \A i \in 2 .. Len(stack') : stack'[i] = stack[i - 1]
  BY <1>2, Pushed DEF ClockInv, StopInv, WallInv
<1>4. \A i \in 1 .. Len(stack') : i = 1 \/ (i \in 2 .. Len(stack') /\ i - 1 \in 1 .. Len(stack))
  BY <1>3
<1>5. \A i \in 1 .. Len(stack) : /\ i + 1 \in 2 .. Len(stack') /\ (i + 1) - 1 = i
                                 /\ i + 1 \in 1 .. Len(stack')
  BY <1>3
<1>6. Stored' <=> Stored
  BY <1>2, <1>3, <1>4, <1>5 DEF Stored, AfterStore
<1>7. Due' = Due
  <2>1. CASE Stored
    BY <1>2, <1>3, <1>6, <2>1 DEF Due
  <2>2. CASE ~ Stored
    BY <1>2, <1>3, <1>6, <2>2 DEF Due
  <2> QED
    BY <2>1, <2>2
<1>8. ASSUME NEW i \in 1 .. Len(stack') PROVE Timely(stack[i])'
  <2>1. CASE i = 1
    <3>1. clock \in Nat
      BY DEF ClockInv, TypedInv, TypeInv
    <3> QED
      BY <1>2, <1>3, <2>1, <3>1 DEF Timely
  <2>2. CASE i # 1
    <3>1. i \in 2 .. Len(stack') /\ i - 1 \in 1 .. Len(stack) /\ stack'[i] = stack[i - 1]
      BY <1>3, <1>4, <2>2
    <3>2. Timely(stack[i - 1])
      BY <3>1 DEF ClockInv, DriftInv
    <3> QED
      BY <1>2, <3>1, <3>2 DEF Timely
  <2> QED
    BY <2>1, <2>2
<1> QED
  BY <1>2, <1>7, <1>8 DEF ClockInv, DriftInv

(***************************************************************************)
(* A period passes: one handler more may be due.                           *)
(***************************************************************************)
LEMMA TickDrift == ASSUME ClockInv, Tick PROVE DriftInv'
<1>1. clock' = clock + 1 /\ self' = self /\ stack' = stack /\ clock \in Nat
  BY DEF Tick, mainVars, ClockInv, TypedInv, TypeInv
<1>2. Stored' <=> Stored
  BY <1>1 DEF Stored
<1>3. /\ Len(stack) \in Nat /\ MaxNesting \in Nat
      /\ self.last_sample_time \in Nat \cup {None}
  BY WallAssumption DEF ClockInv, TypedInv, TypeInv, Selves
<1>4. Due \in Int /\ Due' \in Int /\ Due' <= Due + 1
  <2>1. CASE Stored
    <3>1. Stored'
      BY <1>2, <2>1
    <3> QED
      BY <1>1, <1>3, <2>1, <3>1 DEF Due
  <2>2. CASE ~ Stored
    <3>1. ~ Stored'
      BY <1>2, <2>2
    <3> QED
      BY <1>1, <1>3, <2>2, <3>1 DEF Due
  <2> QED
    BY <2>1, <2>2
<1>5. self'.last_sample_time # None => self'.last_sample_time + Due' <= clock' + MaxNesting
  BY <1>1, <1>3, <1>4 DEF ClockInv, DriftInv
<1>6. ASSUME NEW i \in 1 .. Len(stack') PROVE Timely(stack[i])'
  <2>1. i \in 1 .. Len(stack) /\ stack'[i] = stack[i] /\ Timely(stack[i]) /\ stack[i] \in Handlers
    BY <1>1 DEF ClockInv, TypedInv, TypeInv, DriftInv
  <2>2. stack[i].now \in Nat /\ stack[i].ticks \in Nat
    BY <2>1 DEF Handlers
  <2> QED
    BY <1>1, <1>3, <2>1, <2>2 DEF Timely
<1> QED
  BY <1>5, <1>6 DEF DriftInv

(***************************************************************************)
(* The polling thread only clears _last_sample_time, under the lock or     *)
(* when no handler is past its test of the flag.                           *)
(***************************************************************************)
LEMMA PollingDrift ==
  ASSUME ClockInv, PollStep \/ ProfileStart, UNCHANGED <<clock, tripped, stack, raised>>
  PROVE  DriftInv'
<1>1. self \in Selves
  BY DEF ClockInv, TypedInv, TypeInv
<1>2. Due' = Due
  BY DEF Due, Stored
<1>3. CASE Forget \/ ClearTime
  <2>1. self'.last_sample_time = None
    BY <1>1, <1>3 DEF Forget, ClearTime, Selves
  <2>2. \A i \in 1 .. Len(stack) : stack[i].pc \notin {"advance", "store"}
    BY <1>3 DEF Forget, ClearTime, PollGoto, ClockInv, StopInv, LockInv, QuietInv, Quiet,
                PollingHolds, HandlerHolds, LockPoints
  <2> QED
    BY <2>1, <2>2 DEF ClockInv, DriftInv, Timely
<1>4. CASE ~ (Forget \/ ClearTime)
  <2>1. self'.last_sample_time = self.last_sample_time
    BY <1>1, <1>4
       DEF Selves, PollStep, ProfileStart, ClearTraces, ClearCount, SetStarted, Arm, WakeUp,
           Pause, Rearm, Disarm, ClearStarted, Wait, AddUnknown, Iterate, ProfileReturn
  <2> QED
    BY <1>2, <2>1 DEF ClockInv, DriftInv, Timely
<1> QED
  BY <1>3, <1>4

LEMMA NextClock ==
  ASSUME "set" \notin SwitchPoints, ClockInv, [Next]_wallVars PROVE ClockInv'
<1>1. StopInv' /\ TypedInv'
  BY NextStop, NextTyped DEF ClockInv
<1>2. CASE UNCHANGED wallVars
  <2>1. UNCHANGED <<clock, tripped, self, stack>>
    BY <1>2 DEF wallVars, systemVars, mainVars
  <2>2. DriftInv'
    BY <2>1 DEF ClockInv, DriftInv, Timely, Due, Stored
  <2> QED
    BY <1>1, <2>2 DEF ClockInv
<1>3. CASE Tick
  BY <1>1, <1>3, TickDrift DEF ClockInv
<1>4. CASE \E t \in Stacks : CallHandler(t)
  BY <1>1, <1>4, CallingDrift DEF ClockInv
<1>5. CASE HandlerStep
  BY <1>1, <1>5, HandlerDrift DEF ClockInv
<1>6. CASE PollStep \/ (ProfileStart /\ UNCHANGED <<clock, tripped, stack, raised>>)
  BY <1>1, <1>6, PollingDrift DEF ClockInv, PollStep
<1> QED
  BY <1>2, <1>3, <1>4, <1>5, <1>6 DEF Next

LEMMA ClockAlways == ASSUME "set" \notin SwitchPoints PROVE Spec => []ClockInv
<1>1. ClockInv /\ [Next]_wallVars => ClockInv'
  BY NextClock
<1>2. Init => ClockInv
  <2> SUFFICES ASSUME Init PROVE ClockInv
    OBVIOUS
  <2>1. stack = <<>> /\ Len(stack) = 0 /\ self.last_sample_time = None
    BY DEF Init
  <2> QED
    BY <2>1, InitStop, InitWall, InitTypes DEF ClockInv, TypedInv, DriftInv
<1> QED
  BY <1>1, <1>2, PTL DEF Spec

(***************************************************************************)
(* Attributing missed ticks does not drift: _last_sample_time runs ahead   *)
(* of the clock by no more than the handlers that may run on top of one    *)
(* another, however long the profile and however late the handlers         *)
(* (pythonprofiler.py:131-144, 190-213).                                   *)
(***************************************************************************)
THEOREM NoDrift ==
  ASSUME "set" \notin SwitchPoints PROVE Spec => []SampleTimeDoesNotDrift
<1>1. ASSUME ClockInv PROVE SampleTimeDoesNotDrift
  <2> SUFFICES ASSUME self.last_sample_time # None
               PROVE  self.last_sample_time <= clock + MaxNesting
    BY DEF SampleTimeDoesNotDrift
  <2>1. self.last_sample_time + Due <= clock + MaxNesting
    BY <1>1 DEF ClockInv, DriftInv
  <2>2. /\ Len(stack) \in Nat /\ self.last_sample_time \in Nat /\ clock \in Nat
        /\ MaxNesting \in Nat
    BY <1>1, WallAssumption DEF ClockInv, TypedInv, TypeInv, Selves
  <2>3. Due \in Int /\ Due >= 0
    BY <1>1, DueType DEF ClockInv, TypedInv, DueBound
  <2> QED
    BY <2>1, <2>2, <2>3
<1> QED
  BY <1>1, ClockAlways, PTL

-----------------------------------------------------------------------------
(***************************************************************************)
(* The ticks: what a handler has attributed is in the traces and in the    *)
(* count of them once it is done, and in the profile that is built.        *)
(***************************************************************************)

Active == {"arm", "sleep", "pause", "rearm", "forget", "disarm", "stop", "wait", "unknown"}

\* A handler that has attributed its ticks has yet to add them to the traces; to
\* the count of them.
Unput     == {"advance", "store", "unlock", "get", "put"}
Uncounted == Unput \cup {"count", "add"}

\* What handler h relies on, and owes.
Owing(h) ==
  /\ h.pc \in {"check", "set", "lock", "test"} => h.ticks = 1
  /\ h.pc = "put" => /\ h.dict = self.dict /\ h.trace \in DOMAIN self.traces
                     /\ h.value = self.traces[h.trace]
  /\ h.pc = "add" => h.value = self.trace_count
  /\ h.pc \in Unput => recorded = Ticks(self.traces) + h.ticks
  /\ h.pc \in Uncounted => recorded = self.trace_count + h.ticks

\* Between handlers the traces and the count agree with what was attributed.
TalliedInv ==
  /\ \A i \in 1 .. Len(stack) : Owing(stack[i])
  /\ ppc \in Active =>
       /\ DOMAIN self.traces \subseteq Stacks
       /\ ~ Working(Unput) => recorded = Ticks(self.traces)
       /\ ~ Working(Uncounted) => recorded = self.trace_count

\* A profile starts from nothing, and its samples are those of the traces.
BuiltInv ==
  /\ ppc \in {"clear_time", "clear_count", "start"} => self.traces = NoTraces
  /\ ppc = "start" => self.trace_count = 0
  /\ ppc = "iterate" =>
       /\ Ticks(self.traces) = Max({Duration, recorded})
       /\ todo \subseteq DOMAIN self.traces
       /\ DOMAIN profile = DOMAIN self.traces \ todo
       /\ \A t \in DOMAIN profile : profile[t] = self.traces[t]
  /\ ppc = "return" \/ (closing /\ ppc \in {"clear_traces", "clear_time", "clear_count"})
       => Ticks(profile) = Max({Duration, recorded})

AccountInv == StopInv /\ TypedInv /\ TalliedInv /\ BuiltInv

-----------------------------------------------------------------------------
(***************************************************************************)
(* The ticks of a dict when one of its entries is set.                     *)
(***************************************************************************)
LEMMA TicksOf ==
  ASSUME NEW d \in Dicts
  PROVE  Sums(d, DOMAIN d) /\ Ticks(d) = SumFunctionOnSet(d, DOMAIN d) /\ Ticks(d) \in Int
<1>1. Sums(d, DOMAIN d)
  BY DictOf DEF Sums
<1>2. Ticks(d) = SumFunctionOnSet(d, DOMAIN d)
  BY DEF Ticks, SumFunction
<1> QED
  BY <1>1, <1>2, SumType

LEMMA TicksOfNone == Ticks(NoTraces) = 0
<1>1. Ticks(NoTraces) = SumFunctionOnSet(NoTraces, DOMAIN NoTraces)
  BY DEF Ticks, SumFunction
<1> QED
  BY <1>1, EmptyDict, SumEmpty

LEMMA TicksWith ==
  ASSUME NEW d \in Dicts, NEW k \in Stacks \cup {UnknownStack}, NEW n \in Nat
  PROVE  Ticks(With(d, k, n)) = Ticks(d) + n - (IF k \in DOMAIN d THEN d[k] ELSE 0)
<1> DEFINE e == With(d, k, n)
           D == DOMAIN d
<1>1. /\ e \in Dicts /\ DOMAIN e = D \cup {k} /\ e[k] = n
      /\ \A j \in D : j # k => e[j] = d[j]
  BY WithEntry
<1>2. /\ Sums(d, D) /\ Ticks(d) = SumFunctionOnSet(d, D) /\ Ticks(d) \in Int
      /\ Sums(e, DOMAIN e) /\ Ticks(e) = SumFunctionOnSet(e, DOMAIN e) /\ Ticks(e) \in Int
  BY <1>1, TicksOf
<1>3. \A j \in D : d[j] \in Nat
  BY DictOf
<1> HIDE DEF e, D
<1>4. CASE k \in D
  <2>1. DOMAIN e = D
    BY <1>1, <1>4
  <2>2. Sums(e, D) /\ \A j \in D \ {k} : e[j] = d[j]
    BY <1>1, <1>2, <2>1
  <2>3. SumFunctionOnSet(e, D) = SumFunctionOnSet(d, D) - d[k] + e[k]
    BY <1>2, <1>4, <2>2, SumUpdate
  <2> QED
    BY <1>1, <1>2, <1>3, <1>4, <2>1, <2>3 DEF e, D
<1>5. CASE k \notin D
  <2>1. Sums(e, D \cup {k})
    BY <1>1, <1>2
  <2>2. SumFunctionOnSet(e, D \cup {k}) = e[k] + SumFunctionOnSet(e, D)
    BY <1>5, <2>1, SumAdd
  <2>3. Sums(e, D) /\ \A j \in D : d[j] = e[j]
    BY <1>1, <1>2, <1>5, <2>1 DEF Sums
  <2>4. SumFunctionOnSet(d, D) = SumFunctionOnSet(e, D)
    BY <1>2, <2>3, SumMonotonic
  <2> QED
    BY <1>1, <1>2, <1>5, <2>2, <2>4 DEF e, D
<1> QED
  BY <1>4, <1>5

-----------------------------------------------------------------------------
(***************************************************************************)
(* While a handler is past its test the polling thread neither prepares a  *)
(* profile nor builds one.                                                 *)
(***************************************************************************)
LEMMA Sampling ==
  ASSUME StopInv, TypeInv, ppc \notin Quiet
  PROVE  ppc \in Active /\ ~ closing /\ ppc # "return"
BY DEF StopInv, QuietInv, TypeInv, PollPoints, Quiet, Active

\* The innermost handler goes on, alone past the test of the flag.
LEMMA TalliedGoesOn ==
  ASSUME AccountInv, stack # <<>>, me.pc # "check", NEW h, "pc" \in DOMAIN h, Become(h),
         UNCHANGED <<ppc, closing>>, Owing(h)', DOMAIN self'.traces \subseteq Stacks,
         h.pc \notin Unput => recorded' = Ticks(self'.traces),
         h.pc \notin Uncounted => recorded' = self'.trace_count
  PROVE  TalliedInv' /\ BuiltInv'
<1>1. /\ Len(stack) \in Nat /\ Len(stack) >= 1 /\ ppc \notin Quiet
      /\ \A i \in 2 .. Len(stack) : stack[i].pc = "check"
  BY Alone DEF AccountInv
<1>2. /\ Len(stack') = Len(stack) /\ stack'[1] = h
      /\ \A i \in 2 .. Len(stack) : stack'[i] = stack[i]
  BY Became DEF AccountInv, StopInv, WallInv
<1>3. BuiltInv'
  <2>1. ~ closing /\ ppc \notin {"clear_time", "clear_count", "start", "iterate", "return"}
    BY <1>1, Sampling DEF AccountInv, TypedInv, Quiet
  <2> QED
    BY <2>1 DEF BuiltInv
<1>4. ASSUME NEW i \in 1 .. Len(stack') PROVE Owing(stack[i])'
  <2>1. CASE i = 1
    BY <1>2, <2>1 DEF Owing
  <2>2. CASE i # 1
    <3>1. i \in 2 .. Len(stack) /\ i \in 1 .. Len(stack)
      BY <1>1, <1>2, <2>2
    <3>2. stack'[i] = stack[i] /\ stack[i].pc = "check" /\ Owing(stack[i])
      BY <1>1, <1>2, <3>1 DEF AccountInv, TalliedInv
    <3> QED
      BY <3>2 DEF Owing, Unput, Uncounted
  <2> QED
    BY <2>1, <2>2
<1>5. 1 \in 1 .. Len(stack')
  BY <1>1, <1>2
<1>6. (~ Working(Unput)') => h.pc \notin Unput
  BY <1>2, <1>5 DEF Working
<1>7. (~ Working(Uncounted)') => h.pc \notin Uncounted
  BY <1>2, <1>5 DEF Working
<1> QED
  BY <1>3, <1>4, <1>6, <1>7 DEF TalliedInv

\* A handler whose test of the flag fails, or that has cleared it, returns.
LEMMA TalliedReturns ==
  ASSUME AccountInv, stack # <<>>, ReturnFromHandler, me.pc \notin Uncounted,
         UNCHANGED <<ppc, closing, todo, profile, recorded>>,
         self'.traces = self.traces, self'.trace_count = self.trace_count,
         self'.dict = self.dict
  PROVE  TalliedInv' /\ BuiltInv'
<1>1. /\ Len(stack) \in Nat /\ Len(stack) >= 1 /\ me = stack[1]
      /\ Len(stack') = Len(stack) - 1
      /\ \A i \in 1 .. Len(stack') : stack'[i] = stack[i + 1]
  BY Returned DEF AccountInv, StopInv, WallInv
<1>2. \A i \in 1 .. Len(stack') : i + 1 \in 1 .. Len(stack)
  BY <1>1
<1>3. \A i \in 1 .. Len(stack) : i = 1 \/ (i - 1 \in 1 .. Len(stack') /\ (i - 1) + 1 = i)
  BY <1>1
<1>4. /\ Working(Unput) => Working(Unput)'
      /\ Working(Uncounted) => Working(Uncounted)'
  BY <1>1, <1>2, <1>3 DEF Working, Uncounted
<1>5. \A i \in 1 .. Len(stack') : Owing(stack[i])'
  <2> SUFFICES ASSUME NEW i \in 1 .. Len(stack') PROVE Owing(stack[i])'
    OBVIOUS
  <2>1. Owing(stack[i + 1]) /\ stack'[i] = stack[i + 1]
    BY <1>1, <1>2 DEF AccountInv, TalliedInv
  <2> QED
    BY <2>1 DEF Owing
<1>6. TalliedInv'
  BY <1>4, <1>5 DEF AccountInv, TalliedInv
<1>7. BuiltInv'
  BY DEF AccountInv, BuiltInv
<1> QED
  BY <1>6, <1>7

LEMMA HandlerTallied == ASSUME AccountInv, HandlerStep PROVE TalliedInv' /\ BuiltInv'
<1>1. stack # <<>> /\ UNCHANGED <<ppc, closing, todo, profile>>
  BY DEF HandlerStep, HandlerCheck, HandlerSet, HandlerLock, HandlerTest, HandlerDiff,
         HandlerAdvance, HandlerStore, HandlerUnlock, HandlerGet, HandlerPut, HandlerCount,
         HandlerAdd, HandlerExit, At, pollVars, loopVars, buildVars
<1>2. /\ Len(stack) \in Nat /\ Len(stack) >= 1 /\ me = stack[1] /\ me \in Handlers
      /\ self \in Selves /\ recorded \in Nat /\ "pc" \in DOMAIN me
  BY <1>1, Innermost DEF AccountInv, TypedInv, TypeInv, Handlers
<1>3. /\ me.ticks \in Nat /\ me.value \in Nat
      /\ me.trace \in Stacks /\ me.trace \in Stacks \cup {UnknownStack}
      /\ self.traces \in Dicts /\ self.trace_count \in Nat /\ Ticks(self.traces) \in Int
  BY <1>2, TicksOf DEF Handlers, Selves
<1>4. Owing(me)
  BY <1>2 DEF AccountInv, TalliedInv
<1>5. ASSUME me.pc # "check"
      PROVE  /\ DOMAIN self.traces \subseteq Stacks
             /\ me.pc \notin Unput => recorded = Ticks(self.traces)
             /\ me.pc \notin Uncounted => recorded = self.trace_count
  <2>1. /\ ppc \in Active /\ \A i \in 2 .. Len(stack) : stack[i].pc = "check"
    BY <1>1, <1>5, Alone, Sampling DEF AccountInv, TypedInv
  <2>2. \A i \in 1 .. Len(stack) : i = 1 \/ i \in 2 .. Len(stack)
    BY <1>2
  <2>3. /\ me.pc \notin Unput => ~ Working(Unput)
        /\ me.pc \notin Uncounted => ~ Working(Uncounted)
    BY <1>2, <2>1, <2>2 DEF Working, Unput, Uncounted
  <2> QED
    BY <2>1, <2>3 DEF AccountInv, TalliedInv
<1>6. CASE HandlerCheck /\ ReturnFromHandler
  <2>1. me.pc = "check" /\ self' = self /\ recorded' = recorded
    BY <1>6 DEF HandlerCheck, At
  <2> QED
    BY <1>1, <1>6, <2>1, TalliedReturns DEF Unput, Uncounted
<1>7. CASE HandlerExit
  <2>1. /\ me.pc = "exit" /\ ReturnFromHandler /\ recorded' = recorded
        /\ self'.traces = self.traces /\ self'.trace_count = self.trace_count
        /\ self'.dict = self.dict
    BY <1>2, <1>7 DEF HandlerExit, At, Selves
  <2> QED
    BY <1>1, <2>1, TalliedReturns DEF Unput, Uncounted
<1>8. CASE HandlerCheck /\ GotoPoint("set")
  <2>1. PICK h : h = [me EXCEPT !.pc = "set"]
    OBVIOUS
  <2>2. self' = self /\ recorded' = recorded /\ me.pc = "check" /\ Become(h)
    BY <1>8, <2>1 DEF HandlerCheck, At, GotoPoint
  <2>3. "pc" \in DOMAIN h /\ h.pc = "set" /\ h.ticks = me.ticks
    BY <1>2, <2>1 DEF Handlers
  <2>4. /\ Len(stack') = Len(stack) /\ stack'[1] = h
        /\ \A i \in 2 .. Len(stack) : stack'[i] = stack[i]
    BY <1>1, <2>2, <2>3, Became DEF AccountInv, StopInv, WallInv
  <2>5. \A i \in 1 .. Len(stack) : i = 1 \/ i \in 2 .. Len(stack)
    BY <1>2
  <2>6. /\ Working(Unput)' <=> Working(Unput)
        /\ Working(Uncounted)' <=> Working(Uncounted)
    BY <1>2, <2>2, <2>3, <2>4, <2>5 DEF Working, Unput, Uncounted
  <2>7. Owing(h)'
    BY <1>4, <2>2, <2>3 DEF Owing, Unput, Uncounted
  <2>8. \A i \in 1 .. Len(stack') : Owing(stack[i])'
    BY <2>2, <2>4, <2>5, <2>7 DEF AccountInv, TalliedInv, Owing
  <2>9. TalliedInv'
    BY <1>1, <2>2, <2>6, <2>8 DEF AccountInv, TalliedInv
  <2>10. BuiltInv'
    BY <1>1, <2>2 DEF AccountInv, BuiltInv
  <2> QED
    BY <2>9, <2>10
<1>9. ASSUME me.pc # "check", NEW h, "pc" \in DOMAIN h, Become(h), Owing(h)',
             DOMAIN self'.traces \subseteq Stacks,
             h.pc \notin Unput => recorded' = Ticks(self'.traces),
             h.pc \notin Uncounted => recorded' = self'.trace_count
      PROVE  TalliedInv' /\ BuiltInv'
  BY <1>1, <1>9, TalliedGoesOn
<1>10. CASE HandlerSet \/ HandlerLock \/ (HandlerTest /\ self.last_sample_time # None)
  <2>1. PICK h : /\ h.pc \in {"lock", "test", "diff"} /\ "pc" \in DOMAIN h /\ Become(h)
                 /\ h.ticks = me.ticks
    <3>1. PICK p \in {"lock", "test", "diff"} : \E n : Become([me EXCEPT !.pc = p, !.now = n])
      <4>1. \A p : [me EXCEPT !.pc = p] = [me EXCEPT !.pc = p, !.now = me.now]
        BY <1>2 DEF Handlers
      <4> QED
        BY <1>10, <4>1 DEF HandlerSet, HandlerLock, HandlerTest, GotoPoint
    <3>2. PICK n : Become([me EXCEPT !.pc = p, !.now = n])
      BY <3>1
    <3>3. PICK h : h = [me EXCEPT !.pc = p, !.now = n]
      OBVIOUS
    <3>4. h.pc = p /\ "pc" \in DOMAIN h /\ h.ticks = me.ticks
      BY <1>2, <3>3 DEF Handlers
    <3> QED
      BY <3>2, <3>3, <3>4
  <2>2. /\ me.pc \in {"set", "lock", "test"} /\ recorded' = recorded
        /\ self'.traces = self.traces /\ self'.trace_count = self.trace_count
    BY <1>2, <1>10 DEF HandlerSet, HandlerLock, HandlerTest, At, Selves
  <2>3. recorded = Ticks(self.traces) /\ recorded = self.trace_count /\ me.ticks = 1
    BY <1>4, <1>5, <2>2 DEF Owing, Unput, Uncounted
  <2>4. Owing(h)'
    BY <2>1, <2>2, <2>3 DEF Owing, Unput, Uncounted
  <2> QED
    BY <1>5, <1>9, <2>1, <2>2, <2>3, <2>4
<1>11. CASE HandlerTest /\ self.last_sample_time = None
  <2>1. PICK h : h = [me EXCEPT !.pc = "unlock", !.now = 0]
    OBVIOUS
  <2>2. /\ h.pc = "unlock" /\ "pc" \in DOMAIN h /\ Become(h) /\ h.ticks = me.ticks
        /\ me.pc = "test" /\ recorded' = recorded + 1
        /\ self'.traces = self.traces /\ self'.trace_count = self.trace_count
    BY <1>2, <1>11, <2>1 DEF HandlerTest, At, Handlers, Selves
  <2>3. recorded = Ticks(self.traces) /\ recorded = self.trace_count /\ me.ticks = 1
    BY <1>4, <1>5, <2>2 DEF Owing, Unput, Uncounted
  <2>4. Owing(h)'
    BY <2>2, <2>3 DEF Owing, Unput, Uncounted
  <2> QED
    BY <1>5, <1>9, <2>2, <2>4 DEF Unput, Uncounted
<1>12. CASE HandlerDiff
  <2>1. me.pc = "diff" /\ self' = self
    BY <1>12 DEF HandlerDiff, At
  <2>2. self.last_sample_time # None
    BY <1>2, <2>1 DEF AccountInv, StopInv, TimeInv
  <2>3. PICK n : n = Max({1, me.now - self.last_sample_time})
    OBVIOUS
  <2>4. PICK h : h = [me EXCEPT !.pc = "advance", !.now = 0, !.ticks = n]
    OBVIOUS
  <2>5. /\ h.pc = "advance" /\ "pc" \in DOMAIN h /\ Become(h) /\ h.ticks = n
        /\ recorded' = recorded + n
    BY <1>2, <1>12, <2>2, <2>3, <2>4 DEF HandlerDiff, Handlers
  <2>6. recorded = Ticks(self.traces) /\ recorded = self.trace_count
    BY <1>5, <2>1 DEF Unput, Uncounted
  <2>7. Owing(h)'
    BY <2>1, <2>5, <2>6 DEF Owing, Unput, Uncounted
  <2> QED
    BY <1>5, <1>9, <2>1, <2>5, <2>7 DEF Unput, Uncounted
<1>13. CASE HandlerAdvance \/ HandlerStore \/ HandlerUnlock
  <2>1. CASE HandlerAdvance
    <3>1. self.last_sample_time # None
      BY <1>2, <2>1 DEF HandlerAdvance, At, AccountInv, StopInv, TimeInv
    <3>2. PICK h : h = [me EXCEPT !.pc = "store", !.value = self.last_sample_time + me.ticks]
      OBVIOUS
    <3>3. /\ h.pc = "store" /\ "pc" \in DOMAIN h /\ Become(h) /\ h.ticks = me.ticks
          /\ me.pc = "advance" /\ self' = self /\ recorded' = recorded
      BY <1>2, <2>1, <3>1, <3>2 DEF HandlerAdvance, At, Handlers
    <3>4. Owing(h)'
      BY <1>4, <3>3 DEF Owing, Unput, Uncounted
    <3> QED
      BY <1>5, <1>9, <3>3, <3>4 DEF Unput, Uncounted
  <2>2. CASE HandlerStore \/ HandlerUnlock
    <3>1. PICK h : /\ h.pc \in {"unlock", "get"} /\ "pc" \in DOMAIN h /\ Become(h)
                   /\ h.ticks = me.ticks
      <4>1. PICK p \in {"unlock", "get"} : \E n : Become([me EXCEPT !.pc = p, !.value = n])
        <5>1. \A p : [me EXCEPT !.pc = p] = [me EXCEPT !.pc = p, !.value = me.value]
          BY <1>2 DEF Handlers
        <5> QED
          BY <2>2, <5>1 DEF HandlerStore, HandlerUnlock, GotoPoint
      <4>2. PICK n : Become([me EXCEPT !.pc = p, !.value = n])
        BY <4>1
      <4>3. PICK h : h = [me EXCEPT !.pc = p, !.value = n]
        OBVIOUS
      <4>4. h.pc = p /\ "pc" \in DOMAIN h /\ h.ticks = me.ticks
        BY <1>2, <4>3 DEF Handlers
      <4> QED
        BY <4>2, <4>3, <4>4
    <3>2. /\ me.pc \in {"store", "unlock"} /\ recorded' = recorded
          /\ self'.traces = self.traces /\ self'.trace_count = self.trace_count
      BY <1>2, <2>2 DEF HandlerStore, HandlerUnlock, At, Selves
    <3>3. Owing(h)'
      BY <1>4, <3>1, <3>2 DEF Owing, Unput, Uncounted
    <3> QED
      BY <1>5, <1>9, <3>1, <3>2, <3>3 DEF Unput, Uncounted
  <2> QED
    BY <1>13, <2>1, <2>2
<1>14. CASE HandlerGet
  <2>1. PICK n : n = IF me.trace \in DOMAIN self.traces THEN self.traces[me.trace] ELSE 0
    OBVIOUS
  <2>2. PICK d : d = With(self.traces, me.trace, n)
    OBVIOUS
  <2>3. PICK h : h = [me EXCEPT !.pc = "put", !.dict = self.dict, !.value = n]
    OBVIOUS
  <2>4. /\ h.pc = "put" /\ "pc" \in DOMAIN h /\ Become(h) /\ h.ticks = me.ticks
        /\ h.dict = self.dict /\ h.value = n /\ h.trace = me.trace
        /\ me.pc = "get" /\ recorded' = recorded
    BY <1>2, <1>14, <2>1, <2>3 DEF HandlerGet, At, Handlers
  <2>5. /\ self'.traces = d /\ self'.trace_count = self.trace_count /\ self'.dict = self.dict
    BY <1>2, <1>14, <2>1, <2>2 DEF HandlerGet, Selves
  <2>6. n \in Nat
    BY <1>3, <2>1, DictOf
  <2>7. DOMAIN d = DOMAIN self.traces \cup {me.trace} /\ d[me.trace] = n
    BY <2>2 DEF With
  <2>8. Ticks(d) = Ticks(self.traces)
    <3>1. Ticks(d) = Ticks(self.traces) + n
                       - (IF me.trace \in DOMAIN self.traces THEN self.traces[me.trace] ELSE 0)
      BY <1>3, <2>2, <2>6, TicksWith
    <3> QED
      BY <1>3, <2>1, <2>6, <3>1
  <2>9. Owing(h)'
    BY <1>4, <2>4, <2>5, <2>7, <2>8 DEF Owing, Unput, Uncounted
  <2> QED
    BY <1>3, <1>5, <1>9, <2>4, <2>5, <2>7, <2>9 DEF Unput, Uncounted
<1>15. CASE HandlerPut
  <2>0. PICK n : n = me.value + me.ticks
    OBVIOUS
  <2>1. PICK d : d = With(self.traces, me.trace, n)
    OBVIOUS
  <2>2. PICK h : h = [me EXCEPT !.pc = "count", !.dict = 0, !.value = 0]
    OBVIOUS
  <2>3. /\ h.pc = "count" /\ "pc" \in DOMAIN h /\ Become(h) /\ h.ticks = me.ticks
        /\ me.pc = "put" /\ recorded' = recorded
    BY <1>2, <1>15, <2>2 DEF HandlerPut, At, Handlers
  <2>4. /\ me.dict = self.dict /\ me.trace \in DOMAIN self.traces
        /\ me.value = self.traces[me.trace]
        /\ recorded = Ticks(self.traces) + me.ticks
        /\ recorded = self.trace_count + me.ticks
    BY <1>4, <2>3 DEF Owing, Unput, Uncounted
  <2>5. self'.traces = d /\ self'.trace_count = self.trace_count
    BY <1>2, <1>15, <2>0, <2>1, <2>4 DEF HandlerPut, Selves
  <2>6. n \in Nat
    BY <1>3, <2>0
  <2>7. /\ DOMAIN d = DOMAIN self.traces \cup {me.trace}
        /\ Ticks(d) = Ticks(self.traces) + n
                       - (IF me.trace \in DOMAIN self.traces THEN self.traces[me.trace] ELSE 0)
    <3>1. DOMAIN d = DOMAIN self.traces \cup {me.trace}
      BY <2>1 DEF With
    <3> QED
      BY <1>3, <2>1, <2>6, <3>1, TicksWith
  <2>8. recorded = Ticks(d)
    BY <1>3, <2>0, <2>4, <2>7
  <2>9. Owing(h)'
    BY <2>3, <2>4, <2>5, <2>8 DEF Owing, Unput, Uncounted
  <2> QED
    BY <1>3, <1>5, <1>9, <2>3, <2>5, <2>7, <2>8, <2>9 DEF Unput, Uncounted
<1>16. CASE HandlerCount
  <2>1. PICK h : h = [me EXCEPT !.pc = "add", !.value = self.trace_count]
    OBVIOUS
  <2>2. /\ h.pc = "add" /\ "pc" \in DOMAIN h /\ Become(h) /\ h.ticks = me.ticks
        /\ h.value = self.trace_count /\ me.pc = "count" /\ recorded' = recorded /\ self' = self
    BY <1>2, <1>16, <2>1 DEF HandlerCount, At, Handlers
  <2>3. Owing(h)'
    BY <1>4, <2>2 DEF Owing, Unput, Uncounted
  <2> QED
    BY <1>5, <1>9, <2>2, <2>3 DEF Unput, Uncounted
<1>17. CASE HandlerAdd
  <2>1. PICK h : h = [me EXCEPT !.pc = "exit"]
    OBVIOUS
  <2>2. /\ h.pc = "exit" /\ "pc" \in DOMAIN h /\ Become(h) /\ me.pc = "add"
        /\ recorded' = recorded /\ self'.traces = self.traces
        /\ self'.trace_count = me.value + me.ticks
    BY <1>2, <1>17, <2>1 DEF HandlerAdd, At, Handlers, Selves, GotoPoint
  <2>3. recorded = self'.trace_count
    BY <1>4, <2>2 DEF Owing, Uncounted
  <2>4. Owing(h)'
    BY <2>2 DEF Owing, Unput, Uncounted
  <2> QED
    BY <1>5, <1>9, <2>2, <2>3, <2>4 DEF Unput, Uncounted
<1> QED
  BY <1>6, <1>7, <1>8, <1>10, <1>11, <1>12, <1>13, <1>14, <1>15, <1>16, <1>17
     DEF HandlerStep, HandlerCheck

LEMMA CallingTallied ==
  ASSUME AccountInv, NEW t \in Stacks, CallHandler(t) PROVE TalliedInv' /\ BuiltInv'
<1>1. PICK h : h = [pc |-> "check", trace |-> t, now |-> 0, ticks |-> 1, value |-> 0, dict |-> 0]
  OBVIOUS
<1>2. /\ stack' = <<h>> \o stack
      /\ UNCHANGED <<self, recorded, ppc, closing, todo, profile>>
      /\ h.pc = "check" /\ h.ticks = 1 /\ "pc" \in DOMAIN h
  BY <1>1 DEF CallHandler, pollVars, loopVars, buildVars
<1>3. /\ Len(stack') = Len(stack) + 1 /\ stack'[1] = h /\ Len(stack) \in Nat
      /\ \A i \in 2 .. Len(stack') : stack'[i] = stack[i - 1]
  BY <1>2, Pushed DEF AccountInv, StopInv, WallInv
<1>4. \A i \in 1 .. Len(stack') : i = 1 \/ (i \in 2 .. Len(stack') /\ i - 1 \in 1 .. Len(stack))
  BY <1>3
<1>5. \A i \in 1 .. Len(stack) : /\ i + 1 \in 2 .. Len(stack') /\ (i + 1) - 1 = i
                                 /\ i + 1 \in 1 .. Len(stack')
  BY <1>3
<1>6. /\ Working(Unput) => Working(Unput)'
      /\ Working(Uncounted) => Working(Uncounted)'
  BY <1>3, <1>5 DEF Working
<1>7. ASSUME NEW i \in 1 .. Len(stack') PROVE Owing(stack[i])'
  <2>1. CASE i = 1
    BY <1>2, <1>3, <2>1 DEF Owing, Unput, Uncounted
  <2>2. CASE i # 1
    <3>1. i \in 2 .. Len(stack') /\ i - 1 \in 1 .. Len(stack) /\ stack'[i] = stack[i - 1]
      BY <1>3, <1>4, <2>2
    <3>2. Owing(stack[i - 1])
      BY <3>1 DEF AccountInv, TalliedInv
    <3> QED
      BY <1>2, <3>1, <3>2 DEF Owing
  <2> QED
    BY <2>1, <2>2
<1>8. TalliedInv'
  BY <1>2, <1>6, <1>7 DEF AccountInv, TalliedInv
<1>9. BuiltInv'
  BY <1>2 DEF AccountInv, BuiltInv
<1> QED
  BY <1>8, <1>9

(***************************************************************************)
(* The polling thread prepares a profile, samples, and builds it.          *)
(***************************************************************************)
LEMMA PollingTallied ==
  ASSUME AccountInv, PollStep \/ ProfileStart, stack' = stack
  PROVE  TalliedInv' /\ BuiltInv'
<1>1. /\ self \in Selves /\ self.traces \in Dicts /\ self.trace_count \in Nat
      /\ Ticks(self.traces) \in Int /\ recorded \in Nat /\ stack \in Seq(Handlers)
  BY TicksOf DEF AccountInv, TypedInv, TypeInv, Selves
<1>2. ppc \in Quiet => \A i \in 1 .. Len(stack) : stack[i].pc = "check"
  BY DEF AccountInv, StopInv, QuietInv
<1>3. ASSUME ppc \in Quiet PROVE /\ \A i \in 1 .. Len(stack') : Owing(stack[i])'
                                 /\ ~ Working(Unput)' /\ ~ Working(Uncounted)'
                                 /\ ~ Working(Unput) /\ ~ Working(Uncounted)
  BY <1>2, <1>3 DEF AccountInv, TalliedInv, Owing, Working, Unput, Uncounted
<1>4. CASE ProfileStart
  BY <1>3, <1>4
     DEF ProfileStart, PollGoto, Quiet, Active, TalliedInv, BuiltInv
<1>5. CASE ClearTraces
  <2>1. /\ ppc = "clear_traces" /\ ppc' = "clear_time" /\ self'.traces = NoTraces
        /\ UNCHANGED <<closing, profile, recorded>>
    BY <1>1, <1>5 DEF ClearTraces, PollGoto, Selves, loopVars, buildVars
  <2> QED
    BY <1>3, <2>1 DEF Quiet, Active, AccountInv, TalliedInv, BuiltInv
<1>6. CASE ClearTime
  <2>1. /\ ppc = "clear_time" /\ ppc' = "clear_count" /\ self'.traces = self.traces
        /\ UNCHANGED <<closing, profile, recorded>>
    BY <1>1, <1>6 DEF ClearTime, PollGoto, Selves, loopVars, buildVars
  <2> QED
    BY <1>3, <2>1 DEF Quiet, Active, AccountInv, TalliedInv, BuiltInv
<1>7. CASE ClearCount
  <2>1. /\ ppc = "clear_count" /\ ppc' = (IF closing THEN "return" ELSE "start")
        /\ self'.traces = self.traces /\ self'.trace_count = 0
        /\ UNCHANGED <<closing, profile, recorded>>
    BY <1>1, <1>7 DEF ClearCount, PollGoto, Selves, buildVars
  <2> QED
    BY <1>3, <2>1 DEF Quiet, Active, AccountInv, TalliedInv, BuiltInv
<1>8. CASE SetStarted
  <2>1. /\ ppc = "start" /\ ppc' = "arm" /\ self'.traces = NoTraces /\ self'.trace_count = 0
        /\ recorded' = 0
    BY <1>1, <1>8 DEF SetStarted, PollGoto, Selves, AccountInv, BuiltInv
  <2>2. TalliedInv'
    BY <1>3, <2>1, EmptyDict, TicksOfNone DEF Quiet, TalliedInv
  <2> QED
    BY <2>1, <2>2 DEF BuiltInv
<1>9. CASE \/ Arm \/ WakeUp \/ Pause \/ Rearm \/ Forget \/ Disarm \/ ClearStarted \/ Wait
  <2>1. /\ ppc \in Active /\ ppc' \in Active /\ UNCHANGED <<recorded, closing>>
        /\ self'.traces = self.traces /\ self'.trace_count = self.trace_count
        /\ self'.dict = self.dict
    BY <1>1, <1>9 DEF Arm, WakeUp, Pause, Rearm, Forget, Disarm, ClearStarted, Wait, PollGoto,
                      Active, Selves, loopVars
  <2>2. TalliedInv'
    BY <2>1 DEF AccountInv, TalliedInv, Owing, Working
  <2>3. BuiltInv'
    BY <2>1 DEF BuiltInv, Active, AccountInv, StopInv, QuietInv
  <2> QED
    BY <2>2, <2>3
<1>10. CASE AddUnknown
  <2>1. PICK unknown : unknown = Duration - self.trace_count
    OBVIOUS
  <2>2. PICK filled : filled = IF unknown > 0 THEN With(self.traces, UnknownStack, unknown)
                                              ELSE self.traces
    OBVIOUS
  <2>3. /\ ppc = "unknown" /\ ppc' = "iterate" /\ self' = [self EXCEPT !.traces = filled]
        /\ todo' = DOMAIN filled /\ profile' = NoTraces /\ UNCHANGED <<recorded, closing>>
    BY <1>10, <2>1, <2>2 DEF AddUnknown, PollGoto, loopVars
  <2>4. /\ DOMAIN self.traces \subseteq Stacks
        /\ recorded = Ticks(self.traces) /\ recorded = self.trace_count
    BY <1>3, <2>3 DEF AccountInv, TalliedInv, Active, Quiet
  <2>5. Ticks(filled) = Max({Duration, recorded})
    <3>1. unknown \in Int /\ Duration \in Nat /\ UnknownStack \notin DOMAIN self.traces
      BY <1>1, <2>1, <2>4, WallAssumption
    <3>2. Max({Duration, recorded}) = IF Duration <= recorded THEN recorded ELSE Duration
      BY <1>1, <3>1, MaxOfTwo
    <3>3. CASE unknown > 0
      <4>1. unknown \in Nat /\ UnknownStack \in Stacks \cup {UnknownStack}
        BY <3>1, <3>3
      <4>2. Ticks(filled) = Ticks(self.traces) + unknown
        BY <1>1, <2>2, <3>1, <3>3, <4>1, TicksWith
      <4>3. unknown = Duration - recorded /\ Ticks(filled) = recorded + unknown
        BY <2>1, <2>4, <4>2
      <4>4. Ticks(filled) = Duration /\ ~ (Duration <= recorded)
        BY <1>1, <3>1, <3>3, <4>3
      <4> QED
        BY <3>2, <4>4
    <3>4. CASE ~ (unknown > 0)
      <4>1. filled = self.traces /\ Duration <= recorded
        BY <1>1, <2>1, <2>2, <2>4, <3>1, <3>4
      <4> QED
        BY <2>4, <3>2, <4>1
    <3> QED
      BY <3>3, <3>4
  <2>6. self'.traces = filled
    BY <1>1, <2>3 DEF Selves
  <2>7. TalliedInv'
    BY <1>3, <2>3 DEF Quiet, Active, TalliedInv
  <2>8. DOMAIN profile' = {}
    BY <2>3, EmptyDict
  <2>9. BuiltInv'
    <3>1. /\ Ticks(self'.traces) = Max({Duration, recorded'})
          /\ todo' \subseteq DOMAIN self'.traces
          /\ DOMAIN profile' = DOMAIN self'.traces \ todo'
      BY <2>3, <2>5, <2>6, <2>8
    <3>2. ~ (ppc' \in {"clear_traces", "clear_time", "clear_count", "start", "return"})
      BY <2>3
    <3> QED
      BY <2>8, <3>1, <3>2 DEF BuiltInv
  <2> QED
    BY <2>7, <2>9
<1>11. CASE Iterate
  <2>1. /\ ppc = "iterate" /\ self' = self /\ recorded' = recorded
        /\ ppc' \in {"idle", "iterate", "clear_traces"}
    BY <1>11 DEF Iterate
  <2>2. /\ Ticks(self.traces) = Max({Duration, recorded}) /\ todo \subseteq DOMAIN self.traces
        /\ DOMAIN profile = DOMAIN self.traces \ todo
        /\ \A t \in DOMAIN profile : profile[t] = self.traces[t]
    BY <2>1 DEF AccountInv, BuiltInv
  <2>3. TalliedInv'
    BY <1>3, <2>1 DEF Quiet, Active, TalliedInv
  <2>4. CASE ppc' = "idle"
    BY <2>3, <2>4 DEF BuiltInv
  <2>5. CASE todo = {} /\ ppc' = "clear_traces" /\ profile' = profile
    <3>1. DOMAIN profile = DOMAIN self.traces
      BY <2>2, <2>5
    <3>2. Ticks(profile) = Ticks(self.traces)
      <4>1. Sums(self.traces, DOMAIN self.traces)
        BY <1>1, TicksOf
      <4>2. Sums(profile, DOMAIN self.traces)
        BY <2>2, <3>1, <4>1 DEF Sums
      <4>3. SumFunctionOnSet(profile, DOMAIN self.traces)
              = SumFunctionOnSet(self.traces, DOMAIN self.traces)
        BY <2>2, <3>1, <4>1, <4>2, SumMonotonic
      <4> QED
        BY <3>1, <4>3 DEF Ticks, SumFunction
    <3> QED
      BY <2>1, <2>2, <2>3, <2>5, <3>2 DEF BuiltInv
  <2>6. ASSUME NEW t \in todo, profile' = With(profile, t, self.traces[t]), todo' = todo \ {t},
               ppc' = "iterate", closing' = closing
        PROVE  TalliedInv' /\ BuiltInv'
    <3>1. /\ DOMAIN profile' = DOMAIN profile \cup {t}
          /\ \A j \in DOMAIN profile' : profile'[j] = IF j = t THEN self.traces[t] ELSE profile[j]
      BY <2>6 DEF With
    <3>2. DOMAIN profile' = DOMAIN self.traces \ todo'
      BY <2>2, <2>6, <3>1
    <3>3. \A j \in DOMAIN profile' : profile'[j] = self.traces[j]
      BY <2>2, <3>1
    <3>4. todo' \subseteq DOMAIN self.traces
      BY <2>2, <2>6
    <3> QED
      BY <2>1, <2>2, <2>3, <2>6, <3>2, <3>3, <3>4 DEF BuiltInv
  <2>7. \/ ppc' = "idle"
        \/ todo = {} /\ ppc' = "clear_traces" /\ profile' = profile
        \/ \E t \in todo : /\ profile' = With(profile, t, self.traces[t]) /\ todo' = todo \ {t}
                           /\ ppc' = "iterate" /\ closing' = closing
    BY <1>11, <2>1 DEF Iterate
  <2> QED
    BY <2>4, <2>5, <2>6, <2>7
<1>12. CASE ProfileReturn
  BY <1>3, <1>12 DEF ProfileReturn, PollGoto, Quiet, Active, TalliedInv, BuiltInv
<1> QED
  BY <1>4, <1>5, <1>6, <1>7, <1>8, <1>9, <1>10, <1>11, <1>12 DEF PollStep

LEMMA NextAccount ==
  ASSUME "set" \notin SwitchPoints, AccountInv, [Next]_wallVars PROVE AccountInv'
<1>1. StopInv' /\ TypedInv'
  BY NextStop, NextTyped DEF AccountInv
<1>2. CASE Tick \/ UNCHANGED wallVars
  <2>1. UNCHANGED <<self, stack, recorded, ppc, closing, todo, profile>>
    BY <1>2 DEF Tick, wallVars, mainVars, pollVars, loopVars, buildVars
  <2>2. TalliedInv'
    BY <2>1 DEF AccountInv, TalliedInv, Owing, Working
  <2>3. BuiltInv'
    BY <2>1 DEF AccountInv, BuiltInv
  <2> QED
    BY <1>1, <2>2, <2>3 DEF AccountInv
<1>3. CASE \E t \in Stacks : CallHandler(t)
  BY <1>1, <1>3, CallingTallied DEF AccountInv
<1>4. CASE HandlerStep
  BY <1>1, <1>4, HandlerTallied DEF AccountInv
<1>5. CASE PollStep \/ (ProfileStart /\ UNCHANGED <<clock, tripped, stack, raised>>)
  BY <1>1, <1>5, PollingTallied DEF AccountInv, PollStep
<1> QED
  BY <1>2, <1>3, <1>4, <1>5 DEF Next

LEMMA AccountAlways == ASSUME "set" \notin SwitchPoints PROVE Spec => []AccountInv
<1>1. AccountInv /\ [Next]_wallVars => AccountInv'
  BY NextAccount
<1>2. Init => AccountInv
  <2> SUFFICES ASSUME Init PROVE AccountInv
    OBVIOUS
  <2>1. stack = <<>> /\ Len(stack) = 0 /\ ppc = "idle"
    BY DEF Init
  <2> QED
    BY <2>1, InitStop, InitWall, InitTypes
       DEF AccountInv, TypedInv, TalliedInv, BuiltInv, Active
<1> QED
  BY <1>1, <1>2, PTL DEF Spec

(***************************************************************************)
(* A profile accounts for its ticks: what profile() returns holds every    *)
(* tick that a handler attributed to a stack since _start_profiling, and   *)
(* no other, and unknown ticks up to the number expected for its duration  *)
(* (pythonprofiler.py:131-160, 190-251), for any number of stacks, ticks   *)
(* and nested handlers.                                                    *)
(***************************************************************************)
THEOREM ProfileKeepsTicks ==
  ASSUME "set" \notin SwitchPoints PROVE Spec => []ProfileAccountsForTicks
<1>1. AccountInv => ProfileAccountsForTicks
  BY DEF AccountInv, BuiltInv, ProfileAccountsForTicks
<1> QED
  BY <1>1, AccountAlways, PTL
=============================================================================
