----------------------------- MODULE DLockProofs -----------------------------
(* Proofs about DLock: types, that an instance which may rely on the lock has  *)
(* the key, and that the lock implements exclusive ownership.                  *)
EXTENDS DLock, TLAPS

\* What a command leaves in the key and answers.
LEMMA RunTypes ==
    ASSUME NEW k \in [owner : Holders, pttl : Ticks] \cup {Free}, NEW p \in Holders,
           NEW cmd \in {"setnx", "Unlock", "Refresh"}
    PROVE  LET e == Run(k, cmd, p) IN
           /\ e.key \in [owner : Holders, pttl : Ticks] \cup {Free}
           /\ e.answer \in {"yes", "no"}
  <1>1. Expiry \in Ticks /\ Persist \in Ticks /\ Expiry \in Nat
    BY DLockAssumption DEF Ticks
  <1>2. CASE cmd = "setnx"
    BY <1>1, <1>2 DEF Run, SetNX, Effect
  <1>3. CASE cmd = "Unlock"
    BY <1>3 DEF Run, unlockScript, Effect
  <1>4. CASE cmd = "Refresh"
    <2>1. k.owner = p => k \in [owner : Holders, pttl : Ticks]
      BY DLockAssumption DEF Free
    <2> QED BY <1>1, <1>4, <2>1 DEF Run, refreshScript, Effect
  <1> QED BY <1>2, <1>3, <1>4

LEMMA CallTypes ==
    ASSUME TypeOK, NEW p \in Holders, call[p].st # "idle"
    PROVE  call[p] \in Calls
  BY DEF TypeOK, Idle

LEMMA CommandTypes ==
    ASSUME NEW c \in Calls
    PROVE  Command(c.op) \in {"setnx", "Unlock", "Refresh"}
  BY DEF Calls, Command

LEMMA WaitTypes ==
    ASSUME NEW c \in Calls
    PROVE  Wait(c) \in Calls /\ Wait(c).st = "waiting" /\ Wait(c).op = c.op
           /\ Wait(c).clear = c.clear /\ Wait(c).left = c.left /\ Wait(c).ago = 0
  <1>1. 0 \in 0..Timeout
    BY DLockAssumption
  <1> QED BY <1>1 DEF Calls, Wait

LEMMA GrantedTypes ==
    ASSUME TypeOK, NEW p \in Holders, call[p] \in Calls
    PROVE  Granted(p) \in Ticks
  <1>1. call[p].ago \in Nat
    BY DLockAssumption DEF Calls
  <1> QED BY <1>1, DLockAssumption DEF Granted, Ticks

LEMMA AbandonTypes ==
    ASSUME TypeOK, NEW p \in Holders, Abandon(p)
    PROVE  late' \subseteq Requests
  <1>1. CASE late' = late
    BY <1>1 DEF TypeOK
  <1>2. CASE call[p].st = "sent" /\ late' = late \cup {[cmd |-> Command(call[p].op), by |-> p]}
    <2>1. Command(call[p].op) \in {"setnx", "Unlock", "Refresh"}
      BY <1>2, CallTypes, CommandTypes
    <2> QED BY <1>2, <2>1 DEF TypeOK, Requests
  <1> QED BY <1>1, <1>2 DEF Abandon

LEMMA TypeInit == Init => TypeOK
  BY DEF Init, TypeOK, Ticks

\* A deadline and the time since the command was sent stay within the context's time.
TimeOK == \A p \in Holders : call[p].st # "idle" => call[p].left + call[p].ago <= Timeout

LEMMA TypeStep == TypeOK /\ TimeOK /\ [Next]_vars => TypeOK' /\ TimeOK'
  <1> SUFFICES ASSUME TypeOK, TimeOK, [Next]_vars PROVE TypeOK' /\ TimeOK'
    OBVIOUS
  <1>0. Timeout \in Nat
    BY DLockAssumption
  <1>1. ASSUME NEW p \in Holders, NEW c \in Calls \cup {Idle}, call' = [call EXCEPT ![p] = c],
               c.st # "idle" => c.left + c.ago <= Timeout
        PROVE  call' \in [Holders -> Calls \cup {Idle}] /\ TimeOK'
    <2>1. call' \in [Holders -> Calls \cup {Idle}] /\ call'[p] = c
          /\ \A q \in Holders : q # p => call'[q] = call[q]
      BY <1>1 DEF TypeOK
    <2> QED BY <1>1, <2>1 DEF TimeOK
  <1>2. ASSUME NEW p \in Holders, Use(p) PROVE TypeOK' /\ TimeOK'
    <2>1. PICK op \in {"TryLock", "Lock", "Unlock", "Refresh"} : Begin(p, op)
      BY <1>2 DEF Use, TryLock, Lock, Unlock, Refresh
    <2>2. PICK c : c = [op |-> op, st |-> "sent", left |-> Timeout, ago |-> 0, answer |-> "none",
                        clear |-> unlockOf(p) \notin late]
      OBVIOUS
    <2>3. (unlockOf(p) \notin late) \in BOOLEAN
      OBVIOUS
    <2>4. c \in Calls /\ c.left + c.ago <= Timeout
      BY <2>2, <2>3, <1>0 DEF Calls
    <2>5. call' \in [Holders -> Calls \cup {Idle}] /\ TimeOK' /\ UNCHANGED <<key, locked, late, dead>>
      BY <1>1, <2>1, <2>2, <2>4 DEF Begin
    <2>6. hold' \in [Holders -> Ticks]
      BY <1>2 DEF Use, TryLock, Lock, Unlock, Refresh, TypeOK, Ticks
    <2> QED BY <2>5, <2>6 DEF TypeOK
  <1>3. ASSUME NEW p \in Holders, Execute(p) PROVE TypeOK' /\ TimeOK'
    <2>1. call[p] \in Calls /\ call[p].left + call[p].ago <= Timeout
      BY <1>3, CallTypes DEF Execute, TimeOK
    <2>2. PICK e : e = Run(key, Command(call[p].op), p)
      OBVIOUS
    <2>3. e.key \in [owner : Holders, pttl : Ticks] \cup {Free} /\ e.answer \in {"yes", "no"}
      BY <2>1, <2>2, CommandTypes, RunTypes DEF TypeOK
    <2>4. PICK c : c = [call[p] EXCEPT !.st = "replied", !.answer = e.answer]
      OBVIOUS
    <2>5. c \in Calls /\ c.left = call[p].left /\ c.ago = call[p].ago
      BY <2>1, <2>3, <2>4 DEF Calls
    <2>6. call' = [call EXCEPT ![p] = c] /\ key' = e.key /\ UNCHANGED <<locked, hold, late, dead>>
      BY <1>3, <2>2, <2>4 DEF Execute
    <2>7. call' \in [Holders -> Calls \cup {Idle}] /\ TimeOK'
      BY <1>1, <2>1, <2>5, <2>6
    <2> QED BY <2>3, <2>6, <2>7 DEF TypeOK
  <1>4. ASSUME NEW p \in Holders, Resend(p) PROVE TypeOK' /\ TimeOK'
    <2>1. call[p] \in Calls /\ call[p].left + call[p].ago <= Timeout
      BY <1>4, CallTypes DEF Resend, TimeOK
    <2>2. PICK c : c = [call[p] EXCEPT !.st = "sent", !.answer = "none"]
      OBVIOUS
    <2>3. c \in Calls /\ c.left = call[p].left /\ c.ago = call[p].ago
      BY <2>1, <2>2 DEF Calls
    <2>4. call' \in [Holders -> Calls \cup {Idle}] /\ TimeOK'
      BY <1>1, <1>4, <2>1, <2>2, <2>3 DEF Resend
    <2> QED BY <1>4, <2>4 DEF TypeOK, Resend
  <1>5. ASSUME NEW p \in Holders, Return(p) PROVE TypeOK' /\ TimeOK'
    <2>1. call[p] \in Calls /\ call[p].left + call[p].ago <= Timeout
      BY <1>5, CallTypes DEF Return, TimeOK
    <2>2. PICK c : c = IF call[p].op = "Lock" /\ call[p].answer # "yes" THEN Wait(call[p]) ELSE Idle
      OBVIOUS
    <2>3. c \in Calls \cup {Idle} /\ (c.st # "idle" => c.left + c.ago <= Timeout)
      <3>1. call[p].left \in 0..Timeout /\ call[p].ago \in 0..Timeout
        BY <2>1 DEF Calls
      <3> QED BY <1>0, <2>1, <2>2, <3>1, WaitTypes DEF Idle
    <2>4. call' = [call EXCEPT ![p] = c]
      BY <1>5, <2>2 DEF Return
    <2>5. call' \in [Holders -> Calls \cup {Idle}] /\ TimeOK'
      BY <1>1, <2>3, <2>4
    <2>6. Granted(p) \in Ticks /\ 0 \in Ticks
      BY <2>1, GrantedTypes DEF Ticks
    <2>7. hold' \in [Holders -> Ticks]
      BY <1>5, <2>6 DEF Return, TypeOK
    <2>8. locked' \in [Holders -> BOOLEAN]
      BY <1>5 DEF Return, TypeOK
    <2> QED BY <1>5, <2>5, <2>7, <2>8 DEF Return, TypeOK
  <1>6. ASSUME NEW p \in Holders, Fail(p) PROVE TypeOK' /\ TimeOK'
    <2>1. call[p] \in Calls /\ call[p].left + call[p].ago <= Timeout
      BY <1>6, CallTypes DEF Fail, TimeOK
    <2>2. PICK c : c = IF call[p].op = "Lock" THEN Wait(call[p]) ELSE Idle
      OBVIOUS
    <2>3. c \in Calls \cup {Idle} /\ (c.st # "idle" => c.left + c.ago <= Timeout)
      <3>1. call[p].left \in 0..Timeout /\ call[p].ago \in 0..Timeout
        BY <2>1 DEF Calls
      <3> QED BY <1>0, <2>1, <2>2, <3>1, WaitTypes DEF Idle
    <2>4. call' = [call EXCEPT ![p] = c] /\ late' \subseteq Requests /\ UNCHANGED <<key, locked, hold, dead>>
      BY <1>6, <2>2, AbandonTypes DEF Fail
    <2> QED BY <1>1, <2>3, <2>4 DEF TypeOK
  <1>7. ASSUME NEW p \in Holders, Retry(p) PROVE TypeOK' /\ TimeOK'
    <2>1. call[p] \in Calls /\ call[p].left + call[p].ago <= Timeout
      BY <1>7, CallTypes DEF Retry, TimeOK
    <2>2. PICK c : c = [call[p] EXCEPT !.st = "sent"]
      OBVIOUS
    <2>3. c \in Calls /\ c.left = call[p].left /\ c.ago = call[p].ago
      BY <2>1, <2>2 DEF Calls
    <2>4. call' \in [Holders -> Calls \cup {Idle}] /\ TimeOK'
      BY <1>1, <1>7, <2>1, <2>2, <2>3 DEF Retry
    <2> QED BY <1>7, <2>4 DEF TypeOK, Retry
  <1>8. ASSUME NEW p \in Holders, call' = [call EXCEPT ![p] = Idle]
        PROVE  call' \in [Holders -> Calls \cup {Idle}] /\ TimeOK'
    BY <1>1, <1>8 DEF Idle
  <1>9. ASSUME NEW p \in Holders, GiveUp(p) PROVE TypeOK' /\ TimeOK'
    BY <1>8, <1>9 DEF GiveUp, TypeOK
  <1>10. ASSUME NEW p \in Holders, Crash(p) PROVE TypeOK' /\ TimeOK'
    <2>1. call' \in [Holders -> Calls \cup {Idle}] /\ TimeOK' /\ late' \subseteq Requests
      BY <1>8, <1>10, AbandonTypes DEF Crash
    <2>2. hold' \in [Holders -> Ticks] /\ locked' \in [Holders -> BOOLEAN]
      BY <1>10 DEF Crash, TypeOK, Ticks
    <2> QED BY <1>10, <2>1, <2>2 DEF Crash, TypeOK
  <1>11. ASSUME NEW q \in late, ExecuteLate(q) \/ LoseLate(q) PROVE TypeOK' /\ TimeOK'
    <2>1. q.by \in Holders /\ q.cmd \in {"setnx", "Unlock", "Refresh"}
      BY DEF TypeOK, Requests
    <2>2. CASE ExecuteLate(q)
      <3>1. key' \in [owner : Holders, pttl : Ticks] \cup {Free}
        BY <2>1, <2>2, RunTypes DEF ExecuteLate, TypeOK
      <3> QED BY <2>2, <3>1 DEF ExecuteLate, TypeOK, TimeOK
    <2>3. CASE LoseLate(q)
      BY <2>3 DEF LoseLate, TypeOK, TimeOK
    <2> QED BY <1>11, <2>2, <2>3
  <1>12. CASE Tick
    <2>1. ASSUME NEW p \in Holders
          PROVE  /\ call'[p] \in Calls \cup {Idle}
                 /\ call'[p].st # "idle" => call'[p].left + call'[p].ago <= Timeout
                 /\ hold'[p] \in Ticks
      <3>1. call'[p] = [call[p] EXCEPT !.left = CountDown(call[p].left),
                          !.ago = IF call[p].st \in {"sent", "replied"} THEN call[p].ago + 1 ELSE 0]
            /\ hold'[p] = CountDown(hold[p]) /\ (call[p].st # "idle" => call[p].left > 0)
        BY <1>12 DEF Tick
      <3>2. hold'[p] \in Ticks
        BY <3>1 DEF TypeOK, CountDown, Ticks, Persist
      <3>3. CASE call[p] = Idle
        <4>1. CountDown(Idle.left) = 0 /\ Idle.st = "idle"
          BY DEF Idle, CountDown
        <4>2. call'[p] = [Idle EXCEPT !.left = 0, !.ago = 0]
          BY <3>1, <3>3, <4>1
        <4>3. call'[p] = Idle
          BY <4>2 DEF Idle
        <4> QED BY <3>2, <4>1, <4>3
      <3>4. CASE call[p] # Idle
        <4>1. call[p] \in Calls
          BY <3>4 DEF TypeOK
        <4>2. call[p].st # "idle" /\ call[p].left \in 0..Timeout /\ call[p].ago \in 0..Timeout
          BY <4>1 DEF Calls
        <4>3. call[p].left > 0 /\ call[p].left + call[p].ago <= Timeout
          BY <3>1, <4>2 DEF TimeOK
        <4>4. PICK l, g : /\ l = call[p].left - 1
                          /\ g = IF call[p].st \in {"sent", "replied"} THEN call[p].ago + 1 ELSE 0
          OBVIOUS
        <4>5. l \in 0..Timeout /\ g \in 0..Timeout /\ l + g <= Timeout
          BY <4>2, <4>3, <4>4, <1>0
        <4>6. call'[p] = [call[p] EXCEPT !.left = l, !.ago = g]
          BY <3>1, <4>3, <4>4 DEF CountDown
        <4>7. call'[p] \in Calls /\ call'[p].left = l /\ call'[p].ago = g
          BY <4>1, <4>5, <4>6 DEF Calls
        <4> QED BY <3>2, <4>5, <4>7
      <3> QED BY <3>3, <3>4
    <2>2. call' \in [Holders -> Calls \cup {Idle}] /\ hold' \in [Holders -> Ticks]
      BY <1>12, <2>1 DEF Tick
    <2>3. key' \in [owner : Holders, pttl : Ticks] \cup {Free}
      <3>1. key \in [owner : Holders, pttl : Ticks] \cup {Free}
        BY DEF TypeOK
      <3>2. CASE key.pttl = Persist \/ key.pttl = 0
        BY <1>12, <3>1, <3>2 DEF Tick
      <3>3. CASE key.pttl # Persist /\ key.pttl # 0
        <4>1. key \in [owner : Holders, pttl : Ticks]
          BY <3>1, <3>3 DEF Free
        <4>2. key.pttl - 1 \in Ticks
          BY <3>3, <4>1 DEF Ticks, Persist
        <4>3. key' = [key EXCEPT !.pttl = key.pttl - 1]
          BY <1>12, <3>3 DEF Tick
        <4> QED BY <4>1, <4>2, <4>3
      <3> QED BY <3>2, <3>3
    <2> QED BY <1>12, <2>1, <2>2, <2>3 DEF Tick, TypeOK, TimeOK
  <1>13. CASE UNCHANGED vars
    BY <1>13 DEF vars, TypeOK, TimeOK
  <1> QED BY <1>2, <1>3, <1>4, <1>5, <1>6, <1>7, <1>9, <1>10, <1>11, <1>12, <1>13 DEF Next, Step

\* The state of the lock is well typed, with any Expiry.
THEOREM LockTypeCorrect == Spec => []TypeOK
  <1>1. Init => TypeOK /\ TimeOK
    BY TypeInit DEF Init, TimeOK, Idle
  <1> QED BY <1>1, TypeStep, PTL DEF Spec

-----------------------------------------------------------------------------
(* From here on the lock has an expiry.                                        *)

KeyInv == key.owner # NoHolder => key.pttl \in 0..Expiry

\* A command takes the key from nobody but its own instance, and only Unlock does;
\* a command other than Unlock that succeeds leaves the key with the full expiry.
LEMMA RunKeeps ==
    ASSUME Expiry > 0, KeyInv, NEW p \in Holders, NEW q \in Holders,
           NEW cmd \in {"setnx", "Unlock", "Refresh"},
           NEW e, e = Run(key, cmd, q)
    PROVE  /\ e.key.owner # NoHolder => e.key.pttl \in 0..Expiry
           /\ key.owner = p /\ (cmd = "Unlock" => p # q) =>
                 e.key.owner = p /\ e.key.pttl >= key.pttl
           /\ cmd # "Unlock" /\ e.answer = "yes" => e.key.owner = q /\ e.key.pttl = Expiry
  <1>1. Expiry \in Nat /\ NoHolder \notin Holders
    BY DLockAssumption
  <1>2. CASE cmd = "setnx"
    BY <1>1, <1>2 DEF Run, SetNX, Effect, KeyInv
  <1>3. CASE cmd = "Unlock"
    BY <1>1, <1>3 DEF Run, unlockScript, Effect, KeyInv, Free
  <1>4. CASE cmd = "Refresh"
    BY <1>1, <1>4 DEF Run, refreshScript, Effect, KeyInv
  <1> QED BY <1>2, <1>3, <1>4


LEMMA LockTypes ==
    ASSUME LockInv, [Next]_vars
    PROVE  TypeOK /\ TypeOK' /\ TimeOK'
  <1>1. TypeOK /\ TimeOK
    BY DEF LockInv, HolderInv, TimeOK
  <1> QED BY <1>1, TypeStep

\* What a step has to show of an instance it does not touch.
LEMMA Untouched ==
    ASSUME LockInv, NEW p \in Holders, call'[p] = call[p], hold'[p] = hold[p],
           unlockOf(p) \in late' => unlockOf(p) \in late,
           \A t \in Ticks : Backed(p, t) => (t # 0 => key'.owner = p /\ key'.pttl >= t)
    PROVE  HolderInv(p)'
  <1>1. HolderInv(p) /\ TypeOK
    BY DEF LockInv
  <1>2. Answered(p)' = Answered(p)
    BY DEF Answered, Granted
  <1>3. hold[p] \in Ticks /\ Answered(p) \in Ticks
    <2>1. call[p].st = "replied" => Granted(p) \in Ticks
      BY <1>1, CallTypes, GrantedTypes
    <2> QED BY <1>1, <2>1 DEF TypeOK, Answered, Ticks
  <1>4. ASSUME NEW t \in Ticks, Backed(p, t) PROVE t # 0 => /\ key'.owner = p
                                                            /\ unlockOf(p)' \notin late'
                                                            /\ t > 0 /\ t <= key'.pttl
    BY <1>4 DEF Backed, unlockOf, Ticks, Persist
  <1>5. Backed(p, hold[p])' /\ Backed(p, Answered(p))'
    BY <1>1, <1>2, <1>3, <1>4 DEF HolderInv, Backed
  <1> QED BY <1>1, <1>5 DEF HolderInv, unlockOf

LEMMA LockStep ==
    ASSUME Expiry > 0
    PROVE  LockInv /\ [Next]_vars => LockInv'
  <1> SUFFICES ASSUME LockInv, [Next]_vars PROVE LockInv'
    OBVIOUS
  <1>1. TypeOK /\ TypeOK' /\ TimeOK' /\ KeyInv /\ \A p \in Holders : HolderInv(p)
    BY LockTypes DEF LockInv, KeyInv
  <1>2. Expiry \in Nat /\ Timeout \in Nat /\ NoHolder \notin Holders
    BY DLockAssumption
  <1>3. ASSUME KeyInv', \A p \in Holders : HolderInv(p)' PROVE LockInv'
    BY <1>1, <1>3 DEF LockInv, KeyInv
  <1>4. ASSUME UNCHANGED key, NEW p \in Holders,
               \A q \in Holders : q # p => /\ call'[q] = call[q] /\ hold'[q] = hold[q]
                                           /\ unlockOf(q) \in late' => unlockOf(q) \in late,
               HolderInv(p)'
        PROVE  LockInv'
    <2>1. ASSUME NEW q \in Holders, q # p PROVE HolderInv(q)'
      <3>1. \A t \in Ticks : Backed(q, t) => (t # 0 => key'.owner = q /\ key'.pttl >= t)
        BY <1>1, <1>2, <1>4 DEF Backed, Ticks, Persist, KeyInv
      <3> QED BY <1>4, <2>1, <3>1, Untouched
    <2>2. KeyInv'
      BY <1>1, <1>4 DEF KeyInv
    <2> QED BY <1>3, <1>4, <2>1, <2>2
  <1>5. ASSUME NEW p \in Holders, Use(p) PROVE LockInv'
    <2>1. PICK op \in {"TryLock", "Lock", "Unlock", "Refresh"} :
              Begin(p, op) /\ (op = "Unlock" => hold'[p] = 0) /\ (hold'[p] = hold[p] \/ hold'[p] = 0)
              /\ \A q \in Holders : q # p => hold'[q] = hold[q]
      BY <1>1, <1>5 DEF Use, TryLock, Lock, Unlock, Refresh, TypeOK
    <2>2. UNCHANGED <<key, late>> /\ \A q \in Holders : q # p => call'[q] = call[q]
      BY <1>1, <2>1 DEF Begin, TypeOK
    <2>3. /\ call'[p].st = "sent" /\ call'[p].op = op
          /\ call'[p].clear => unlockOf(p) \notin late
      BY <1>1, <2>1 DEF Begin, TypeOK
    <2>4. Answered(p)' = 0
      BY <2>3 DEF Answered
    <2>5. HolderInv(p)'
      BY <1>1, <2>1, <2>2, <2>3, <2>4 DEF HolderInv, Backed, unlockOf, TimeOK
    <2> QED BY <1>4, <2>1, <2>2, <2>5
  <1>6. ASSUME NEW p \in Holders, Execute(p) PROVE LockInv'
    <2>1. call[p] \in Calls /\ call[p].st = "sent"
      BY <1>1, <1>6, CallTypes DEF Execute
    <2>2. PICK cmd \in {"setnx", "Unlock", "Refresh"} :
              cmd = Command(call[p].op) /\ (cmd = "Unlock" <=> call[p].op = "Unlock")
      BY <2>1 DEF Command, Calls
    <2>3. PICK e : e = Run(key, cmd, p)
      OBVIOUS
    <2>4. /\ key' = e.key /\ UNCHANGED <<hold, late>>
          /\ call' = [call EXCEPT ![p] = [call[p] EXCEPT !.st = "replied", !.answer = e.answer]]
      BY <1>6, <2>2, <2>3 DEF Execute
    <2>5. KeyInv'
      BY <1>1, <2>2, <2>3, <2>4, RunKeeps DEF KeyInv
    <2>6. ASSUME NEW q \in Holders, NEW t \in Ticks, Backed(q, t), cmd = "Unlock" => q # p, t # 0
          PROVE  key'.owner = q /\ key'.pttl >= t
      <3>1. key.owner = q /\ t > 0 /\ t <= key.pttl /\ key.pttl \in 0..Expiry
        BY <1>1, <1>2, <2>6 DEF Backed, KeyInv
      <3>2. key'.owner = q /\ key'.pttl >= key.pttl
        BY <1>1, <2>2, <2>3, <2>4, <2>6, <3>1, RunKeeps
      <3>3. key'.pttl \in 0..Expiry /\ t \in Int
        BY <1>2, <2>5, <3>2 DEF KeyInv, Ticks, Persist
      <3> QED BY <1>2, <3>1, <3>2, <3>3
    <2>7. ASSUME NEW q \in Holders, q # p PROVE HolderInv(q)'
      <3>1. call'[q] = call[q] /\ hold'[q] = hold[q]
        BY <1>1, <2>4, <2>7 DEF TypeOK
      <3> QED BY <2>4, <2>6, <2>7, <3>1, Untouched
    <2>8. /\ call'[p].op = call[p].op /\ call'[p].clear = call[p].clear
          /\ call'[p].ago = call[p].ago /\ call'[p].answer = e.answer
      BY <1>1, <2>1, <2>4 DEF TypeOK, Calls
    <2>9. Backed(p, hold[p])'
      <3>1. hold[p] \in Ticks /\ Backed(p, hold[p]) /\ (cmd = "Unlock" => hold[p] = 0)
        BY <1>1, <2>2 DEF TypeOK, HolderInv
      <3>2. hold[p] # 0 => key'.owner = p /\ key'.pttl >= hold[p] /\ key'.pttl \in Int
        BY <1>2, <2>5, <2>6, <3>1 DEF KeyInv
      <3> QED BY <2>4, <3>1, <3>2 DEF Backed, unlockOf, Ticks, Persist
    <2>10. Backed(p, Answered(p))'
      <3>1. SUFFICES ASSUME Answered(p)' # 0 PROVE Backed(p, Answered(p))'
        BY DEF Backed
      <3>2. /\ e.answer = "yes" /\ cmd # "Unlock" /\ call[p].clear /\ Expiry > call[p].ago
            /\ Answered(p)' = Expiry - call[p].ago
        BY <1>2, <2>2, <2>8, <3>1 DEF Answered, Granted
      <3>3. key'.owner = p /\ key'.pttl = Expiry
        BY <1>1, <2>2, <2>3, <2>4, <3>2, RunKeeps
      <3>4. unlockOf(p) \notin late
        BY <1>1, <3>2 DEF HolderInv
      <3>5. call[p].ago \in 0..Timeout
        BY <2>1 DEF Calls
      <3> QED BY <1>2, <2>4, <3>2, <3>3, <3>4, <3>5 DEF Backed, unlockOf
    <2>11. HolderInv(p)'
      BY <1>1, <2>4, <2>8, <2>9, <2>10 DEF HolderInv, unlockOf, TimeOK
    <2> QED BY <1>3, <2>5, <2>7, <2>11
  <1>7. ASSUME NEW p \in Holders, UNCHANGED key, hold'[p] = 0 \/ hold'[p] = hold[p],
               call'[p].st # "replied", call'[p].clear => unlockOf(p) \notin late',
               call'[p].op = "Unlock" => hold'[p] = 0,
               hold'[p] # 0 => unlockOf(p) \notin late'
        PROVE  HolderInv(p)'
    <2>1. Answered(p)' = 0
      BY <1>7 DEF Answered
    <2> QED BY <1>1, <1>7, <2>1 DEF HolderInv, Backed, unlockOf, TimeOK
  <1>8. ASSUME NEW p \in Holders, Resend(p) PROVE LockInv'
    <2>1. call[p] \in Calls /\ HolderInv(p)
      BY <1>1, <1>8, CallTypes DEF Resend
    <2>2. /\ call'[p].st = "sent" /\ call'[p].op = call[p].op /\ call'[p].clear = call[p].clear
          /\ UNCHANGED <<key, hold, late>>
          /\ \A q \in Holders : q # p => call'[q] = call[q]
      BY <1>1, <1>8, <2>1 DEF Resend, TypeOK, Calls
    <2>3. HolderInv(p)'
      BY <1>7, <2>1, <2>2 DEF HolderInv, Backed
    <2> QED BY <1>4, <2>2, <2>3
  <1>9. ASSUME NEW p \in Holders, Return(p) PROVE LockInv'
    <2>1. call[p] \in Calls /\ HolderInv(p) /\ call[p].st = "replied"
      BY <1>1, <1>9, CallTypes DEF Return
    <2>2. /\ UNCHANGED <<key, late>>
          /\ \A q \in Holders : q # p => call'[q] = call[q] /\ hold'[q] = hold[q]
      BY <1>1, <1>9 DEF Return, TypeOK
    <2>3. /\ call'[p].st # "replied" /\ call'[p].op # "Unlock"
          /\ call'[p].clear => call[p].clear
      <3>1. call'[p] = IF call[p].op = "Lock" /\ call[p].answer # "yes" THEN Wait(call[p]) ELSE Idle
        BY <1>1, <1>9 DEF Return, TypeOK
      <3> QED BY <2>1, <3>1, WaitTypes DEF Idle
    <2>5. Backed(p, hold[p])'
      <3>1. hold'[p] = Answered(p) \/ hold'[p] = 0 \/ hold'[p] = hold[p]
        BY <1>1, <1>9 DEF Return, TypeOK, Answered
      <3> QED BY <2>1, <2>2, <3>1 DEF HolderInv, Backed, unlockOf
    <2>6. Answered(p)' = 0
      BY <2>3 DEF Answered
    <2>7. HolderInv(p)'
      BY <1>1, <2>1, <2>2, <2>3, <2>5, <2>6 DEF HolderInv, Backed, unlockOf, TimeOK
    <2> QED BY <1>4, <2>2, <2>7
  <1>10. ASSUME NEW p \in Holders, Abandon(p)
         PROVE  /\ \A q \in Holders : q # p => (unlockOf(q) \in late' => unlockOf(q) \in late)
                /\ unlockOf(p) \in late' => unlockOf(p) \in late \/ call[p].op = "Unlock"
    <2>1. call[p].st = "sent" => (Command(call[p].op) = "Unlock" => call[p].op = "Unlock")
      BY DEF Command
    <2> QED BY <1>10, <2>1 DEF Abandon, unlockOf
  <1>11. ASSUME NEW p \in Holders, Fail(p) PROVE LockInv'
    <2>1. call[p] \in Calls /\ HolderInv(p)
      BY <1>1, <1>11, CallTypes DEF Fail
    <2>2. /\ UNCHANGED <<key, hold>> /\ Abandon(p)
          /\ call'[p] = IF call[p].op = "Lock" THEN Wait(call[p]) ELSE Idle
          /\ \A q \in Holders : q # p => call'[q] = call[q]
      BY <1>1, <1>11 DEF Fail, TypeOK
    <2>3. /\ call'[p].st # "replied" /\ call'[p].op # "Unlock"
          /\ call'[p].clear => call[p].clear /\ call[p].op = "Lock"
      BY <2>1, <2>2, WaitTypes DEF Idle
    <2>4. HolderInv(p)'
      BY <1>7, <1>10, <2>1, <2>2, <2>3 DEF HolderInv, Backed
    <2> QED BY <1>4, <1>10, <2>2, <2>4
  <1>12. ASSUME NEW p \in Holders, Retry(p) \/ GiveUp(p) PROVE LockInv'
    <2>1. call[p] \in Calls /\ HolderInv(p)
      BY <1>1, <1>12, CallTypes DEF Retry, GiveUp
    <2>2. /\ UNCHANGED <<key, hold, late>>
          /\ \A q \in Holders : q # p => call'[q] = call[q]
          /\ call'[p].st # "replied" /\ (call'[p].op = "Unlock" => call[p].op = "Unlock")
          /\ call'[p].clear => call[p].clear
      <3>1. CASE Retry(p)
        BY <1>1, <2>1, <3>1 DEF Retry, TypeOK, Calls
      <3>2. CASE GiveUp(p)
        BY <1>1, <2>1, <3>2 DEF GiveUp, TypeOK, Idle
      <3> QED BY <1>12, <3>1, <3>2
    <2>3. HolderInv(p)'
      BY <1>7, <2>1, <2>2 DEF HolderInv, Backed
    <2> QED BY <1>4, <2>2, <2>3
  <1>13. ASSUME NEW p \in Holders, Crash(p) PROVE LockInv'
    <2>1. /\ UNCHANGED key /\ Abandon(p) /\ hold'[p] = 0 /\ call'[p] = Idle
          /\ \A q \in Holders : q # p => call'[q] = call[q] /\ hold'[q] = hold[q]
      BY <1>1, <1>13 DEF Crash, TypeOK
    <2>2. HolderInv(p)'
      BY <1>7, <2>1 DEF Idle
    <2> QED BY <1>4, <1>10, <2>1, <2>2
  <1>14. ASSUME NEW q \in late, ExecuteLate(q) PROVE LockInv'
    <2>1. q \in Requests /\ UNCHANGED <<call, hold, late>> /\ key' = Run(key, q.cmd, q.by).key
      BY <1>1, <1>14 DEF ExecuteLate, TypeOK
    <2>2. q.by \in Holders /\ q.cmd \in {"setnx", "Unlock", "Refresh"}
          /\ (q.cmd = "Unlock" => q = unlockOf(q.by))
      BY <2>1 DEF Requests, unlockOf
    <2>3. KeyInv'
      BY <1>1, <2>1, <2>2, RunKeeps DEF KeyInv
    <2>4. ASSUME NEW p \in Holders, NEW t \in Ticks, Backed(p, t), t # 0
          PROVE  key'.owner = p /\ key'.pttl >= t
      <3>1. key.owner = p /\ t > 0 /\ t <= key.pttl /\ key.pttl \in 0..Expiry
            /\ unlockOf(p) \notin late
        BY <1>1, <1>2, <2>4 DEF Backed, KeyInv
      <3>2. q.cmd = "Unlock" => p # q.by
        BY <2>2, <3>1
      <3>3. key'.owner = p /\ key'.pttl >= key.pttl
        BY <1>1, <2>1, <2>2, <3>1, <3>2, RunKeeps
      <3>4. key'.pttl \in 0..Expiry /\ t \in Int
        BY <1>2, <2>3, <3>3 DEF KeyInv, Ticks, Persist
      <3> QED BY <1>2, <3>1, <3>3, <3>4
    <2>5. \A p \in Holders : HolderInv(p)'
      BY <2>1, <2>4, Untouched
    <2> QED BY <1>3, <2>3, <2>5
  <1>15. ASSUME NEW q \in late, LoseLate(q) PROVE LockInv'
    <2>1. UNCHANGED <<key, call, hold>> /\ late' \subseteq late
      BY <1>15 DEF LoseLate
    <2>2. KeyInv'
      BY <1>1, <2>1 DEF KeyInv
    <2>3. \A p \in Holders, t \in Ticks : Backed(p, t) => (t # 0 => key'.owner = p /\ key'.pttl >= t)
      BY <1>1, <1>2, <2>1 DEF Backed, Ticks, Persist, KeyInv
    <2>4. \A p \in Holders : HolderInv(p)'
      BY <2>1, <2>3, Untouched
    <2> QED BY <1>3, <2>2, <2>4
  <1>16. CASE UNCHANGED vars
    <2>1. KeyInv'
      BY <1>1, <1>16 DEF KeyInv, vars
    <2>2. \A p \in Holders, t \in Ticks : Backed(p, t) => (t # 0 => key'.owner = p /\ key'.pttl >= t)
      BY <1>1, <1>2, <1>16 DEF vars, Backed, Ticks, Persist, KeyInv
    <2>3. \A p \in Holders : HolderInv(p)'
      BY <1>16, <2>2, Untouched DEF vars
    <2> QED BY <1>3, <2>1, <2>3
  <1>17. CASE Tick
    <2>1. KeyInv'
      <3>1. CASE key.pttl = 0 \/ key.pttl = Persist
        BY <1>1, <1>17, <3>1 DEF Tick, KeyInv, Free, Persist
      <3>2. CASE key.pttl # 0 /\ key.pttl # Persist
        <4>1. key.owner # NoHolder /\ key \in [owner : Holders, pttl : Ticks]
          BY <1>1, <1>2, <3>2 DEF TypeOK, Free
        <4>2. key' = [key EXCEPT !.pttl = key.pttl - 1]
          BY <1>17, <3>2 DEF Tick
        <4> QED BY <1>1, <1>2, <3>2, <4>1, <4>2 DEF KeyInv
      <3> QED BY <3>1, <3>2
    <2>2. ASSUME NEW p \in Holders, NEW t \in Ticks, Backed(p, t), t > 1
          PROVE  key'.owner = p /\ key'.pttl >= t - 1 /\ unlockOf(p) \notin late'
      <3>1. /\ key.owner = p /\ t <= key.pttl /\ key.pttl \in 0..Expiry /\ t \in Int
            /\ unlockOf(p) \notin late
        BY <1>1, <1>2, <2>2 DEF Backed, KeyInv, Ticks, Persist
      <3>2. key.pttl > 0 /\ key.pttl # 0 /\ key.pttl # Persist
        BY <1>2, <2>2, <3>1 DEF Persist
      <3>3. key' = [key EXCEPT !.pttl = key.pttl - 1] /\ late' = late
        BY <1>17, <3>2 DEF Tick
      <3>4. key \in [owner : Holders, pttl : Ticks]
        BY <1>1, <1>2, <3>1 DEF TypeOK, Free
      <3> QED BY <1>2, <3>1, <3>3, <3>4 DEF unlockOf
    <2>3. ASSUME NEW p \in Holders, NEW t \in Ticks, Backed(p, t),
                 NEW u \in Int, u = 0 \/ (u = t - 1 /\ t > 0)
          PROVE  u # 0 => /\ key'.owner = p /\ unlockOf(p)' \notin late' /\ u > 0 /\ u <= key'.pttl
      <3>1. CASE t > 1
        <4>1. key'.pttl \in Int
          BY <1>2, <2>1, <2>2, <2>3, <3>1 DEF KeyInv
        <4> QED BY <2>2, <2>3, <3>1, <4>1 DEF unlockOf, Ticks, Persist
      <3>2. CASE ~(t > 1)
        BY <2>3, <3>2 DEF Ticks, Persist
      <3> QED BY <3>1, <3>2
    <2>4. ASSUME NEW p \in Holders PROVE HolderInv(p)'
      <3>1. call'[p] = [call[p] EXCEPT !.left = CountDown(call[p].left),
                          !.ago = IF call[p].st \in {"sent", "replied"} THEN call[p].ago + 1 ELSE 0]
            /\ hold'[p] = CountDown(hold[p]) /\ late' = late
        BY <1>17 DEF Tick
      <3>2. HolderInv(p) /\ hold[p] \in Ticks
        BY <1>1 DEF TypeOK
      <3>3. /\ call'[p].op = call[p].op /\ call'[p].clear = call[p].clear
            /\ call'[p].st = call[p].st /\ call'[p].answer = call[p].answer
            /\ call[p].st = "replied" => call'[p].ago = call[p].ago + 1
        BY <1>1, <3>1 DEF TypeOK, Calls, Idle
      <3>4. Backed(p, hold[p])'
        <4>1. hold[p] # Persist
          BY <3>2 DEF HolderInv, Backed, Persist
        <4>2. hold'[p] \in Int /\ (hold'[p] = 0 \/ (hold'[p] = hold[p] - 1 /\ hold[p] > 0))
          BY <3>1, <3>2, <4>1 DEF CountDown, Ticks, Persist
        <4>3. hold'[p] # 0 => /\ key'.owner = p /\ unlockOf(p)' \notin late'
                              /\ hold'[p] > 0 /\ hold'[p] <= key'.pttl
          BY <2>3, <3>2, <4>2 DEF HolderInv
        <4> QED BY <4>3 DEF Backed
      <3>5. Backed(p, Answered(p))'
        <4>1. SUFFICES ASSUME Answered(p)' # 0 PROVE Backed(p, Answered(p))'
          BY DEF Backed
        <4>2. call[p].st = "replied" /\ call[p] \in Calls
          BY <1>1, <3>3, <4>1, CallTypes DEF Answered
        <4>3. call[p].ago \in Int
          BY <4>2 DEF Calls
        <4>4. /\ Answered(p)' = Expiry - (call[p].ago + 1) /\ Expiry > call[p].ago + 1
              /\ Answered(p) = Expiry - call[p].ago
          BY <1>2, <3>3, <4>1, <4>2, <4>3 DEF Answered, Granted
        <4>5. PICK t \in Ticks : t = Answered(p) /\ Backed(p, t)
          BY <1>2, <3>2, <4>3, <4>4 DEF HolderInv, Ticks
        <4>6. Answered(p)' \in Int /\ Answered(p)' = t - 1 /\ t > 0
          BY <1>2, <4>3, <4>4, <4>5
        <4>7. /\ key'.owner = p /\ unlockOf(p)' \notin late'
              /\ Answered(p)' > 0 /\ Answered(p)' <= key'.pttl
          BY <2>3, <4>1, <4>5, <4>6
        <4> QED BY <4>7 DEF Backed
      <3>6. hold[p] = 0 => hold'[p] = 0
        BY <3>1 DEF CountDown
      <3> QED BY <1>1, <3>1, <3>2, <3>3, <3>4, <3>5, <3>6 DEF HolderInv, unlockOf, TimeOK
    <2> QED BY <1>3, <2>1, <2>4
  <1> QED BY <1>5, <1>6, <1>8, <1>9, <1>11, <1>12, <1>13, <1>14, <1>15, <1>16, <1>17 DEF Next, Step

LEMMA LockInit == Init => LockInv
  <1> SUFFICES ASSUME Init PROVE LockInv
    OBVIOUS
  <1>1. TypeOK
    BY TypeInit
  <1>2. key.owner = NoHolder
    BY DEF Init, Free
  <1>3. ASSUME NEW p \in Holders PROVE HolderInv(p)
    <2>1. call[p] = Idle /\ hold[p] = 0 /\ late = {}
      BY DEF Init
    <2>2. Answered(p) = 0
      BY <2>1 DEF Answered, Idle
    <2> QED BY <2>1, <2>2 DEF HolderInv, Backed, Idle
  <1> QED BY <1>1, <1>2, <1>3 DEF LockInv

LEMMA LockInvImplies == LockInv => HolderOwnsKey
  BY DEF LockInv, HolderInv, Backed, HolderOwnsKey

\* The inductive invariant of the lock: what an instance relies on is backed by the key,
\* and no command under way or abandoned can take it away.
THEOREM LockInvariant ==
    ASSUME Expiry > 0 PROVE Spec => []LockInv
  BY LockInit, LockStep, PTL DEF Spec

\* Whoever may rely on the lock has the key, for every number of instances and
\* every expiry that is not zero.
THEOREM LockHolderOwnsKey ==
    ASSUME Expiry > 0 PROVE Spec => []HolderOwnsKey
  BY LockInvariant, LockInvImplies, PTL

\* A step grants the lock to one instance and then takes it from nobody else.
LEMMA OneGrant ==
    ASSUME LockInv, [Next]_vars, NEW p \in Holders, NEW q \in Holders, p # q
    PROVE  hold'[q] = hold[q] \/ hold'[q] = 0 \/ hold'[p] = hold[p]
  <1>1. hold \in [Holders -> Ticks]
    BY DEF LockInv, TypeOK
  <1>2. CASE UNCHANGED vars
    BY <1>2 DEF vars
  <1>3. ASSUME NEW r \in Holders, Use(r) PROVE hold'[q] = hold[q] \/ hold'[q] = 0
    BY <1>1, <1>3 DEF Use, TryLock, Lock, Unlock, Refresh
  <1>4. ASSUME NEW r \in Holders, Return(r) PROVE hold'[q] = hold[q] \/ hold'[p] = hold[p]
    BY <1>1, <1>4 DEF Return
  <1>5. ASSUME NEW r \in Holders, Step(r), ~Return(r) PROVE hold'[q] = hold[q] \/ hold'[q] = 0
    BY <1>1, <1>5 DEF Step, Execute, Resend, Fail, Retry, GiveUp, Crash
  <1>6. ASSUME NEW r \in late, ExecuteLate(r) \/ LoseLate(r) PROVE hold' = hold
    BY <1>6 DEF ExecuteLate, LoseLate
  <1>7. CASE Tick
    <2>1. hold'[q] = CountDown(hold[q]) /\ hold'[p] = CountDown(hold[p])
      BY <1>7 DEF Tick
    <2>2. CASE hold[q] = 0
      BY <2>1, <2>2 DEF CountDown
    <2>3. CASE hold[q] # 0
      <3>1. hold[p] = 0
        BY <2>3, LockInvImplies DEF HolderOwnsKey
      <3> QED BY <2>1, <3>1 DEF CountDown
    <2> QED BY <2>2, <2>3
  <1> QED BY <1>2, <1>3, <1>4, <1>5, <1>6, <1>7 DEF Next

\* The lock implements exclusive ownership: its holder changes only through nobody.
THEOREM LockImplementsOwnership ==
    ASSUME Expiry > 0 PROVE Spec => ImplementsOwnership
  <1>1. ASSUME LockInv, NEW p \in Holders, hold[p] # 0 PROVE lockOwner = p
    BY <1>1, LockInvImplies DEF lockOwner, HolderOwnsKey
  <1>2. lockOwner # NoHolder => lockOwner \in Holders /\ hold[lockOwner] # 0
    BY DEF lockOwner
  <1>3. Init => Abstract!Init
    BY DEF Init, Abstract!Init, lockOwner
  <1>4. ASSUME LockInv, LockInv', [Next]_vars PROVE [Abstract!Next]_([r \in {"key"} |-> lockOwner])
    <2>1. CASE lockOwner' = lockOwner
      BY <2>1
    <2>2. CASE lockOwner' = NoHolder
      <3>1. [r \in {"key"} |-> lockOwner'] =
            [r \in {"key"} |-> IF r \in {"key"} THEN NoHolder ELSE [s \in {"key"} |-> lockOwner][r]]
        BY <2>2
      <3>2. Abstract!Release({"key"})
        BY <3>1 DEF Abstract!Release
      <3> QED BY <3>2 DEF Abstract!Next
    <2>3. CASE lockOwner = NoHolder /\ lockOwner' # NoHolder
      <3>1. lockOwner' \in Holders
        BY <2>3 DEF lockOwner
      <3>2. Abstract!Acquire("key", lockOwner')
        BY <2>3, <3>1 DEF Abstract!Acquire
      <3> QED BY <3>1, <3>2 DEF Abstract!Next
    <2>4. CASE lockOwner # NoHolder /\ lockOwner' # NoHolder /\ lockOwner' # lockOwner
      <3>1. PICK p \in Holders, q \in Holders : p = lockOwner /\ q = lockOwner'
        BY <2>4 DEF lockOwner
      <3>2. hold[p] # 0 /\ hold'[q] # 0 /\ p # q
        BY <2>4, <3>1 DEF lockOwner
      <3>3. hold[q] = 0
        BY <1>1, <1>4, <3>1, <3>2
      <3>4. HolderOwnsKey'
        BY <1>4 DEF LockInv, HolderInv, Backed, HolderOwnsKey
      <3>5. hold'[p] = 0
        BY <3>2, <3>4 DEF HolderOwnsKey
      <3>6. \/ hold'[q] = hold[q] \/ hold'[q] = 0
            \/ hold'[p] = hold[p]
        BY <1>4, <3>2, OneGrant
      <3> QED BY <3>2, <3>6, <3>3, <3>5
    <2> QED BY <2>1, <2>2, <2>3, <2>4
  <1> QED BY <1>3, <1>4, LockInvariant, PTL DEF Spec, ImplementsOwnership, Abstract!Spec

=============================================================================
