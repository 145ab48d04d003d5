-------------------------------- MODULE DLock --------------------------------
(* base/db/redis/dlock.go: the distributed lock, as instances that compete for *)
(* one Redis key.  An instance is used by one goroutine.  A command is sent,   *)
(* executed by Redis, and answered; its context expires Timeout after it was   *)
(* made, its reply may get lost, and then the client library sends it again or *)
(* the call fails, with the command perhaps still on its way.                  *)
EXTENDS Integers, FiniteSets

CONSTANTS Holders,   \* DLock instances, each with its own value
          NoHolder,
          Expiry,    \* DLockOpts.Expiry in ticks; it is not defaulted when it is 0
          Timeout,   \* bound: deadline of the contexts callers pass
          MaxLate    \* bound: abandoned commands that may still be executed

ASSUME DLockAssumption ==
    /\ NoHolder \notin Holders
    /\ Expiry \in Nat
    /\ Timeout \in Nat
    /\ MaxLate \in Nat

VARIABLES key,     \* the Redis key: the instance whose value it has, and its PTTL
          call,    \* call[p]: the method of p in progress
          locked,  \* locked[p]: the field of that name
          hold,    \* hold[p]: ticks for which p may rely on the lock
          late,    \* commands whose caller has given up
          dead     \* instances whose process has crashed

vars == <<key, call, locked, hold, late, dead>>

-----------------------------------------------------------------------------
(* The commands.                                                               *)

Persist == -1
Free == [owner |-> NoHolder, pttl |-> Persist]
Effect(k, answer) == [key |-> k, answer |-> answer]

\* Mutant: the lock has no expiry.
SetNX_Persists(k, p) ==
    IF k.owner = NoHolder THEN Effect([owner |-> p, pttl |-> Persist], "yes") ELSE Effect(k, "no")

\* SET key value NX with the expiry, or without any when it is zero.
SetNX(k, p) ==
    IF k.owner = NoHolder
    THEN Effect([owner |-> p, pttl |-> IF Expiry > 0 THEN Expiry ELSE Persist], "yes")
    ELSE Effect(k, "no")

\* Mutant: the value of the key is not compared.
unlockScript_Unchecked(k, p) ==
    IF k.owner # NoHolder THEN Effect(Free, "yes") ELSE Effect(k, "no")

unlockScript(k, p) ==
    IF k.owner = p THEN Effect(Free, "yes") ELSE Effect(k, "no")

\* PEXPIRE with zero deletes the key, and answers 1.
refreshScript(k, p) ==
    IF k.owner # p THEN Effect(k, "no")
    ELSE IF Expiry = 0 THEN Effect(Free, "yes")
    ELSE Effect([k EXCEPT !.pttl = Expiry], "yes")

Command(op) == IF op \in {"TryLock", "Lock"} THEN "setnx" ELSE op

Run(k, cmd, p) ==
    CASE cmd = "setnx"   -> SetNX(k, p)
      [] cmd = "Unlock"  -> unlockScript(k, p)
      [] cmd = "Refresh" -> refreshScript(k, p)

-----------------------------------------------------------------------------
(* The methods.                                                                *)

\* ago: ticks since the command was first sent; clear (history): whether no Unlock of
\* this instance was still on its way when the method was called.
Idle == [op |-> "none", st |-> "idle", left |-> 0, ago |-> 0, answer |-> "none", clear |-> FALSE]

unlockOf(p) == [cmd |-> "Unlock", by |-> p]

Init ==
    /\ key = Free
    /\ call = [p \in Holders |-> Idle]
    /\ locked = [p \in Holders |-> FALSE]
    /\ hold = [p \in Holders |-> 0]
    /\ late = {}
    /\ dead = {}

Begin(p, op) ==
    /\ p \notin dead
    /\ call[p].st = "idle"
    /\ call' = [call EXCEPT ![p] =
          [op |-> op, st |-> "sent", left |-> Timeout, ago |-> 0, answer |-> "none",
           clear |-> unlockOf(p) \notin late]]
    /\ UNCHANGED <<key, locked, late, dead>>

TryLock(p) == Begin(p, "TryLock") /\ UNCHANGED hold
Lock(p) == Begin(p, "Lock") /\ UNCHANGED hold

\* Without locked, Unlock and Refresh return ErrLockNotHeld and do nothing.
Unlock(p) ==
    /\ locked[p]
    /\ Begin(p, "Unlock")
    /\ hold' = [hold EXCEPT ![p] = 0]

Refresh(p) == locked[p] /\ Begin(p, "Refresh") /\ UNCHANGED hold

\* Redis executes the command of a call.
Execute(p) ==
    LET e == Run(key, Command(call[p].op), p)
    IN  /\ call[p].st = "sent"
        /\ key' = e.key
        /\ call' = [call EXCEPT ![p] = [@ EXCEPT !.st = "replied", !.answer = e.answer]]
        /\ UNCHANGED <<locked, hold, late, dead>>

\* The reply is lost and the client library sends the command again.
Resend(p) ==
    /\ call[p].st = "replied"
    /\ call' = [call EXCEPT ![p] = [@ EXCEPT !.st = "sent", !.answer = "none"]]
    /\ UNCHANGED <<key, locked, hold, late, dead>>

Wait(c) == [c EXCEPT !.st = "waiting", !.ago = 0, !.answer = "none"]

\* A lock or a refresh obtained now counts from when its command was first sent; it
\* counts for nothing if an earlier, failed Unlock of p could undo it.
Granted(p) ==
    IF ~call[p].clear THEN 0
    ELSE IF Expiry = 0 THEN Persist
    ELSE IF Expiry > call[p].ago THEN Expiry - call[p].ago ELSE 0

\* The reply arrives.  Lock waits and tries again when the lock was not obtained;
\* Unlock and Refresh leave locked as it is when the key has another value.
Return(p) ==
    LET c   == call[p]
        yes == c.answer = "yes"
    IN  /\ c.st = "replied"
        /\ call' = [call EXCEPT ![p] = IF c.op = "Lock" /\ ~yes THEN Wait(c) ELSE Idle]
        /\ locked' = [locked EXCEPT ![p] =
              IF yes /\ c.op # "Refresh" THEN c.op # "Unlock" ELSE @]
        /\ hold' = [hold EXCEPT ![p] =
              IF yes /\ c.op # "Unlock" THEN Granted(p)
              ELSE IF c.op = "Refresh" THEN 0 ELSE @]
        /\ UNCHANGED <<key, late, dead>>

\* The command of p is given up; if it was not executed yet, it is lost or on its way.
Abandon(p) ==
    \/ late' = late
    \/ /\ call[p].st = "sent"
       /\ Cardinality(late) < MaxLate
       /\ late' = late \cup {[cmd |-> Command(call[p].op), by |-> p]}

\* The command fails: Lock waits and tries again, the others return the error.
Fail(p) ==
    /\ call[p].st \in {"sent", "replied"}
    /\ Abandon(p)
    /\ call' = [call EXCEPT ![p] = IF @.op = "Lock" THEN Wait(@) ELSE Idle]
    /\ UNCHANGED <<key, locked, hold, dead>>

\* RetryDelay is over and ctx is not done.
Retry(p) ==
    /\ call[p].st = "waiting" /\ call[p].left > 0
    /\ call' = [call EXCEPT ![p].st = "sent"]
    /\ UNCHANGED <<key, locked, hold, late, dead>>

\* Mutant: the wait is not left when ctx is done.
GiveUp_Waits(p) ==
    /\ call[p].st \in {"sent", "replied"} /\ call[p].op = "Lock" /\ call[p].left = 0
    /\ Abandon(p)
    /\ call' = [call EXCEPT ![p] = Idle]
    /\ UNCHANGED <<key, locked, hold, dead>>

\* Lock returns because ctx is done.
GiveUp(p) ==
    /\ call[p].st = "waiting"
    /\ call' = [call EXCEPT ![p] = Idle]
    /\ UNCHANGED <<key, locked, hold, late, dead>>

\* The process dies, and what it knew with it.
Crash(p) ==
    /\ p \notin dead
    /\ Abandon(p)
    /\ dead' = dead \cup {p}
    /\ call' = [call EXCEPT ![p] = Idle]
    /\ locked' = [locked EXCEPT ![p] = FALSE]
    /\ hold' = [hold EXCEPT ![p] = 0]
    /\ UNCHANGED key

\* An abandoned command is executed.  The same command may have been abandoned
\* more than once, so it stays until it is lost.
ExecuteLate(q) ==
    /\ key' = Run(key, q.cmd, q.by).key
    /\ UNCHANGED <<call, locked, hold, late, dead>>

LoseLate(q) ==
    /\ late' = late \ {q}
    /\ UNCHANGED <<key, call, locked, hold, dead>>

CountDown(t) == IF t > 0 THEN t - 1 ELSE t

\* One tick of time.  A call whose context is done ends before it.
Tick ==
    /\ \A p \in Holders : call[p].st # "idle" => call[p].left > 0
    /\ key' = IF key.pttl = Persist THEN key
              ELSE IF key.pttl = 0 THEN Free
              ELSE [key EXCEPT !.pttl = @ - 1]
    /\ call' = [p \in Holders |->
          [call[p] EXCEPT !.left = CountDown(@),
                          !.ago = IF call[p].st \in {"sent", "replied"} THEN @ + 1 ELSE 0]]
    /\ hold' = [p \in Holders |-> CountDown(hold[p])]
    /\ UNCHANGED <<locked, late, dead>>

Use(p) == TryLock(p) \/ Lock(p) \/ Unlock(p) \/ Refresh(p)
Step(p) == Execute(p) \/ Resend(p) \/ Return(p) \/ Fail(p) \/ Retry(p) \/ GiveUp(p) \/ Crash(p)

Next ==
    \/ \E p \in Holders : Use(p) \/ Step(p)
    \/ \E q \in late : ExecuteLate(q) \/ LoseLate(q)
    \/ Tick

Spec == Init /\ [][Next]_vars

-----------------------------------------------------------------------------
(* Properties.                                                                 *)

Ticks == {Persist} \cup Nat
Calls == [op : {"TryLock", "Lock", "Unlock", "Refresh"}, st : {"sent", "replied", "waiting"},
          left : 0..Timeout, ago : 0..Timeout, answer : {"none", "yes", "no"}, clear : BOOLEAN]
Requests == [cmd : {"setnx", "Unlock", "Refresh"}, by : Holders]

\* Type invariant.
TypeOK ==
    /\ key \in [owner : Holders, pttl : Ticks] \cup {Free}
    /\ call \in [Holders -> Calls \cup {Idle}]
    /\ locked \in [Holders -> BOOLEAN]
    /\ hold \in [Holders -> Ticks]
    /\ late \subseteq Requests
    /\ dead \subseteq Holders

\* While an instance may rely on the lock - its last TryLock, Lock or Refresh that
\* succeeded, counted from when the command was first sent, has not run out, and no
\* earlier Unlock of it was abandoned on its way - the key has its value: no other instance can obtain it,
\* whatever abandoned commands Redis still executes.
HolderOwnsKey == \A p \in Holders : hold[p] # 0 => key.owner = p

\* The lock implements exclusive ownership of one resource.
lockOwner ==
    IF \E p \in Holders : hold[p] # 0 THEN CHOOSE p \in Holders : hold[p] # 0 ELSE NoHolder
Abstract == INSTANCE Ownership WITH
    Resources <- {"key"}, Clients <- Holders, Nobody <- NoHolder,
    owner <- [r \in {"key"} |-> lockOwner]
ImplementsOwnership == Abstract!Spec

\* A key whose instance does not know that it has the lock - the reply of SETNX was
\* lost, or the process crashed - does not stay for ever: Unlock and Refresh refuse
\* to touch it, so only its expiry can free it.
OrphanLapses ==
    Expiry > 0 => \A p \in Holders :
        (key.owner = p /\ ~locked[p]) ~> (key.owner # p \/ locked[p])

\* Lock returns once its context is done, however often it failed or was refused.
LockReturns == \A p \in Holders : call[p].op = "Lock" ~> call[p].op # "Lock"

\* Time goes on, contexts expire, and an abandoned command does not travel for ever.
Fairness ==
    /\ WF_vars(Tick)
    /\ \A p \in Holders :
          /\ WF_vars(call[p].left = 0 /\ (Fail(p) \/ Return(p)))
          /\ WF_vars(call[p].left = 0 /\ GiveUp(p))
    /\ \A q \in Requests : WF_vars(q \in late /\ LoseLate(q))

LiveSpec == Spec /\ Fairness

-----------------------------------------------------------------------------
(* The inductive invariant behind HolderOwnsKey.                               *)

\* What p has been granted and may not know of yet.
Answered(p) ==
    IF call[p].st = "replied" /\ call[p].answer = "yes" /\ call[p].op # "Unlock"
    THEN Granted(p) ELSE 0

\* The key is p's for t more ticks, and no Unlock of p can end it.
Backed(p, t) ==
    t # 0 => /\ key.owner = p
             /\ unlockOf(p) \notin late
             /\ t > 0 /\ t <= key.pttl

HolderInv(p) ==
    /\ call[p].op = "Unlock" => hold[p] = 0
    /\ call[p].clear => unlockOf(p) \notin late
    /\ call[p].st # "idle" => call[p].left + call[p].ago <= Timeout
    /\ Backed(p, hold[p])
    /\ Backed(p, Answered(p))

LockInv ==
    /\ TypeOK
    /\ key.owner # NoHolder => key.pttl \in 0..Expiry
    /\ \A p \in Holders : HolderInv(p)

=============================================================================
