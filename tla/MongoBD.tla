------------------------------- MODULE MongoBD --------------------------------
(* infra/mongobd: a pool of workers that carry out MongoDB operations in the    *)
(* background.  Callers Add an operation under a hash key and get it back       *)
(* through a done channel when a worker is through with it; Exec is Add with a  *)
(* channel of its own and a wait.  Stop ends the workers.                       *)
(*                                                                              *)
(* As in the package's test, callers stop adding before Stop is called, and the *)
(* done channels are read by others.  What an operation does to the database    *)
(* (external) is not modelled: it ends, well or with a panic.                   *)
(*                                                                              *)
(* opBase.ctx is read and written by callers and workers without a lock; here   *)
(* each access is one step, and a torn read of it is not modelled.              *)
EXTENDS Integers, Sequences, FiniteSets, SequencesExt

CONSTANTS Ops, Keys, Workers,
          Chans,         \* done channels that operations share
          WorkerOf,      \* WorkerOf[k]: wks[getHashCode(k) % len(wks)]
          DoneOf,        \* DoneOf[o]: its done channel; o stands for Exec's own
          Timed,         \* operations whose caller's context has a deadline
          MaxWorkerOps,  \* capacity of a worker's queue
          DoneCap,       \* capacity of a shared done channel
          None           \* no operation

ASSUME MongoBDAssumption ==
    /\ WorkerOf \in [Keys -> Workers]
    /\ DoneOf \in [Ops -> Ops \cup Chans] /\ \A o \in Ops : DoneOf[o] \in Chans \cup {o}
    /\ Timed \subseteq Ops /\ Workers \cap {"own", "dead"} = {}
    /\ Ops \cap Chans = {} /\ None \notin Ops \cup Keys
    /\ {MaxWorkerOps, DoneCap} \subseteq Nat \ {0}

VARIABLES st,      \* st[o]: "new", "adding", "queued", "taken", "done", "back", "refused",
                   \* "lost": Add returned nil and the operation is nowhere
          key,     \* key[o]: the hash key it was added under last
          ctx,     \* ctx[o]: opBase.ctx: the caller's "own", or w for the temporary one
                   \* of worker w, or "dead" for a temporary one that is over
          ended,   \* ended[o]: the caller's own context is done
          addCtx,  \* addCtx[o]: the context whose Done channel Add waits for, while it does
          queue,   \* queue[w]: w.ops
          cur,     \* cur[w]: the operation safeExec has in hand
          bak,     \* bak[w]: the context safeExec found in it, which it puts back
          pc,      \* pc[w]: where worker w is
          done,    \* done[c]: the done channels
          stop,    \* Stop: "no", "waiting" for the workers, "returned"
          pending  \* history: what was accepted under each key and is not carried out,
                   \* in the order of acceptance

vars == <<st, key, ctx, ended, addCtx, queue, cur, bak, pc, done, stop, pending>>

Cap(c) == IF c \in Ops THEN 1 ELSE DoneCap
Room(o) == Len(done[DoneOf[o]]) < Cap(DoneOf[o])

Init ==
    /\ st = [o \in Ops |-> "new"]
    /\ key = [o \in Ops |-> None]
    /\ ctx = [o \in Ops |-> "own"] /\ addCtx = [o \in Ops |-> "own"]
    /\ ended = [o \in Ops |-> FALSE]
    /\ queue = [w \in Workers |-> <<>>]
    /\ cur = [w \in Workers |-> None] /\ bak = [w \in Workers |-> "own"]
    /\ pc = [w \in Workers |-> "idle"]
    /\ done = [c \in Ops \cup Chans |-> <<>>]
    /\ stop = "no"
    /\ pending = [k \in Keys |-> <<>>]

\* The worker of an operation's hash key.
Wk(o) == WorkerOf[key[o]]

\* ctx.Err() # nil, of the context x of operation o.
Over(o, x) == ended[o] \/ x = "dead"

\* The temporary context of w is over, for whoever has it.
Contexts == {"own", "dead"} \cup Workers
Cancelled(w) == [x \in Contexts |-> IF x = w THEN "dead" ELSE x]

-----------------------------------------------------------------------------
(* Callers.                                                                    *)

\* Add sets callback and done, and evaluates the cases of its select.
AddStart(o, k) ==
    /\ stop = "no"
    /\ st[o] \in {"new", "back", "refused"}
    /\ st' = [st EXCEPT ![o] = "adding"]
    /\ key' = [key EXCEPT ![o] = k]
    /\ addCtx' = [addCtx EXCEPT ![o] = ctx[o]]
    /\ UNCHANGED <<ctx, ended, queue, cur, bak, pc, done, stop, pending>>

\* Mutant: any worker is as good as that of the key.
AddSend_AnyWorker(o) ==
    \E w \in Workers :
        /\ st[o] = "adding" /\ Len(queue[w]) < MaxWorkerOps
        /\ queue' = [queue EXCEPT ![w] = Append(queue[w], o)]
        /\ st' = [st EXCEPT ![o] = "queued"] /\ addCtx' = [addCtx EXCEPT ![o] = "own"]
        /\ pending' = [pending EXCEPT ![key[o]] = Append(pending[key[o]], o)]
        /\ UNCHANGED <<key, ctx, ended, cur, bak, pc, done, stop>>

\* The queue has room.
AddSend(o) ==
    LET w == Wk(o)
    IN  /\ st[o] = "adding" /\ Len(queue[w]) < MaxWorkerOps
        /\ queue' = [queue EXCEPT ![w] = Append(queue[w], o)]
        /\ st' = [st EXCEPT ![o] = "queued"] /\ addCtx' = [addCtx EXCEPT ![o] = "own"]
        /\ pending' = [pending EXCEPT ![key[o]] = Append(pending[key[o]], o)]
        /\ UNCHANGED <<key, ctx, ended, cur, bak, pc, done, stop>>

\* The context is done: Add returns the error of opBase.ctx as it is by then.  When the
\* context it waited for was a worker's temporary one, and the operation has its own again,
\* that is nil although the operation is in no queue.
AddGivesUp(o) ==
    /\ st[o] = "adding" /\ Over(o, addCtx[o])
    /\ st' = [st EXCEPT ![o] = IF Over(o, ctx[o]) THEN "refused" ELSE "lost"]
    /\ addCtx' = [addCtx EXCEPT ![o] = "own"]
    /\ key' = [key EXCEPT ![o] = None]
    /\ UNCHANGED <<ctx, ended, queue, cur, bak, pc, done, stop, pending>>

EndContext(o) ==
    /\ ~ended[o]
    /\ ended' = [ended EXCEPT ![o] = TRUE]
    /\ UNCHANGED <<key, st, ctx, addCtx, queue, cur, bak, pc, done, stop, pending>>

\* The reader of a done channel, or Exec, gets an operation back.
Receive(c) ==
    /\ done[c] # <<>>
    /\ st' = [st EXCEPT ![Head(done[c])] = "back"]
    /\ done' = [done EXCEPT ![c] = Tail(done[c])]
    /\ key' = [key EXCEPT ![Head(done[c])] = None]
    /\ UNCHANGED <<ctx, ended, addCtx, queue, cur, bak, pc, stop, pending>>

\* Stop closes the queues of all workers, and waits for them.
Stop ==
    /\ stop = "no" /\ \A o \in Ops : st[o] # "adding"
    /\ stop' = "waiting"
    /\ UNCHANGED <<key, st, ctx, ended, addCtx, queue, cur, bak, pc, done, pending>>

StopReturns ==
    /\ stop = "waiting" /\ \A w \in Workers : pc[w] = "exited"
    /\ stop' = "returned"
    /\ UNCHANGED <<key, st, ctx, ended, addCtx, queue, cur, bak, pc, done, pending>>

-----------------------------------------------------------------------------
(* Workers.                                                                    *)

At(w, from, to) == pc[w] = from /\ pc' = [pc EXCEPT ![w] = to]

Finish(o) == pending' = [pending EXCEPT ![key[o]] = RemoveFirst(pending[key[o]], o)]

Take(w) ==
    /\ queue[w] # <<>> /\ At(w, "idle", "start")
    /\ cur' = [cur EXCEPT ![w] = Head(queue[w])]
    /\ bak' = [bak EXCEPT ![w] = ctx[Head(queue[w])]]
    /\ queue' = [queue EXCEPT ![w] = Tail(queue[w])]
    /\ st' = [st EXCEPT ![Head(queue[w])] = "taken"]
    /\ UNCHANGED <<key, ctx, ended, addCtx, done, stop, pending>>

\* safeExec: an operation whose context is over is not carried out.
SkipOp(w) ==
    /\ At(w, "start", "fail") /\ Over(cur[w], bak[w]) /\ Finish(cur[w])
    /\ UNCHANGED <<key, st, ctx, ended, addCtx, queue, cur, bak, done, stop>>

\* Otherwise a context that has no deadline is replaced by a temporary one with the
\* default time limit.  One that another worker made has a deadline already.
BeginOp(w) ==
    LET o == cur[w]
    IN  /\ At(w, "start", "exec") /\ ~Over(o, bak[w])
        /\ ctx' = [ctx EXCEPT ![o] = IF bak[w] = "own" /\ o \notin Timed THEN w ELSE ctx[o]]
        /\ UNCHANGED <<key, st, ended, addCtx, queue, cur, bak, done, stop, pending>>

\* The default time limit of the temporary context runs out.
LimitEnds(w) ==
    /\ pc[w] \in {"exec", "reply", "restore"}
    /\ ctx' = [o \in Ops |-> Cancelled(w)[ctx[o]]]
    /\ addCtx' = [o \in Ops |-> Cancelled(w)[addCtx[o]]]
    /\ bak' = [v \in Workers |-> Cancelled(w)[bak[v]]]
    /\ UNCHANGED <<key, st, ended, queue, cur, pc, done, stop, pending>>

EndOp(w) ==
    /\ At(w, "exec", "reply") /\ Finish(cur[w])
    /\ UNCHANGED <<key, st, ctx, ended, addCtx, queue, cur, bak, done, stop>>

\* Mutant: the panic ends the worker's goroutine, past a wg.Done that is not deferred.
PanicOp_EndsWorker(w) ==
    /\ At(w, "exec", "gone") /\ Finish(cur[w])
    /\ ctx' = [o \in Ops |-> Cancelled(w)[ctx[o]]]
    /\ bak' = [v \in Workers |-> Cancelled(w)[bak[v]]]
    /\ UNCHANGED <<key, st, ended, addCtx, queue, cur, done, stop>>

\* The operation panics: the deferred calls cancel the temporary context, which stays in
\* the operation, and answer with an error.
PanicOp(w) ==
    /\ At(w, "exec", "fail") /\ Finish(cur[w])
    /\ ctx' = [o \in Ops |-> Cancelled(w)[ctx[o]]]
    /\ bak' = [v \in Workers |-> Cancelled(w)[bak[v]]]
    /\ UNCHANGED <<key, st, ended, addCtx, queue, cur, done, stop>>

\* opDone, which waits for room in the done channel.
Deliver(o) ==
    /\ Room(o)
    /\ done' = [done EXCEPT ![DoneOf[o]] = Append(done[DoneOf[o]], o)]
    /\ st' = [st EXCEPT ![o] = "done"]

\* opDone at the end of exec; the caller may have the operation back from now on.
Reply(w) ==
    /\ At(w, "reply", "restore") /\ Deliver(cur[w])
    /\ UNCHANGED <<key, ctx, ended, addCtx, queue, cur, bak, stop, pending>>

ReplyFailure(w) ==
    /\ At(w, "fail", "idle") /\ Deliver(cur[w])
    /\ cur' = [cur EXCEPT ![w] = None] /\ bak' = [bak EXCEPT ![w] = "own"]
    /\ UNCHANGED <<key, ctx, ended, addCtx, queue, stop, pending>>

\* Back in safeExec the operation gets back the context that was found in it, whatever it
\* has by now, and then the temporary one is cancelled, for whoever has it as well: an
\* Add of the same operation, or another worker that carries it out again.
Restore(w) ==
    /\ At(w, "restore", "idle")
    /\ ctx' = [o \in Ops |-> IF o = cur[w] THEN bak[w] ELSE Cancelled(w)[ctx[o]]]
    /\ addCtx' = [o \in Ops |-> Cancelled(w)[addCtx[o]]]
    /\ cur' = [cur EXCEPT ![w] = None]
    /\ bak' = [v \in Workers |-> IF v = w THEN "own" ELSE Cancelled(w)[bak[v]]]
    /\ UNCHANGED <<key, st, ended, queue, done, stop, pending>>

\* Mutant: a worker ends as soon as Stop was called.
Exit_Now(w) ==
    /\ stop = "waiting" /\ At(w, "idle", "exited")
    /\ UNCHANGED <<key, st, ctx, ended, addCtx, queue, cur, bak, done, stop, pending>>

\* The queue is closed and empty.
Exit(w) ==
    /\ stop = "waiting" /\ queue[w] = <<>> /\ At(w, "idle", "exited")
    /\ UNCHANGED <<key, st, ctx, ended, addCtx, queue, cur, bak, done, stop, pending>>

-----------------------------------------------------------------------------
Worker(w) ==
    \/ Take(w) \/ SkipOp(w) \/ BeginOp(w) \/ EndOp(w) \/ PanicOp(w)
    \/ Reply(w) \/ ReplyFailure(w) \/ Restore(w) \/ Exit(w)

Next ==
    \/ \E o \in Ops : (\E k \in Keys : AddStart(o, k)) \/ AddSend(o) \/ AddGivesUp(o) \/ EndContext(o)
    \/ \E c \in Ops \cup Chans : Receive(c)
    \/ Stop \/ StopReturns
    \/ \E w \in Workers : Worker(w) \/ LimitEnds(w)

Spec == Init /\ [][Next]_vars

\* Workers run, an operation ends, and whoever reads a done channel goes on reading.
\* Whoever waits for room in a channel gets it sooner or later: senders queue up.
Fairness ==
    /\ \A w \in Workers :
          WF_vars(Worker(w)) /\ SF_vars(Reply(w)) /\ SF_vars(ReplyFailure(w))
    /\ \A c \in Ops \cup Chans : WF_vars(Receive(c))
    /\ \A o \in Ops : SF_vars(AddSend(o))
    /\ WF_vars(StopReturns)

LiveSpec == Spec /\ Fairness

-----------------------------------------------------------------------------
(* Properties.                                                                 *)

Busy == {"start", "exec", "reply", "fail"}

TypeOK ==
    /\ st \in [Ops -> {"new", "adding", "queued", "taken", "done", "back", "refused", "lost"}]
    /\ key \in [Ops -> Keys \cup {None}]
    /\ ctx \in [Ops -> Contexts] /\ addCtx \in [Ops -> Contexts]
    /\ bak \in [Workers -> Contexts]
    /\ ended \in [Ops -> BOOLEAN]
    /\ queue \in [Workers -> Seq(Ops)]
    /\ cur \in [Workers -> Ops \cup {None}]
    /\ pc \in [Workers -> Busy \cup {"idle", "restore", "exited"}]
    /\ done \in [Ops \cup Chans -> Seq(Ops)]
    /\ stop \in {"no", "waiting", "returned"}
    /\ pending \in [Keys -> Seq(Ops)]

\* However often an operation is added again, and by whomever it is carried out: no two
\* queues, workers and done channels share it, and one that is on its way is in one of
\* them.  One that Add refused, or lost, is in none.
OnePlace ==
    \A o \in Ops :
        Cardinality({w \in Workers : \E i \in 1 .. Len(queue[w]) : queue[w][i] = o})
          + Cardinality({w \in Workers : pc[w] \in Busy /\ cur[w] = o})
          + Cardinality({c \in Ops \cup Chans : \E i \in 1 .. Len(done[c]) : done[c][i] = o})
        = IF st[o] \in {"queued", "taken", "done"} THEN 1 ELSE 0

Abstract == INSTANCE SerialQueues

\* Operations under the same key are carried out in the order in which they were
\* added, however many workers there are.
ImplementsSerialQueues == Abstract!Spec

\* The comment of Stop: it returns when all operations have been processed.
StopDrains == stop = "returned" => \A o \in Ops : st[o] \notin {"queued", "taken"}

\* Every operation that Add put into a queue comes back, whether it was carried out, skipped or
\* panicked, and also while the backend is stopped.
ComesBack == \A o \in Ops : st[o] = "queued" ~> st[o] = "back"

\* Stop returns.
StopEnds == stop = "waiting" ~> stop = "returned"

=============================================================================
