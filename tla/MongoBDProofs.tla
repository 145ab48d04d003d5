---------------------------- MODULE MongoBDProofs -----------------------------
(* Proofs about MongoBD: an operation is in one place at a time, Stop returns   *)
(* only after every operation that was accepted has been processed, and the     *)
(* pool implements SerialQueues: the order of acceptance is kept under a key.   *)
EXTENDS MongoBD, FiniteSetTheorems, SequenceTheorems, TLAPS

States == {"new", "adding", "queued", "taken", "done", "back", "refused", "lost"}

Typed ==
    /\ st \in [Ops -> States] /\ key \in [Ops -> Keys \cup {None}]
    /\ queue \in [Workers -> Seq(Ops)] /\ cur \in [Workers -> Ops \cup {None}]
    /\ pc \in [Workers -> Busy \cup {"idle", "restore", "exited"}]
    /\ done \in [Ops \cup Chans -> Seq(Ops)]

\* An operation in a queue is queued, in that of its worker and once.
QueueOK ==
    /\ \A w \in Workers : \A i \in 1 .. Len(queue[w]) :
          st[queue[w][i]] = "queued" /\ Wk(queue[w][i]) = w
    /\ \A w \in Workers : \A i, j \in 1 .. Len(queue[w]) : queue[w][i] = queue[w][j] => i = j
    /\ \A o \in Ops : st[o] = "queued" =>
          key[o] \in Keys /\ \E i \in 1 .. Len(queue[Wk(o)]) : queue[Wk(o)][i] = o
    /\ \A o \in Ops : st[o] = "adding" => key[o] \in Keys

\* A worker that is busy has an operation in hand that no other has.
TakenOK ==
    /\ \A w \in Workers : pc[w] \in Busy \cup {"restore"} => cur[w] \in Ops
    /\ \A w \in Workers : pc[w] \in Busy => st[cur[w]] = "taken"
    /\ \A v, w \in Workers : pc[v] \in Busy /\ pc[w] \in Busy /\ cur[v] = cur[w] => v = w
    /\ \A o \in Ops : st[o] = "taken" => \E w \in Workers : pc[w] \in Busy /\ cur[w] = o

\* An operation that was answered is in its done channel.
DoneOK ==
    /\ \A c \in Ops \cup Chans : \A i \in 1 .. Len(done[c]) :
          st[done[c][i]] = "done" /\ DoneOf[done[c][i]] = c
    /\ \A c \in Ops \cup Chans : \A i, j \in 1 .. Len(done[c]) : done[c][i] = done[c][j] => i = j
    /\ \A o \in Ops : st[o] = "done" =>
          \E i \in 1 .. Len(done[DoneOf[o]]) : done[DoneOf[o]][i] = o

\* A worker ends when its queue is closed and empty, and Stop when all workers have.
StopOK ==
    /\ stop # "no" => \A o \in Ops : st[o] # "adding"
    /\ \A w \in Workers : pc[w] = "exited" => stop # "no" /\ queue[w] = <<>>
    /\ stop = "returned" => \A w \in Workers : pc[w] = "exited"

PlaceInv == Typed /\ QueueOK /\ TakenOK /\ DoneOK /\ StopOK

-----------------------------------------------------------------------------
LEMMA Constants ==
    /\ WorkerOf \in [Keys -> Workers]
    /\ \A o \in Ops : DoneOf[o] \in Ops \cup Chans
    /\ None \notin Ops \cup Keys
  BY MongoBDAssumption

LEMMA HeadTail ==
    ASSUME NEW S, NEW s \in Seq(S), s # <<>>
    PROVE  /\ Len(s) \in Nat \ {0} /\ Head(s) = s[1] /\ Head(s) \in S
           /\ Tail(s) \in Seq(S) /\ Len(Tail(s)) = Len(s) - 1
           /\ \A i \in 1 .. Len(Tail(s)) : Tail(s)[i] = s[i + 1]
  OBVIOUS

LEMMA Appended ==
    ASSUME NEW S, NEW s \in Seq(S), NEW e \in S
    PROVE  /\ Append(s, e) \in Seq(S) /\ Len(s) \in Nat /\ Len(Append(s, e)) = Len(s) + 1
           /\ \A i \in 1 .. Len(s) : Append(s, e)[i] = s[i]
           /\ Append(s, e)[Len(s) + 1] = e
  OBVIOUS

LEMMA InitPlace == Init => PlaceInv
  BY Constants DEF Init, PlaceInv, Typed, States, Busy, QueueOK, TakenOK, DoneOK, StopOK

\* A step that does not touch where the operations are.
LEMMA SamePlace ==
    ASSUME PlaceInv, UNCHANGED <<key, st, queue, cur, done, pc, stop>>
    PROVE  PlaceInv'
  <1>1. Typed /\ QueueOK /\ TakenOK /\ DoneOK /\ StopOK
    BY DEF PlaceInv
  <1>2. Typed' /\ StopOK'
    BY <1>1 DEF Typed, StopOK
  <1>3. QueueOK'
    BY <1>1 DEF QueueOK, Wk
  <1>4. TakenOK'
    BY <1>1 DEF TakenOK
  <1>5. DoneOK'
    BY <1>1 DEF DoneOK
  <1> QED BY <1>2, <1>3, <1>4, <1>5 DEF PlaceInv

LEMMA InQueue ==
    ASSUME PlaceInv, NEW w \in Workers, NEW i \in 1 .. Len(queue[w])
    PROVE  queue[w][i] \in Ops /\ st[queue[w][i]] = "queued" /\ Wk(queue[w][i]) = w
  <1>1. queue[w] \in Seq(Ops)
    BY DEF PlaceInv, Typed
  <1>2. queue[w][i] \in Ops
    BY <1>1
  <1> QED BY <1>2 DEF PlaceInv, QueueOK

LEMMA InDone ==
    ASSUME PlaceInv, NEW c \in Ops \cup Chans, NEW i \in 1 .. Len(done[c])
    PROVE  done[c][i] \in Ops /\ st[done[c][i]] = "done" /\ DoneOf[done[c][i]] = c
  <1>1. done[c] \in Seq(Ops)
    BY DEF PlaceInv, Typed
  <1>2. done[c][i] \in Ops
    BY <1>1
  <1> QED BY <1>2 DEF PlaceInv, DoneOK

\* A step of an operation that is and stays outside the queues.
LEMMA SameQueues ==
    ASSUME PlaceInv, NEW o \in Ops, NEW s, NEW k, st[o] # "queued", s # "queued",
           st' = [st EXCEPT ![o] = s], key' = [key EXCEPT ![o] = k],
           s = "adding" => k \in Keys, queue' = queue
    PROVE  QueueOK'
  <1>1. \A x \in Ops \ {o} : st'[x] = st[x] /\ key'[x] = key[x]
    BY DEF PlaceInv, Typed
  <1>2. st'[o] = s /\ key'[o] = k
    BY DEF PlaceInv, Typed
  <1>3. ASSUME NEW w \in Workers, NEW i \in 1 .. Len(queue[w])
        PROVE  st'[queue[w][i]] = "queued" /\ WorkerOf[key'[queue[w][i]]] = w
    <2>1. queue[w][i] \in Ops /\ st[queue[w][i]] = "queued" /\ Wk(queue[w][i]) = w
      BY InQueue
    <2>2. queue[w][i] \in Ops \ {o}
      BY <2>1
    <2> QED BY <1>1, <2>1, <2>2 DEF Wk
  <1>4. ASSUME NEW x \in Ops, st'[x] = "queued"
        PROVE  key'[x] \in Keys /\ \E i \in 1 .. Len(queue[Wk(x)']) : queue[Wk(x)'][i] = x
    <2>1. x \in Ops \ {o}
      BY <1>2, <1>4
    <2>2. st[x] = "queued" /\ Wk(x)' = Wk(x) /\ key'[x] = key[x]
      BY <1>1, <1>4, <2>1 DEF Wk
    <2> QED BY <2>2 DEF PlaceInv, QueueOK
  <1>5. \A x \in Ops : st'[x] = "adding" => key'[x] \in Keys
    BY <1>1, <1>2 DEF PlaceInv, QueueOK
  <1>6. \A w \in Workers : \A i, j \in 1 .. Len(queue[w]) : queue[w][i] = queue[w][j] => i = j
    BY DEF PlaceInv, QueueOK
  <1> QED BY <1>3, <1>4, <1>5, <1>6 DEF QueueOK, Wk

\* A step of an operation that is and stays outside the done channels.
LEMMA SameDone ==
    ASSUME PlaceInv, NEW o \in Ops, NEW s, st[o] # "done", s # "done",
           st' = [st EXCEPT ![o] = s], done' = done
    PROVE  DoneOK'
  <1>1. ASSUME NEW c \in Ops \cup Chans, NEW i \in 1 .. Len(done[c])
        PROVE  st'[done[c][i]] = "done" /\ DoneOf[done[c][i]] = c
    <2>1. done[c][i] \in Ops /\ st[done[c][i]] = "done" /\ DoneOf[done[c][i]] = c
      BY InDone
    <2> QED BY <2>1 DEF PlaceInv, Typed
  <1>2. \A x \in Ops : st'[x] = "done" => st[x] = "done"
    BY DEF PlaceInv, Typed
  <1> QED BY <1>1, <1>2 DEF PlaceInv, DoneOK

LEMMA AddStartKeeps ==
    ASSUME PlaceInv, NEW o \in Ops, NEW k \in Keys, AddStart(o, k) PROVE PlaceInv'
  <1>1. /\ stop = "no" /\ st[o] \in {"new", "back", "refused"}
        /\ st' = [st EXCEPT ![o] = "adding"] /\ key' = [key EXCEPT ![o] = k]
        /\ UNCHANGED <<queue, cur, pc, done, stop>>
    BY DEF AddStart
  <1>2. Typed'
    BY <1>1 DEF PlaceInv, Typed, States
  <1>3. QueueOK'
    BY <1>1, SameQueues
  <1>4. TakenOK'
    BY <1>1 DEF PlaceInv, Typed, TakenOK
  <1>5. DoneOK'
    BY <1>1, SameDone
  <1>6. StopOK'
    BY <1>1 DEF PlaceInv, StopOK
  <1> QED BY <1>2, <1>3, <1>4, <1>5, <1>6 DEF PlaceInv

LEMMA AddGivesUpKeeps ==
    ASSUME PlaceInv, NEW o \in Ops, AddGivesUp(o) PROVE PlaceInv'
  <1>1. PICK s \in {"refused", "lost"} : st' = [st EXCEPT ![o] = s]
    BY DEF AddGivesUp
  <1>2. /\ st[o] = "adding" /\ key' = [key EXCEPT ![o] = None]
        /\ UNCHANGED <<queue, cur, pc, done, stop>>
    BY DEF AddGivesUp
  <1>3. Typed'
    BY <1>1, <1>2 DEF PlaceInv, Typed, States
  <1>4. QueueOK'
    BY <1>1, <1>2, SameQueues
  <1>5. TakenOK'
    BY <1>1, <1>2 DEF PlaceInv, Typed, TakenOK
  <1>6. DoneOK'
    BY <1>1, <1>2, SameDone
  <1>7. StopOK'
    BY <1>1, <1>2 DEF PlaceInv, Typed, StopOK
  <1> QED BY <1>3, <1>4, <1>5, <1>6, <1>7 DEF PlaceInv

LEMMA AddSendKeeps ==
    ASSUME PlaceInv, NEW o \in Ops, AddSend(o) PROVE PlaceInv'
  <1>1. PICK w : w = Wk(o)
    OBVIOUS
  <1>2. /\ st[o] = "adding" /\ queue' = [queue EXCEPT ![w] = Append(queue[w], o)]
        /\ st' = [st EXCEPT ![o] = "queued"] /\ UNCHANGED <<key, cur, pc, done, stop>>
    BY <1>1 DEF AddSend
  <1>3. key[o] \in Keys /\ w \in Workers
    BY <1>1, <1>2, Constants DEF PlaceInv, QueueOK, Wk
  <1>4. queue[w] \in Seq(Ops)
    BY <1>3 DEF PlaceInv, Typed
  <1>5. /\ queue'[w] \in Seq(Ops) /\ Len(queue[w]) \in Nat /\ Len(queue'[w]) = Len(queue[w]) + 1
        /\ \A i \in 1 .. Len(queue[w]) : queue'[w][i] = queue[w][i]
        /\ queue'[w][Len(queue[w]) + 1] = o
    <2>1. queue'[w] = Append(queue[w], o)
      BY <1>2, <1>3 DEF PlaceInv, Typed
    <2> QED BY <1>4, <2>1, Appended
  <1>6. \A v \in Workers \ {w} : queue'[v] = queue[v]
    BY <1>2 DEF PlaceInv, Typed
  <1>7. Typed'
    BY <1>2, <1>3, <1>5 DEF PlaceInv, Typed, States
  <1>8. \A v \in Workers : \A i \in 1 .. Len(queue[v]) : queue[v][i] # o
    BY <1>2 DEF PlaceInv, QueueOK
  <1>9. QueueOK'
    <2>0. ASSUME NEW v \in Workers, NEW i \in 1 .. Len(queue[v])
          PROVE  st'[queue[v][i]] = "queued" /\ WorkerOf[key'[queue[v][i]]] = v
      <3>1. queue[v][i] \in Ops /\ st[queue[v][i]] = "queued" /\ Wk(queue[v][i]) = v
        BY InQueue
      <3>2. queue[v][i] # o
        BY <1>2, <3>1
      <3> QED BY <1>2, <3>1, <3>2 DEF PlaceInv, Typed, Wk
    <2>1. ASSUME NEW v \in Workers, NEW i \in 1 .. Len(queue'[v])
          PROVE  st'[queue'[v][i]] = "queued" /\ WorkerOf[key'[queue'[v][i]]] = v
      <3>1. CASE v # w
        <4>1. i \in 1 .. Len(queue[v]) /\ queue'[v][i] = queue[v][i]
          BY <1>6, <3>1
        <4> QED BY <2>0, <4>1
      <3>2. CASE v = w /\ i \in 1 .. Len(queue[w])
        <4>1. queue'[v][i] = queue[v][i]
          BY <1>5, <3>2
        <4> QED BY <2>0, <3>2, <4>1
      <3>3. CASE v = w /\ i = Len(queue[w]) + 1
        <4>1. queue'[v][i] = o
          BY <1>5, <3>3
        <4>2. st'[o] = "queued" /\ WorkerOf[key'[o]] = w
          BY <1>1, <1>2, <1>3 DEF PlaceInv, Typed, Wk
        <4> QED BY <3>3, <4>1, <4>2
      <3> QED BY <1>5, <3>1, <3>2, <3>3
    <2>2. ASSUME NEW v \in Workers, NEW i \in 1 .. Len(queue'[v]), NEW j \in 1 .. Len(queue'[v]),
                 queue'[v][i] = queue'[v][j]
          PROVE  i = j
      <3>1. CASE v # w
        BY <1>6, <2>2, <3>1 DEF PlaceInv, QueueOK
      <3>2. CASE v = w
        <4>1. i \in 1 .. Len(queue[w]) \/ i = Len(queue[w]) + 1
          BY <1>5, <3>2
        <4>2. j \in 1 .. Len(queue[w]) \/ j = Len(queue[w]) + 1
          BY <1>5, <3>2
        <4>3. \A x, y \in 1 .. Len(queue[w]) : queue[w][x] = queue[w][y] => x = y
          BY <1>3 DEF PlaceInv, QueueOK
        <4>4. \A x \in 1 .. Len(queue[w]) : queue[w][x] # o
          BY <1>3, <1>8
        <4> QED BY ONLY <1>5, <2>2, <3>2, <4>1, <4>2, <4>3, <4>4
      <3> QED BY <3>1, <3>2
    <2>3. ASSUME NEW x \in Ops, st'[x] = "queued"
          PROVE  key'[x] \in Keys /\ \E i \in 1 .. Len(queue'[Wk(x)']) : queue'[Wk(x)'][i] = x
      <3>1. Wk(x)' = Wk(x)
        BY <1>2 DEF Wk
      <3>2. CASE x = o
        <4>1. Len(queue[w]) + 1 \in 1 .. Len(queue'[w])
          BY <1>5
        <4> QED BY <1>1, <1>2, <1>3, <1>5, <3>1, <3>2, <4>1
      <3>3. CASE x # o
        <4>1. st[x] = "queued"
          BY <1>2, <2>3, <3>3 DEF PlaceInv, Typed
        <4>2. key[x] \in Keys /\ Wk(x) \in Workers
          BY <4>1, Constants DEF PlaceInv, QueueOK, Wk
        <4>3. PICK i \in 1 .. Len(queue[Wk(x)]) : queue[Wk(x)][i] = x
          BY <4>1 DEF PlaceInv, QueueOK
        <4>4. i \in 1 .. Len(queue'[Wk(x)]) /\ queue'[Wk(x)][i] = x
          BY <1>5, <1>6, <4>2, <4>3
        <4> QED BY <1>2, <3>1, <4>2, <4>4
      <3> QED BY <3>2, <3>3
    <2>4. \A x \in Ops : st'[x] = "adding" => key'[x] \in Keys
      BY <1>2 DEF PlaceInv, Typed, QueueOK
    <2> QED BY <2>1, <2>2, <2>3, <2>4 DEF QueueOK, Wk
  <1>10. TakenOK'
    BY <1>2 DEF PlaceInv, Typed, TakenOK
  <1>11. DoneOK'
    BY <1>2, SameDone
  <1>12. StopOK'
    <2>1. stop = "no"
      BY <1>2 DEF PlaceInv, StopOK
    <2>2. \A v \in Workers : pc[v] # "exited"
      BY <2>1 DEF PlaceInv, StopOK
    <2> QED BY <1>2, <2>1, <2>2 DEF StopOK
  <1> QED BY <1>7, <1>9, <1>10, <1>11, <1>12 DEF PlaceInv

LEMMA ReceiveKeeps ==
    ASSUME PlaceInv, NEW c \in Ops \cup Chans, Receive(c) PROVE PlaceInv'
  <1>1. PICK o : o = Head(done[c])
    OBVIOUS
  <1>2. /\ done[c] # <<>> /\ st' = [st EXCEPT ![o] = "back"]
        /\ done' = [done EXCEPT ![c] = Tail(done[c])] /\ key' = [key EXCEPT ![o] = None]
        /\ UNCHANGED <<queue, cur, pc, stop>>
    BY <1>1 DEF Receive
  <1>3. done[c] \in Seq(Ops)
    BY DEF PlaceInv, Typed
  <1>4. /\ Len(done[c]) \in Nat \ {0} /\ o = done[c][1] /\ o \in Ops
        /\ done'[c] \in Seq(Ops) /\ Len(done'[c]) = Len(done[c]) - 1
        /\ \A i \in 1 .. Len(done'[c]) : done'[c][i] = done[c][i + 1]
    <2>1. done'[c] = Tail(done[c])
      BY <1>2 DEF PlaceInv, Typed
    <2>2. /\ Len(done[c]) \in Nat \ {0} /\ o = done[c][1] /\ o \in Ops
          /\ Tail(done[c]) \in Seq(Ops) /\ Len(Tail(done[c])) = Len(done[c]) - 1
          /\ \A i \in 1 .. Len(Tail(done[c])) : Tail(done[c])[i] = done[c][i + 1]
      BY <1>1, <1>2, <1>3, HeadTail
    <2> QED BY <2>1, <2>2
  <1>5. \A d \in (Ops \cup Chans) \ {c} : done'[d] = done[d]
    BY <1>2 DEF PlaceInv, Typed
  <1>6. Typed'
    BY <1>2, <1>4 DEF PlaceInv, Typed, States
  <1>7. st[o] = "done" /\ DoneOf[o] = c
    BY <1>4 DEF PlaceInv, DoneOK
  <1>8. QueueOK'
    BY <1>2, <1>4, <1>7, SameQueues
  <1>9. TakenOK'
    BY <1>2, <1>4, <1>7 DEF PlaceInv, Typed, TakenOK
  <1>10. DoneOK'
    <2>1. ASSUME NEW d \in Ops \cup Chans, NEW i \in 1 .. Len(done'[d])
          PROVE  st'[done'[d][i]] = "done" /\ DoneOf[done'[d][i]] = d
      <3>1. CASE d # c
        <4>1. i \in 1 .. Len(done[d]) /\ done'[d][i] = done[d][i]
          BY <1>5, <3>1
        <4>2. done[d][i] # o /\ st[done[d][i]] = "done" /\ DoneOf[done[d][i]] = d
          BY <1>7, <3>1, <4>1 DEF PlaceInv, DoneOK
        <4> QED BY <1>2, <4>1, <4>2 DEF PlaceInv, Typed
      <3>2. CASE d = c
        <4>1. i + 1 \in 1 .. Len(done[c]) /\ i + 1 # 1 /\ done'[c][i] = done[c][i + 1]
          BY <1>4, <3>2
        <4>2. st[done[c][i + 1]] = "done" /\ DoneOf[done[c][i + 1]] = c
          BY <4>1 DEF PlaceInv, DoneOK
        <4>3. done[c][i + 1] # done[c][1]
          BY <1>4, <4>1 DEF PlaceInv, DoneOK
        <4> QED BY <1>2, <1>4, <3>2, <4>1, <4>2, <4>3 DEF PlaceInv, Typed
      <3> QED BY <3>1, <3>2
    <2>2. ASSUME NEW d \in Ops \cup Chans, NEW i \in 1 .. Len(done'[d]), NEW j \in 1 .. Len(done'[d]),
                 done'[d][i] = done'[d][j]
          PROVE  i = j
      <3>1. CASE d # c
        BY <1>5, <2>2, <3>1 DEF PlaceInv, DoneOK
      <3>2. CASE d = c
        <4>1. i + 1 \in 1 .. Len(done[c]) /\ j + 1 \in 1 .. Len(done[c])
              /\ done[c][i + 1] = done[c][j + 1]
          BY <1>4, <2>2, <3>2
        <4>2. i + 1 = j + 1
          BY <4>1 DEF PlaceInv, DoneOK
        <4> QED BY <4>2
      <3> QED BY <3>1, <3>2
    <2>3. ASSUME NEW x \in Ops, st'[x] = "done"
          PROVE  \E i \in 1 .. Len(done'[DoneOf[x]]) : done'[DoneOf[x]][i] = x
      <3>1. st[x] = "done" /\ x # o
        BY <1>2, <1>4, <2>3 DEF PlaceInv, Typed
      <3>2. PICK i \in 1 .. Len(done[DoneOf[x]]) : done[DoneOf[x]][i] = x
        BY <3>1 DEF PlaceInv, DoneOK
      <3>3. CASE DoneOf[x] # c
        BY <1>5, <3>2, <3>3, Constants
      <3>4. CASE DoneOf[x] = c
        <4>1. i # 1
          BY <1>4, <3>1, <3>2, <3>4
        <4>2. i - 1 \in 1 .. Len(done'[c]) /\ done'[c][i - 1] = x
          BY <1>4, <3>2, <3>4, <4>1
        <4> QED BY <3>4, <4>2
      <3> QED BY <3>3, <3>4
    <2> QED BY <2>1, <2>2, <2>3 DEF DoneOK
  <1>11. StopOK'
    BY <1>2, <1>4 DEF PlaceInv, Typed, StopOK
  <1> QED BY <1>6, <1>8, <1>9, <1>10, <1>11 DEF PlaceInv

LEMMA TakeKeeps ==
    ASSUME PlaceInv, NEW w \in Workers, Take(w) PROVE PlaceInv'
  <1>1. PICK o : o = Head(queue[w])
    OBVIOUS
  <1>2. /\ queue[w] # <<>> /\ pc[w] = "idle" /\ pc' = [pc EXCEPT ![w] = "start"]
        /\ cur' = [cur EXCEPT ![w] = o] /\ queue' = [queue EXCEPT ![w] = Tail(queue[w])]
        /\ st' = [st EXCEPT ![o] = "taken"] /\ UNCHANGED <<key, done, stop>>
    BY <1>1 DEF Take, At
  <1>3. queue[w] \in Seq(Ops)
    BY DEF PlaceInv, Typed
  <1>4. /\ Len(queue[w]) \in Nat \ {0} /\ o = queue[w][1] /\ o \in Ops
        /\ queue'[w] \in Seq(Ops) /\ Len(queue'[w]) = Len(queue[w]) - 1
        /\ \A i \in 1 .. Len(queue'[w]) : queue'[w][i] = queue[w][i + 1]
    <2>1. queue'[w] = Tail(queue[w])
      BY <1>2 DEF PlaceInv, Typed
    <2>2. /\ Len(queue[w]) \in Nat \ {0} /\ o = queue[w][1] /\ o \in Ops
          /\ Tail(queue[w]) \in Seq(Ops) /\ Len(Tail(queue[w])) = Len(queue[w]) - 1
          /\ \A i \in 1 .. Len(Tail(queue[w])) : Tail(queue[w])[i] = queue[w][i + 1]
      BY <1>1, <1>2, <1>3, HeadTail
    <2> QED BY <2>1, <2>2
  <1>5. \A v \in Workers \ {w} : queue'[v] = queue[v]
    BY <1>2 DEF PlaceInv, Typed
  <1>6. Typed'
    BY <1>2, <1>4 DEF PlaceInv, Typed, States, Busy
  <1>7. st[o] = "queued" /\ Wk(o) = w
    BY <1>4, InQueue
  <1>8. \A x \in Ops \ {o} : st'[x] = st[x]
    BY <1>2 DEF PlaceInv, Typed
  <1>9. QueueOK'
    <2>1. ASSUME NEW v \in Workers, NEW i \in 1 .. Len(queue'[v])
          PROVE  st'[queue'[v][i]] = "queued" /\ WorkerOf[key'[queue'[v][i]]] = v
      <3>1. CASE v # w
        <4>1. i \in 1 .. Len(queue[v]) /\ queue'[v][i] = queue[v][i]
          BY <1>5, <3>1
        <4>2. queue[v][i] \in Ops /\ st[queue[v][i]] = "queued" /\ Wk(queue[v][i]) = v
          BY <4>1, InQueue
        <4>3. queue[v][i] # o
          BY <1>7, <3>1, <4>2
        <4> QED BY <1>2, <1>8, <4>1, <4>2, <4>3 DEF Wk
      <3>2. CASE v = w
        <4>1. i + 1 \in 1 .. Len(queue[w]) /\ i + 1 # 1 /\ queue'[w][i] = queue[w][i + 1]
          BY <1>4, <3>2
        <4>2. queue[w][i + 1] \in Ops /\ st[queue[w][i + 1]] = "queued"
              /\ Wk(queue[w][i + 1]) = w
          BY <4>1, InQueue
        <4>3. queue[w][i + 1] # queue[w][1]
          BY <1>4, <4>1 DEF PlaceInv, QueueOK
        <4> QED BY <1>2, <1>4, <1>8, <3>2, <4>1, <4>2, <4>3 DEF Wk
      <3> QED BY <3>1, <3>2
    <2>2. ASSUME NEW v \in Workers, NEW i \in 1 .. Len(queue'[v]), NEW j \in 1 .. Len(queue'[v]),
                 queue'[v][i] = queue'[v][j]
          PROVE  i = j
      <3>1. CASE v # w
        BY <1>5, <2>2, <3>1 DEF PlaceInv, QueueOK
      <3>2. CASE v = w
        <4>0. i \in 1 .. Len(queue[w]) - 1 /\ j \in 1 .. Len(queue[w]) - 1
              /\ queue'[w][i] = queue[w][i + 1] /\ queue'[w][j] = queue[w][j + 1]
          BY <1>4, <3>2
        <4>1. i + 1 \in 1 .. Len(queue[w]) /\ j + 1 \in 1 .. Len(queue[w])
              /\ queue[w][i + 1] = queue[w][j + 1]
          BY <1>4, <2>2, <3>2, <4>0
        <4>2. i + 1 = j + 1
          BY <4>1 DEF PlaceInv, QueueOK
        <4> QED BY <4>2
      <3> QED BY <3>1, <3>2
    <2>3. ASSUME NEW x \in Ops, st'[x] = "queued"
          PROVE  key'[x] \in Keys /\ \E i \in 1 .. Len(queue'[Wk(x)']) : queue'[Wk(x)'][i] = x
      <3>1. x # o /\ st[x] = "queued"
        BY <1>2, <1>4, <2>3 DEF PlaceInv, Typed
      <3>2. Wk(x)' = Wk(x) /\ key'[x] = key[x]
        BY <1>2 DEF Wk
      <3>3. key[x] \in Keys /\ Wk(x) \in Workers
        BY <3>1, Constants DEF PlaceInv, QueueOK, Wk
      <3>4. PICK i \in 1 .. Len(queue[Wk(x)]) : queue[Wk(x)][i] = x
        BY <3>1 DEF PlaceInv, QueueOK
      <3>5. CASE Wk(x) # w
        BY <1>5, <3>2, <3>3, <3>4, <3>5
      <3>6. CASE Wk(x) = w
        <4>1. i # 1
          BY <1>4, <3>1, <3>4, <3>6
        <4>2. i - 1 \in 1 .. Len(queue'[w]) /\ queue'[w][i - 1] = x
          BY <1>4, <3>4, <3>6, <4>1
        <4> QED BY <3>2, <3>3, <3>6, <4>2
      <3> QED BY <3>5, <3>6
    <2>4. \A x \in Ops : st'[x] = "adding" => key'[x] \in Keys
      BY <1>2 DEF PlaceInv, Typed, QueueOK
    <2> QED BY <2>1, <2>2, <2>3, <2>4 DEF QueueOK, Wk
  <1>10. TakenOK'
    <2>1. pc'[w] = "start" /\ cur'[w] = o /\ st'[o] = "taken"
      BY <1>2, <1>4 DEF PlaceInv, Typed
    <2>2. \A v \in Workers \ {w} : pc'[v] = pc[v] /\ cur'[v] = cur[v]
      BY <1>2 DEF PlaceInv, Typed
    <2>3. \A v \in Workers : pc[v] \in Busy => st[cur[v]] = "taken" /\ cur[v] \in Ops \ {o} /\ v # w
      BY <1>2, <1>7 DEF PlaceInv, TakenOK, Busy
    <2>4. \A v \in Workers : pc'[v] \in Busy \cup {"restore"} => cur'[v] \in Ops
      BY <1>4, <2>1, <2>2 DEF PlaceInv, TakenOK
    <2>5. \A v \in Workers : pc'[v] \in Busy => st'[cur'[v]] = "taken"
      BY <1>8, <2>1, <2>2, <2>3
    <2>6. \A v, u \in Workers : pc'[v] \in Busy /\ pc'[u] \in Busy /\ cur'[v] = cur'[u] => v = u
      BY <2>1, <2>2, <2>3 DEF PlaceInv, TakenOK
    <2>7. ASSUME NEW x \in Ops, st'[x] = "taken" PROVE \E v \in Workers : pc'[v] \in Busy /\ cur'[v] = x
      <3>1. CASE x = o
        BY <2>1, <3>1 DEF Busy
      <3>2. CASE x # o
        <4>1. PICK v \in Workers : pc[v] \in Busy /\ cur[v] = x
          BY <1>8, <2>7, <3>2 DEF PlaceInv, TakenOK
        <4> QED BY <2>2, <2>3, <4>1
      <3> QED BY <3>1, <3>2
    <2> QED BY <2>4, <2>5, <2>6, <2>7 DEF TakenOK
  <1>11. DoneOK'
    BY <1>2, <1>4, <1>7, SameDone
  <1>12. StopOK'
    <2>1. \A v \in Workers : pc'[v] = "exited" => pc[v] = "exited" /\ v # w
      BY <1>2 DEF PlaceInv, Typed
    <2>2. \A x \in Ops : st'[x] = "adding" => st[x] = "adding"
      BY <1>2 DEF PlaceInv, Typed
    <2>3. stop # "returned"
      BY <1>2 DEF PlaceInv, StopOK
    <2> QED BY <1>2, <1>5, <2>1, <2>2, <2>3 DEF PlaceInv, StopOK
  <1> QED BY <1>6, <1>9, <1>10, <1>11, <1>12 DEF PlaceInv

\* A busy worker stays busy with the same operation.
LEMMA StaysBusy ==
    ASSUME PlaceInv, NEW w \in Workers, pc[w] \in Busy, NEW p \in Busy,
           pc' = [pc EXCEPT ![w] = p], UNCHANGED <<key, st, queue, cur, done, stop>>
    PROVE  PlaceInv'
  <1>1. \A v \in Workers : (pc'[v] \in Busy <=> pc[v] \in Busy) /\ (pc'[v] = "exited" <=> pc[v] = "exited")
                           /\ (pc'[v] = "restore" => pc[v] = "restore")
    BY DEF PlaceInv, Typed, Busy
  <1>2. Typed'
    BY DEF PlaceInv, Typed
  <1>3. QueueOK' /\ DoneOK'
    BY DEF PlaceInv, QueueOK, DoneOK, Wk
  <1>4. TakenOK'
    BY <1>1 DEF PlaceInv, TakenOK
  <1>5. StopOK'
    BY <1>1 DEF PlaceInv, StopOK
  <1> QED BY <1>2, <1>3, <1>4, <1>5 DEF PlaceInv

\* A busy worker delivers its operation and has it no more.
LEMMA DeliverKeeps ==
    ASSUME PlaceInv, NEW w \in Workers, pc[w] \in Busy, Deliver(cur[w]),
           NEW p \in {"idle", "restore"}, pc' = [pc EXCEPT ![w] = p],
           NEW free \in BOOLEAN, free => p = "idle",
           cur' = IF free THEN [cur EXCEPT ![w] = None] ELSE cur,
           UNCHANGED <<key, queue, stop>>
    PROVE  PlaceInv'
  <1>1. PICK o : o = cur[w]
    OBVIOUS
  <1>2. o \in Ops /\ st[o] = "taken"
    BY <1>1 DEF PlaceInv, TakenOK
  <1>3. PICK c \in Ops \cup Chans : c = DoneOf[o]
    BY <1>2, Constants
  <1>4. st' = [st EXCEPT ![o] = "done"] /\ done' = [done EXCEPT ![c] = Append(done[c], o)]
    BY <1>1, <1>3 DEF Deliver
  <1>5. done[c] \in Seq(Ops)
    BY DEF PlaceInv, Typed
  <1>6. /\ done'[c] \in Seq(Ops) /\ Len(done[c]) \in Nat /\ Len(done'[c]) = Len(done[c]) + 1
        /\ \A i \in 1 .. Len(done[c]) : done'[c][i] = done[c][i]
        /\ done'[c][Len(done[c]) + 1] = o
    <2>1. done'[c] = Append(done[c], o)
      BY <1>4 DEF PlaceInv, Typed
    <2> QED BY <1>2, <1>5, <2>1, Appended
  <1>7. \A d \in (Ops \cup Chans) \ {c} : done'[d] = done[d]
    BY <1>4 DEF PlaceInv, Typed
  <1>8. Typed'
    BY <1>2, <1>4, <1>6 DEF PlaceInv, Typed, States
  <1>9. \A x \in Ops \ {o} : st'[x] = st[x]
    BY <1>4 DEF PlaceInv, Typed
  <1>10. st'[o] = "done"
    BY <1>2, <1>4 DEF PlaceInv, Typed
  <1>11. QueueOK'
    <2>1. key' = [key EXCEPT ![o] = key[o]]
      BY DEF PlaceInv, Typed
    <2> QED BY <1>2, <1>4, <2>1, SameQueues
  <1>12. TakenOK'
    <2>1. \A v \in Workers \ {w} : pc'[v] = pc[v] /\ cur'[v] = cur[v]
      BY DEF PlaceInv, Typed
    <2>2. pc'[w] = p /\ p \notin Busy /\ (p = "restore" => cur'[w] = o)
      BY <1>1 DEF PlaceInv, Typed, Busy
    <2>3. \A v \in Workers \ {w} : pc[v] \in Busy => cur[v] \in Ops \ {o}
      BY <1>1 DEF PlaceInv, TakenOK
    <2>4. \A v \in Workers : pc'[v] \in Busy \cup {"restore"} => cur'[v] \in Ops
      BY <1>2, <2>1, <2>2 DEF PlaceInv, TakenOK
    <2>5. \A v \in Workers : pc'[v] \in Busy => st'[cur'[v]] = "taken"
      BY <1>9, <2>1, <2>2, <2>3 DEF PlaceInv, TakenOK
    <2>6. \A v, u \in Workers : pc'[v] \in Busy /\ pc'[u] \in Busy /\ cur'[v] = cur'[u] => v = u
      BY <2>1, <2>2 DEF PlaceInv, TakenOK
    <2>7. ASSUME NEW x \in Ops, st'[x] = "taken" PROVE \E v \in Workers : pc'[v] \in Busy /\ cur'[v] = x
      <3>1. x # o /\ st[x] = "taken"
        BY <1>9, <1>10, <2>7
      <3>2. PICK v \in Workers : pc[v] \in Busy /\ cur[v] = x
        BY <3>1 DEF PlaceInv, TakenOK
      <3> QED BY <1>1, <2>1, <3>1, <3>2
    <2> QED BY <2>4, <2>5, <2>6, <2>7 DEF TakenOK
  <1>13. DoneOK'
    <2>0. ASSUME NEW d \in Ops \cup Chans, NEW i \in 1 .. Len(done[d])
          PROVE  st'[done[d][i]] = "done" /\ DoneOf[done[d][i]] = d /\ done[d][i] # o
      <3>1. done[d][i] \in Ops /\ st[done[d][i]] = "done" /\ DoneOf[done[d][i]] = d
        BY InDone
      <3> QED BY <1>2, <1>9, <3>1
    <2>1. ASSUME NEW d \in Ops \cup Chans, NEW i \in 1 .. Len(done'[d])
          PROVE  st'[done'[d][i]] = "done" /\ DoneOf[done'[d][i]] = d
      <3>1. CASE d # c
        BY <1>7, <2>0, <3>1
      <3>2. CASE d = c /\ i \in 1 .. Len(done[c])
        BY <1>6, <2>0, <3>2
      <3>3. CASE d = c /\ i = Len(done[c]) + 1
        BY <1>3, <1>6, <1>10, <3>3
      <3> QED BY <1>6, <3>1, <3>2, <3>3
    <2>2. ASSUME NEW d \in Ops \cup Chans, NEW i \in 1 .. Len(done'[d]), NEW j \in 1 .. Len(done'[d]),
                 done'[d][i] = done'[d][j]
          PROVE  i = j
      <3>1. CASE d # c
        BY <1>7, <2>2, <3>1 DEF PlaceInv, DoneOK
      <3>2. CASE d = c
        <4>1. i \in 1 .. Len(done[c]) \/ i = Len(done[c]) + 1
          BY <1>6, <3>2
        <4>2. j \in 1 .. Len(done[c]) \/ j = Len(done[c]) + 1
          BY <1>6, <3>2
        <4>3. \A x, y \in 1 .. Len(done[c]) : done[c][x] = done[c][y] => x = y
          BY DEF PlaceInv, DoneOK
        <4>4. \A x \in 1 .. Len(done[c]) : done[c][x] # o
          BY <2>0
        <4> QED BY ONLY <1>6, <2>2, <3>2, <4>1, <4>2, <4>3, <4>4
      <3> QED BY <3>1, <3>2
    <2>3. ASSUME NEW x \in Ops, st'[x] = "done"
          PROVE  \E i \in 1 .. Len(done'[DoneOf[x]]) : done'[DoneOf[x]][i] = x
      <3>1. CASE x = o
        <4>1. Len(done[c]) + 1 \in 1 .. Len(done'[c])
          BY <1>6
        <4> QED BY <1>3, <1>6, <3>1, <4>1
      <3>2. CASE x # o
        <4>1. DoneOf[x] \in Ops \cup Chans
          BY Constants
        <4>2. PICK i \in 1 .. Len(done[DoneOf[x]]) : done[DoneOf[x]][i] = x
          BY <1>9, <2>3, <3>2 DEF PlaceInv, DoneOK
        <4> QED BY <1>6, <1>7, <4>1, <4>2
      <3> QED BY <3>1, <3>2
    <2> QED BY <2>1, <2>2, <2>3 DEF DoneOK
  <1>14. StopOK'
    <2>1. \A v \in Workers : pc'[v] = "exited" <=> pc[v] = "exited"
      BY DEF PlaceInv, Typed, Busy
    <2>2. \A x \in Ops : st'[x] = "adding" => st[x] = "adding"
      BY <1>9, <1>10
    <2> QED BY <2>1, <2>2 DEF PlaceInv, StopOK
  <1> QED BY <1>8, <1>11, <1>12, <1>13, <1>14 DEF PlaceInv

LEMMA RestoreKeeps ==
    ASSUME PlaceInv, NEW w \in Workers, Restore(w) PROVE PlaceInv'
  <1>1. /\ pc[w] = "restore" /\ pc' = [pc EXCEPT ![w] = "idle"]
        /\ cur' = [cur EXCEPT ![w] = None] /\ UNCHANGED <<key, st, queue, done, stop>>
    BY DEF Restore, At
  <1>2. \A v \in Workers \ {w} : pc'[v] = pc[v] /\ cur'[v] = cur[v]
    BY <1>1 DEF PlaceInv, Typed
  <1>3. pc'[w] = "idle" /\ pc[w] \notin Busy
    BY <1>1 DEF PlaceInv, Typed, Busy
  <1>4. Typed'
    BY <1>1 DEF PlaceInv, Typed
  <1>5. QueueOK' /\ DoneOK'
    BY <1>1 DEF PlaceInv, QueueOK, DoneOK, Wk
  <1>6. TakenOK'
    BY <1>1, <1>2, <1>3 DEF PlaceInv, TakenOK, Busy
  <1>7. StopOK'
    BY <1>1, <1>2, <1>3 DEF PlaceInv, StopOK
  <1> QED BY <1>4, <1>5, <1>6, <1>7 DEF PlaceInv

LEMMA ExitKeeps ==
    ASSUME PlaceInv, NEW w \in Workers, Exit(w) PROVE PlaceInv'
  <1>1. /\ stop = "waiting" /\ queue[w] = <<>> /\ pc[w] = "idle"
        /\ pc' = [pc EXCEPT ![w] = "exited"] /\ UNCHANGED <<key, st, queue, cur, done, stop>>
    BY DEF Exit, At
  <1>2. \A v \in Workers \ {w} : pc'[v] = pc[v]
    BY <1>1 DEF PlaceInv, Typed
  <1>3. pc'[w] = "exited" /\ pc[w] \notin Busy
    BY <1>1 DEF PlaceInv, Typed, Busy
  <1>4. Typed'
    BY <1>1 DEF PlaceInv, Typed
  <1>5. QueueOK' /\ DoneOK'
    BY <1>1 DEF PlaceInv, QueueOK, DoneOK, Wk
  <1>6. TakenOK'
    BY <1>1, <1>2, <1>3 DEF PlaceInv, TakenOK, Busy
  <1>7. StopOK'
    BY <1>1, <1>2, <1>3 DEF PlaceInv, StopOK
  <1> QED BY <1>4, <1>5, <1>6, <1>7 DEF PlaceInv

LEMMA StopKeeps ==
    ASSUME PlaceInv, Stop \/ StopReturns PROVE PlaceInv'
  <1>0. UNCHANGED <<key, st, queue, cur, done, pc>>
    BY DEF Stop, StopReturns
  <1>1. Typed' /\ DoneOK'
    <2>1. Typed /\ DoneOK
      BY DEF PlaceInv
    <2>2. Typed'
      BY <1>0, <2>1 DEF Typed
    <2>3. DoneOK'
      BY <1>0, <2>1 DEF DoneOK
    <2> QED BY <2>2, <2>3
  <1>2. QueueOK'
    <2>1. QueueOK
      BY DEF PlaceInv
    <2> QED BY <1>0, <2>1 DEF QueueOK, Wk
  <1>3. TakenOK'
    <2>1. TakenOK
      BY DEF PlaceInv
    <2> QED BY <1>0, <2>1 DEF TakenOK
  <1>4. StopOK'
    BY DEF Stop, StopReturns, PlaceInv, StopOK
  <1> QED BY <1>1, <1>2, <1>3, <1>4 DEF PlaceInv

LEMMA WorkerKeeps ==
    ASSUME PlaceInv, NEW w \in Workers, Worker(w) PROVE PlaceInv'
  <1>1. CASE Take(w)
    BY <1>1, TakeKeeps
  <1>2. CASE SkipOp(w)
    BY <1>2, StaysBusy DEF SkipOp, At, Busy
  <1>3. CASE BeginOp(w)
    BY <1>3, StaysBusy DEF BeginOp, At, Busy
  <1>4. CASE EndOp(w)
    BY <1>4, StaysBusy DEF EndOp, At, Busy
  <1>5. CASE PanicOp(w)
    BY <1>5, StaysBusy DEF PanicOp, At, Busy
  <1>6. CASE Reply(w)
    <2>1. pc[w] \in Busy /\ pc' = [pc EXCEPT ![w] = "restore"] /\ Deliver(cur[w])
          /\ UNCHANGED <<key, queue, stop>>
          /\ cur' = IF FALSE THEN [cur EXCEPT ![w] = None] ELSE cur
      BY <1>6 DEF Reply, At, Busy
    <2> QED BY <2>1, DeliverKeeps
  <1>7. CASE ReplyFailure(w)
    <2>1. pc[w] \in Busy /\ pc' = [pc EXCEPT ![w] = "idle"] /\ Deliver(cur[w])
          /\ UNCHANGED <<key, queue, stop>>
          /\ cur' = IF TRUE THEN [cur EXCEPT ![w] = None] ELSE cur
      BY <1>7 DEF ReplyFailure, At, Busy
    <2> QED BY <2>1, DeliverKeeps
  <1>8. CASE Restore(w)
    BY <1>8, RestoreKeeps
  <1>9. CASE Exit(w)
    BY <1>9, ExitKeeps
  <1> QED BY <1>1, <1>2, <1>3, <1>4, <1>5, <1>6, <1>7, <1>8, <1>9 DEF Worker

LEMMA PlaceStep == PlaceInv /\ [Next]_vars => PlaceInv'
  <1> SUFFICES ASSUME PlaceInv, [Next]_vars PROVE PlaceInv'
    OBVIOUS
  <1>1. ASSUME NEW o \in Ops, NEW k \in Keys, AddStart(o, k) PROVE PlaceInv'
    BY <1>1, AddStartKeeps
  <1>2. ASSUME NEW o \in Ops, AddSend(o) PROVE PlaceInv'
    BY <1>2, AddSendKeeps
  <1>3. ASSUME NEW o \in Ops, AddGivesUp(o) PROVE PlaceInv'
    BY <1>3, AddGivesUpKeeps
  <1>4. ASSUME NEW o \in Ops, EndContext(o) PROVE PlaceInv'
    BY <1>4, SamePlace DEF EndContext
  <1>5. ASSUME NEW c \in Ops \cup Chans, Receive(c) PROVE PlaceInv'
    BY <1>5, ReceiveKeeps
  <1>6. CASE Stop \/ StopReturns
    BY <1>6, StopKeeps
  <1>7. ASSUME NEW w \in Workers, Worker(w) PROVE PlaceInv'
    BY <1>7, WorkerKeeps
  <1>8. ASSUME NEW w \in Workers, LimitEnds(w) PROVE PlaceInv'
    BY <1>8, SamePlace DEF LimitEnds
  <1>9. CASE UNCHANGED vars
    BY <1>9, SamePlace DEF vars
  <1> QED BY <1>1, <1>2, <1>3, <1>4, <1>5, <1>6, <1>7, <1>8, <1>9 DEF Next

\* Every operation is where its state says and nowhere else.
THEOREM PlaceInvariant == Spec => []PlaceInv
  <1> QED BY InitPlace, PlaceStep, PTL DEF Spec

-----------------------------------------------------------------------------
LEMMA PlaceImpliesOne == PlaceInv => OnePlace
  <1> SUFFICES ASSUME PlaceInv, NEW o \in Ops
               PROVE  Cardinality({w \in Workers : \E i \in 1 .. Len(queue[w]) : queue[w][i] = o})
          + Cardinality({w \in Workers : pc[w] \in Busy /\ cur[w] = o})
          + Cardinality({c \in Ops \cup Chans : \E i \in 1 .. Len(done[c]) : done[c][i] = o})
        = IF st[o] \in {"queued", "taken", "done"} THEN 1 ELSE 0
    BY DEF OnePlace
  <1> DEFINE q == {w \in Workers : \E i \in 1 .. Len(queue[w]) : queue[w][i] = o}
             b == {w \in Workers : pc[w] \in Busy /\ cur[w] = o}
             d == {c \in Ops \cup Chans : \E i \in 1 .. Len(done[c]) : done[c][i] = o}
  <1>1. Cardinality(q) = IF st[o] = "queued" THEN 1 ELSE 0
    <2>1. st[o] = "queued" => q = {Wk(o)}
      <3>1. st[o] = "queued" => Wk(o) \in Workers /\ Wk(o) \in q
        BY Constants DEF PlaceInv, QueueOK, Wk
      <3>2. \A w \in q : w = Wk(o)
        BY InQueue
      <3> QED BY <3>1, <3>2
    <2>2. st[o] # "queued" => q = {}
      BY InQueue
    <2> HIDE DEF q
    <2> QED BY <2>1, <2>2, FS_Singleton, FS_EmptySet
  <1>2. Cardinality(b) = IF st[o] = "taken" THEN 1 ELSE 0
    <2>1. ASSUME st[o] = "taken" PROVE \E w : b = {w}
      <3>1. PICK w \in Workers : pc[w] \in Busy /\ cur[w] = o
        BY <2>1 DEF PlaceInv, TakenOK
      <3>2. \A v \in b : v = w
        BY <3>1 DEF PlaceInv, TakenOK
      <3> QED BY <3>1, <3>2
    <2>2. st[o] # "taken" => b = {}
      BY DEF PlaceInv, TakenOK
    <2> HIDE DEF b
    <2> QED BY <2>1, <2>2, FS_Singleton, FS_EmptySet
  <1>3. Cardinality(d) = IF st[o] = "done" THEN 1 ELSE 0
    <2>1. st[o] = "done" => d = {DoneOf[o]}
      <3>1. st[o] = "done" => DoneOf[o] \in d
        BY Constants DEF PlaceInv, DoneOK
      <3>2. \A c \in d : c = DoneOf[o]
        BY InDone
      <3> QED BY <3>1, <3>2
    <2>2. st[o] # "done" => d = {}
      BY InDone
    <2> HIDE DEF d
    <2> QED BY <2>1, <2>2, FS_Singleton, FS_EmptySet
  <1> HIDE DEF q, b, d
  <1>4. Cardinality(q) + Cardinality(b) + Cardinality(d)
          = IF st[o] \in {"queued", "taken", "done"} THEN 1 ELSE 0
    BY <1>1, <1>2, <1>3
  <1> QED BY <1>4 DEF q, b, d

\* For any number of workers, capacities and Adds, ended contexts and panics: no queue,
\* worker and done channel share an operation, and one that Add put into a queue is in one
\* of them until it is back.  Nothing is said of one that Add lost.
THEOREM OperationsInOnePlace == Spec => []OnePlace
  <1> QED BY PlaceInvariant, PlaceImpliesOne, PTL

\* Stop returns only when every operation that was accepted has been processed.
THEOREM StopHasDrained == Spec => []StopDrains
  <1>1. PlaceInv => StopDrains
    <2> SUFFICES ASSUME PlaceInv, stop = "returned", NEW o \in Ops
                 PROVE  st[o] \notin {"queued", "taken"}
      BY DEF StopDrains
    <2>1. \A w \in Workers : pc[w] = "exited" /\ queue[w] = <<>>
      BY DEF PlaceInv, StopOK
    <2>2. st[o] # "taken"
      BY <2>1 DEF PlaceInv, TakenOK, Busy
    <2>3. ASSUME st[o] = "queued" PROVE FALSE
      <3>1. PICK i \in 1 .. Len(queue[Wk(o)]) : TRUE
        BY <2>3 DEF PlaceInv, QueueOK
      <3>2. Wk(o) \in Workers
        BY <2>3, Constants DEF PlaceInv, QueueOK, Wk
      <3> QED BY <2>1, <3>1, <3>2
    <2> QED BY <2>2, <2>3
  <1> QED BY <1>1, PlaceInvariant, PTL

-----------------------------------------------------------------------------
(* The order under a key.                                                      *)

\* Worker w has an operation in hand that it has not carried out.
Works(w) == pc[w] \in {"start", "exec"}

\* Accepted and not carried out.
Unfinished == {o \in Ops : st[o] = "queued" \/ \E w \in Workers : Works(w) /\ cur[w] = o}

\* pending[k] is what is unfinished under k, each once.
PendingOK ==
    /\ pending \in [Keys -> Seq(Ops)]
    /\ \A k \in Keys : \A i \in 1 .. Len(pending[k]) :
          key[pending[k][i]] = k /\ pending[k][i] \in Unfinished
    /\ \A k \in Keys : \A i, j \in 1 .. Len(pending[k]) : pending[k][i] = pending[k][j] => i = j
    /\ \A o \in Ops : o \in Unfinished =>
          key[o] \in Keys /\ \E i \in 1 .. Len(pending[key[o]]) : pending[key[o]][i] = o

\* Only the first may be in a worker's hand, that of the key, and the others follow one
\* another in its queue.
InHand == \A w \in Workers : Works(w) => Wk(cur[w]) = w

OthersQueued ==
    \A k \in Keys : \A i, j \in 1 .. Len(pending[k]) : i < j => st[pending[k][j]] = "queued"

InOrder ==
    \A k \in Keys : \A i, j \in 1 .. Len(pending[k]) : \A p, q \in 1 .. Len(queue[WorkerOf[k]]) :
        i < j /\ queue[WorkerOf[k]][p] = pending[k][i] /\ queue[WorkerOf[k]][q] = pending[k][j] => p < q

OrderOK == InHand /\ OthersQueued /\ InOrder

OrderInv == PendingOK /\ OrderOK

LEMMA InitOrder == Init => OrderInv
  BY DEF Init, OrderInv, PendingOK, OrderOK, InHand, OthersQueued, InOrder, Unfinished, Works

\* What is pending under a key is a sequence of operations that are not finished.
LEMMA Pends ==
    ASSUME OrderInv, NEW k \in Keys, NEW i \in 1 .. Len(pending[k])
    PROVE  /\ Len(pending[k]) \in Nat \ {0} /\ 1 \in 1 .. Len(pending[k]) /\ i \in Nat
           /\ pending[k][i] \in Ops /\ key[pending[k][i]] = k /\ pending[k][i] \in Unfinished
  <1>1. pending[k] \in Seq(Ops)
    BY DEF OrderInv, PendingOK
  <1>2. Len(pending[k]) \in Nat \ {0} /\ 1 \in 1 .. Len(pending[k]) /\ i \in Nat /\ pending[k][i] \in Ops
    BY <1>1
  <1> QED BY <1>2 DEF OrderInv, PendingOK

LEMMA RemoveHead ==
    ASSUME NEW S, NEW s \in Seq(S), s # <<>>
    PROVE  RemoveFirst(s, s[1]) = Tail(s)
  <1>1. Len(s) \in Nat \ {0} /\ 1 \in 1 .. Len(s)
    OBVIOUS
  <1> DEFINE I == {i \in 1 .. Len(s) : s[i] = s[1]}
  <1>2. 1 \in I /\ \A i \in I : 1 <= i
    BY <1>1
  <1>3. Min(I) = 1
    BY <1>2 DEF Min
  <1>4. SelectInSeq(s, LAMBDA v : v = s[1]) = 1
    BY <1>2, <1>3 DEF SelectInSeq
  <1>5. RemoveFirst(s, s[1]) = RemoveAt(s, 1)
    BY <1>1, <1>4 DEF RemoveFirst
  <1>6. RemoveAt(s, 1) = SubSeq(s, 1, 0) \o SubSeq(s, 2, Len(s))
    BY DEF RemoveAt
  <1>7. SubSeq(s, 1, 0) = <<>>
    OBVIOUS
  <1>8. SubSeq(s, 2, Len(s)) = Tail(s) /\ Tail(s) \in Seq(S)
    BY TailIsSubSeq
  <1>9. <<>> \o Tail(s) = Tail(s)
    BY <1>8
  <1> QED BY ONLY <1>5, <1>6, <1>7, <1>8, <1>9

\* A step that leaves what is unfinished alone.
LEMMA SameOrder ==
    ASSUME PlaceInv, OrderInv, UNCHANGED <<pending, queue>>,
           \A o \in Ops : o \in Unfinished' <=> o \in Unfinished,
           \A o \in Ops : o \in Unfinished => key'[o] = key[o] /\ st'[o] = st[o],
           \A w \in Workers : Works(w)' => Works(w) /\ cur'[w] = cur[w]
    PROVE  OrderInv'
  <1>1. \A k \in Keys : \A i \in 1 .. Len(pending[k]) :
           /\ pending[k][i] \in Ops /\ pending[k][i] \in Unfinished /\ key[pending[k][i]] = k
    BY DEF OrderInv, PendingOK
  <1>2. PendingOK'
    <2>1. pending' \in [Keys -> Seq(Ops)]
          /\ \A k \in Keys : \A i, j \in 1 .. Len(pending'[k]) : pending'[k][i] = pending'[k][j] => i = j
      BY DEF OrderInv, PendingOK
    <2>2. \A k \in Keys : \A i \in 1 .. Len(pending'[k]) :
             key'[pending'[k][i]] = k /\ pending'[k][i] \in Unfinished'
      BY <1>1
    <2>3. \A o \in Ops : o \in Unfinished' =>
             key'[o] \in Keys /\ \E i \in 1 .. Len(pending'[key'[o]]) : pending'[key'[o]][i] = o
      BY DEF OrderInv, PendingOK
    <2> QED BY <2>1, <2>2, <2>3 DEF PendingOK
  <1>3. OrderOK'
    <2>1. ASSUME NEW w \in Workers, Works(w)' PROVE Wk(cur[w])' = w
      <3>1. cur[w] \in Ops /\ cur[w] \in Unfinished /\ cur'[w] = cur[w] /\ Wk(cur[w]) = w
        BY <2>1 DEF PlaceInv, TakenOK, OrderInv, OrderOK, InHand, Works, Busy, Unfinished
      <3> QED BY <3>1 DEF Wk
    <2> QED BY <1>1, <2>1 DEF OrderInv, OrderOK, OthersQueued, InOrder, InHand
  <1> QED BY <1>2, <1>3 DEF OrderInv

LEMMA AddSendOrders ==
    ASSUME PlaceInv, OrderInv, NEW o \in Ops, AddSend(o)
    PROVE  OrderInv' /\ Abstract!Accept(key[o], o)
  <1>1. PICK w : w = Wk(o)
    OBVIOUS
  <1>2. PICK k : k = key[o]
    OBVIOUS
  <1>3. /\ st[o] = "adding" /\ queue' = [queue EXCEPT ![w] = Append(queue[w], o)]
        /\ st' = [st EXCEPT ![o] = "queued"] /\ UNCHANGED <<key, cur, pc>>
        /\ pending' = [pending EXCEPT ![k] = Append(pending[k], o)]
    BY <1>1, <1>2 DEF AddSend
  <1>4. k \in Keys /\ w \in Workers /\ w = WorkerOf[k]
    BY <1>1, <1>2, <1>3, Constants DEF PlaceInv, QueueOK, Wk
  <1>5. \A x \in Ops : x \in Unfinished' <=> x \in Unfinished \/ x = o
    BY <1>3 DEF Unfinished, Works, PlaceInv, Typed
  <1>6. ~o \in Unfinished
    BY <1>3 DEF Unfinished, Works, PlaceInv, TakenOK, Busy
  <1>7. /\ pending'[k] \in Seq(Ops) /\ Len(pending[k]) \in Nat
        /\ Len(pending'[k]) = Len(pending[k]) + 1
        /\ \A i \in 1 .. Len(pending[k]) : pending'[k][i] = pending[k][i]
        /\ pending'[k][Len(pending[k]) + 1] = o
    <2>1. pending'[k] = Append(pending[k], o) /\ pending[k] \in Seq(Ops)
      BY <1>3, <1>4 DEF OrderInv, PendingOK
    <2> QED BY <2>1, Appended
  <1>8. \A m \in Keys \ {k} : pending'[m] = pending[m]
    BY <1>3 DEF OrderInv, PendingOK
  <1>9. \A m \in Keys : \A i \in 1 .. Len(pending[m]) :
           pending[m][i] \in Ops \ {o} /\ key[pending[m][i]] = m /\ pending[m][i] \in Unfinished
    BY <1>6 DEF OrderInv, PendingOK
  <1>10. /\ queue'[w] \in Seq(Ops) /\ Len(queue[w]) \in Nat /\ Len(queue'[w]) = Len(queue[w]) + 1
         /\ \A i \in 1 .. Len(queue[w]) : queue'[w][i] = queue[w][i]
         /\ queue'[w][Len(queue[w]) + 1] = o
    <2>1. queue'[w] = Append(queue[w], o) /\ queue[w] \in Seq(Ops)
      BY <1>3, <1>4 DEF PlaceInv, Typed
    <2> QED BY <2>1, Appended
  <1>11. \A v \in Workers \ {w} : queue'[v] = queue[v]
    BY <1>3 DEF PlaceInv, Typed
  <1>12. \A i \in 1 .. Len(queue[w]) : queue[w][i] # o
    BY <1>3, <1>4 DEF PlaceInv, QueueOK
  <1>13. PendingOK'
    <2>1. pending' \in [Keys -> Seq(Ops)]
      BY <1>3, <1>4, <1>7, <1>8 DEF OrderInv, PendingOK
    <2>2. ASSUME NEW m \in Keys, NEW i \in 1 .. Len(pending'[m])
          PROVE  key'[pending'[m][i]] = m /\ pending'[m][i] \in Unfinished'
      <3>1. CASE m # k
        BY <1>3, <1>5, <1>8, <1>9, <3>1
      <3>2. CASE m = k /\ i \in 1 .. Len(pending[k])
        BY <1>3, <1>4, <1>5, <1>7, <1>9, <3>2
      <3>3. CASE m = k /\ i = Len(pending[k]) + 1
        BY <1>2, <1>3, <1>5, <1>7, <3>3
      <3> QED BY <1>7, <3>1, <3>2, <3>3
    <2>3. ASSUME NEW m \in Keys, NEW i \in 1 .. Len(pending'[m]), NEW j \in 1 .. Len(pending'[m]),
                 pending'[m][i] = pending'[m][j]
          PROVE  i = j
      <3>1. CASE m # k
        BY <1>8, <2>3, <3>1 DEF OrderInv, PendingOK
      <3>2. CASE m = k
        <4>1. i \in 1 .. Len(pending[k]) \/ i = Len(pending[k]) + 1
          BY <1>7, <3>2
        <4>2. j \in 1 .. Len(pending[k]) \/ j = Len(pending[k]) + 1
          BY <1>7, <3>2
        <4>3. \A x, y \in 1 .. Len(pending[k]) : pending[k][x] = pending[k][y] => x = y
          BY <1>4 DEF OrderInv, PendingOK
        <4>4. \A x \in 1 .. Len(pending[k]) : pending[k][x] # o
          BY <1>4, <1>9
        <4> QED BY ONLY <1>7, <2>3, <3>2, <4>1, <4>2, <4>3, <4>4
      <3> QED BY <3>1, <3>2
    <2>4. ASSUME NEW x \in Ops, x \in Unfinished'
          PROVE  key'[x] \in Keys /\ \E i \in 1 .. Len(pending'[key'[x]]) : pending'[key'[x]][i] = x
      <3>1. CASE x = o
        <4>1. Len(pending[k]) + 1 \in 1 .. Len(pending'[k])
          BY <1>7
        <4> QED BY <1>2, <1>3, <1>4, <1>7, <3>1, <4>1
      <3>2. CASE x # o
        <4>1. key[x] \in Keys
          BY <1>5, <2>4, <3>2 DEF OrderInv, PendingOK
        <4>2. PICK i \in 1 .. Len(pending[key[x]]) : pending[key[x]][i] = x
          BY <1>5, <2>4, <3>2 DEF OrderInv, PendingOK
        <4>3. i \in 1 .. Len(pending'[key[x]]) /\ pending'[key[x]][i] = x
          BY <1>7, <1>8, <4>1, <4>2
        <4> QED BY <1>3, <4>1, <4>3
      <3> QED BY <3>1, <3>2
    <2> QED BY <2>1, <2>2, <2>3, <2>4 DEF PendingOK
  <1>14. OrderOK'
    <2>1. \A v \in Workers : Works(v)' => Wk(cur[v])' = v
      BY <1>3 DEF OrderInv, OrderOK, InHand, Works, Wk
    <2>2. ASSUME NEW m \in Keys, NEW i \in 1 .. Len(pending'[m]), NEW j \in 1 .. Len(pending'[m]), i < j
          PROVE  st'[pending'[m][j]] = "queued"
      <3>1. CASE m # k
        BY <1>3, <1>8, <1>9, <2>2, <3>1 DEF OrderInv, OrderOK, OthersQueued, PlaceInv, Typed
      <3>2. CASE m = k /\ j \in 1 .. Len(pending[k])
        <4>1. i \in 1 .. Len(pending[k])
          BY <1>7, <2>2, <3>2
        <4>2. st[pending[k][j]] = "queued" /\ pending[k][j] \in Ops \ {o}
          BY <1>4, <1>9, <2>2, <3>2, <4>1 DEF OrderInv, OrderOK, OthersQueued
        <4> QED BY <1>3, <1>7, <3>2, <4>2 DEF PlaceInv, Typed
      <3>3. CASE m = k /\ j = Len(pending[k]) + 1
        BY <1>3, <1>7, <3>3 DEF PlaceInv, Typed
      <3> QED BY <1>7, <3>1, <3>2, <3>3
    <2>3. ASSUME NEW m \in Keys, NEW i \in 1 .. Len(pending'[m]), NEW j \in 1 .. Len(pending'[m]), i < j,
                 NEW p \in 1 .. Len(queue'[WorkerOf[m]]), NEW q \in 1 .. Len(queue'[WorkerOf[m]]),
                 queue'[WorkerOf[m]][p] = pending'[m][i], queue'[WorkerOf[m]][q] = pending'[m][j]
          PROVE  p < q
      <3>0. WorkerOf[m] \in Workers
        BY Constants
      <3>1. CASE j \in 1 .. Len(pending[m])
        <4>1. i \in 1 .. Len(pending[m]) /\ pending'[m][i] = pending[m][i] /\ pending'[m][j] = pending[m][j]
          <5>1. i \in Nat /\ j \in Nat /\ 1 <= i /\ i < j /\ j <= Len(pending[m])
            BY <2>3, <3>1
          <5>2. i \in 1 .. Len(pending[m])
            <6>1. pending[m] \in Seq(Ops)
              BY DEF OrderInv, PendingOK
            <6> QED BY <5>1, <6>1
          <5>3. CASE m = k
            BY <1>7, <3>1, <5>2, <5>3
          <5>4. CASE m # k
            BY <1>8, <5>2, <5>4
          <5> QED BY <5>2, <5>3, <5>4
        <4>2. pending[m][i] # o /\ pending[m][j] # o
          BY <1>9, <3>1, <4>1
        <4>3. /\ p \in 1 .. Len(queue[WorkerOf[m]]) /\ queue[WorkerOf[m]][p] = pending[m][i]
              /\ q \in 1 .. Len(queue[WorkerOf[m]]) /\ queue[WorkerOf[m]][q] = pending[m][j]
          <5>1. CASE WorkerOf[m] = w
            <6>1. /\ p \in 1 .. Len(queue[w]) \/ p = Len(queue[w]) + 1
                  /\ q \in 1 .. Len(queue[w]) \/ q = Len(queue[w]) + 1
              BY <1>10, <2>3, <5>1
            <6> QED BY <1>10, <2>3, <4>1, <4>2, <5>1, <6>1
          <5>2. CASE WorkerOf[m] # w
            <6>1. queue'[WorkerOf[m]] = queue[WorkerOf[m]]
              BY <1>11, <3>0, <5>2
            <6> QED BY <2>3, <4>1, <6>1
          <5> QED BY <5>1, <5>2
        <4> QED BY <2>3, <3>1, <4>1, <4>3 DEF OrderInv, OrderOK, InOrder
      <3>2. CASE j \notin 1 .. Len(pending[m])
        <4>1. m = k /\ j = Len(pending[k]) + 1 /\ i \in 1 .. Len(pending[k])
          BY <1>7, <1>8, <2>3, <3>2
        <4>2. pending'[m][j] = o /\ pending'[m][i] = pending[k][i] /\ pending[k][i] # o
          BY <1>4, <1>7, <1>9, <4>1
        <4>3. q = Len(queue[w]) + 1 /\ p \in 1 .. Len(queue[w])
          <5>1. /\ p \in 1 .. Len(queue'[w]) /\ queue'[w][p] # o
                /\ q \in 1 .. Len(queue'[w]) /\ queue'[w][q] = o
            BY <1>4, <2>3, <4>1, <4>2
          <5>2. /\ p \in 1 .. Len(queue[w]) \/ p = Len(queue[w]) + 1
                /\ q \in 1 .. Len(queue[w]) \/ q = Len(queue[w]) + 1
            <6>1. Len(queue[w]) \in Nat /\ Len(queue'[w]) = Len(queue[w]) + 1
              BY <1>10
            <6> QED BY ONLY <5>1, <6>1
          <5>3. q \notin 1 .. Len(queue[w])
            BY <1>10, <1>12, <5>1
          <5>4. p # Len(queue[w]) + 1
            BY <1>10, <5>1
          <5> QED BY <5>2, <5>3, <5>4
        <4> QED BY <1>10, <4>3
      <3> QED BY <3>1, <3>2
    <2> QED BY <2>1, <2>2, <2>3 DEF OrderOK, InHand, OthersQueued, InOrder
  <1> QED BY <1>2, <1>3, <1>13, <1>14 DEF OrderInv, Abstract!Accept

LEMMA TakeOrders ==
    ASSUME PlaceInv, OrderInv, NEW w \in Workers, Take(w) PROVE OrderInv'
  <1>1. PICK o : o = Head(queue[w])
    OBVIOUS
  <1>2. /\ queue[w] # <<>> /\ pc[w] = "idle" /\ pc' = [pc EXCEPT ![w] = "start"]
        /\ cur' = [cur EXCEPT ![w] = o] /\ queue' = [queue EXCEPT ![w] = Tail(queue[w])]
        /\ st' = [st EXCEPT ![o] = "taken"] /\ UNCHANGED <<key, pending>>
    BY <1>1 DEF Take, At
  <1>3. queue[w] \in Seq(Ops)
    BY DEF PlaceInv, Typed
  <1>4. /\ Len(queue[w]) \in Nat \ {0} /\ o = queue[w][1] /\ o \in Ops
        /\ Len(queue'[w]) = Len(queue[w]) - 1
        /\ \A i \in 1 .. Len(queue'[w]) : queue'[w][i] = queue[w][i + 1]
    <2>1. queue'[w] = Tail(queue[w])
      BY <1>2 DEF PlaceInv, Typed
    <2>2. /\ Len(queue[w]) \in Nat \ {0} /\ o = queue[w][1] /\ o \in Ops
          /\ Tail(queue[w]) \in Seq(Ops) /\ Len(Tail(queue[w])) = Len(queue[w]) - 1
          /\ \A i \in 1 .. Len(Tail(queue[w])) : Tail(queue[w])[i] = queue[w][i + 1]
      BY <1>1, <1>2, <1>3, HeadTail
    <2> QED BY <2>1, <2>2
  <1>5. \A v \in Workers \ {w} : queue'[v] = queue[v] /\ pc'[v] = pc[v] /\ cur'[v] = cur[v]
    BY <1>2 DEF PlaceInv, Typed
  <1>6. st[o] = "queued" /\ Wk(o) = w /\ pc'[w] = "start" /\ cur'[w] = o
    BY <1>2, <1>4, InQueue DEF PlaceInv, Typed
  <1>7. \A x \in Ops \ {o} : st'[x] = st[x]
    BY <1>2 DEF PlaceInv, Typed
  <1>8. \A x \in Ops : x \in Unfinished' <=> x \in Unfinished
    <2>1. o \in Unfinished /\ o \in Unfinished'
      BY <1>4, <1>6 DEF Unfinished, Works
    <2>2. ASSUME NEW x \in Ops \ {o} PROVE x \in Unfinished' <=> x \in Unfinished
      <3>1. \A v \in Workers : Works(v)' /\ cur'[v] = x <=> Works(v) /\ cur[v] = x
        BY <1>2, <1>5, <1>6, <2>2 DEF Works
      <3> QED BY <1>7, <3>1 DEF Unfinished
    <2> QED BY <2>1, <2>2
  <1>9. PendingOK'
    <2>1. \A k \in Keys : \A i \in 1 .. Len(pending[k]) : pending[k][i] \in Ops
      BY DEF OrderInv, PendingOK
    <2> QED BY <1>2, <1>8, <2>1 DEF OrderInv, PendingOK
  <1>10. \A k \in Keys : \A j \in 1 .. Len(pending[k]) : pending[k][j] = o => j = 1
    <2> SUFFICES ASSUME NEW k \in Keys, NEW j \in 1 .. Len(pending[k]), pending[k][j] = o, j # 1
                 PROVE  FALSE
      OBVIOUS
    <2>1. 1 \in 1 .. Len(pending[k]) /\ 1 < j
      BY DEF OrderInv, PendingOK
    <2>2. PICK x : x = pending[k][1]
      OBVIOUS
    <2>3. x \in Ops /\ x \in Unfinished /\ key[x] = k /\ key[o] = k
      BY <2>1, <2>2 DEF OrderInv, PendingOK
    <2>4. WorkerOf[k] = w
      BY <1>6, <2>3 DEF Wk
    <2>5. st[x] = "queued"
      <3> SUFFICES ASSUME NEW v \in Workers, Works(v), cur[v] = x PROVE FALSE
        BY <2>3 DEF Unfinished
      <3>1. v = w
        BY <2>3, <2>4 DEF OrderInv, OrderOK, InHand, Wk
      <3> QED BY <1>2, <3>1 DEF Works
    <2>6. PICK p \in 1 .. Len(queue[w]) : queue[w][p] = x
      BY <2>3, <2>4, <2>5 DEF PlaceInv, QueueOK, Wk
    <2>7. 1 \in 1 .. Len(queue[w]) /\ queue[w][1] = o
      BY <1>4
    <2>8. p < 1
      BY <2>1, <2>2, <2>4, <2>6, <2>7 DEF OrderInv, OrderOK, InOrder
    <2> QED BY <2>8
  <1>11. OrderOK'
    <2>1. \A v \in Workers : Works(v)' => Wk(cur[v])' = v
      BY <1>2, <1>5, <1>6 DEF OrderInv, OrderOK, InHand, Works, Wk
    <2>2. ASSUME NEW k \in Keys, NEW i \in 1 .. Len(pending[k]), NEW j \in 1 .. Len(pending[k]), i < j
          PROVE  st'[pending[k][j]] = "queued"
      <3>1. j # 1 /\ pending[k][j] \in Ops /\ st[pending[k][j]] = "queued"
        BY <2>2 DEF OrderInv, OrderOK, OthersQueued, PendingOK
      <3> QED BY <1>7, <1>10, <3>1
    <2>3. ASSUME NEW k \in Keys, NEW i \in 1 .. Len(pending[k]), NEW j \in 1 .. Len(pending[k]), i < j,
                 NEW p \in 1 .. Len(queue'[WorkerOf[k]]), NEW q \in 1 .. Len(queue'[WorkerOf[k]]),
                 queue'[WorkerOf[k]][p] = pending[k][i], queue'[WorkerOf[k]][q] = pending[k][j]
          PROVE  p < q
      <3>0. WorkerOf[k] \in Workers
        BY Constants
      <3>1. CASE WorkerOf[k] # w
        <4>1. queue'[WorkerOf[k]] = queue[WorkerOf[k]]
          BY <1>5, <3>0, <3>1
        <4> QED BY <2>3, <4>1 DEF OrderInv, OrderOK, InOrder
      <3>2. CASE WorkerOf[k] = w
        <4>1. /\ p + 1 \in 1 .. Len(queue[w]) /\ queue[w][p + 1] = pending[k][i]
              /\ q + 1 \in 1 .. Len(queue[w]) /\ queue[w][q + 1] = pending[k][j]
          BY <1>4, <2>3, <3>2
        <4>2. p + 1 < q + 1
          BY <2>3, <3>2, <4>1 DEF OrderInv, OrderOK, InOrder
        <4> QED BY <4>2
      <3> QED BY <3>1, <3>2
    <2>4. OthersQueued'
      BY <1>2, <2>2 DEF OthersQueued
    <2>5. InOrder'
      <3> SUFFICES ASSUME NEW k \in Keys, NEW i \in 1 .. Len(pending'[k]), NEW j \in 1 .. Len(pending'[k]),
                          NEW p \in 1 .. Len(queue'[WorkerOf[k]]), NEW q \in 1 .. Len(queue'[WorkerOf[k]]), i < j,
                          queue'[WorkerOf[k]][p] = pending'[k][i], queue'[WorkerOf[k]][q] = pending'[k][j]
                   PROVE  p < q
        BY DEF InOrder
      <3>1. pending' = pending
        BY <1>2
      <3> QED BY <2>3, <3>1
    <2> QED BY <2>1, <2>4, <2>5 DEF OrderOK, InHand
  <1> QED BY <1>9, <1>11 DEF OrderInv

\* What a worker carries out is the first under its key.
LEMMA FinishOrders ==
    ASSUME PlaceInv, OrderInv, NEW w \in Workers, Works(w), Finish(cur[w]),
           NEW p \in {"fail", "reply"}, pc' = [pc EXCEPT ![w] = p],
           UNCHANGED <<key, st, queue, cur>>
    PROVE  OrderInv' /\ key[cur[w]] \in Keys /\ Abstract!Complete(key[cur[w]])
  <1>1. PICK o : o = cur[w]
    OBVIOUS
  <1>2. PICK k : k = key[o]
    OBVIOUS
  <1>3. o \in Ops /\ st[o] = "taken" /\ o \in Unfinished
    BY <1>1 DEF PlaceInv, TakenOK, Works, Busy, Unfinished
  <1>4. k \in Keys /\ pending[k] \in Seq(Ops) /\ \E i \in 1 .. Len(pending[k]) : pending[k][i] = o
    BY <1>2, <1>3 DEF OrderInv, PendingOK
  <1>5. Len(pending[k]) \in Nat \ {0} /\ pending[k][1] = o
    <2>1. PICK i \in 1 .. Len(pending[k]) : pending[k][i] = o
      BY <1>4
    <2>2. 1 \in 1 .. Len(pending[k]) /\ Len(pending[k]) \in Nat \ {0}
      BY <1>4, <2>1
    <2>3. ~(1 < i)
      BY <1>3, <1>4, <2>1, <2>2 DEF OrderInv, OrderOK, OthersQueued
    <2> QED BY <2>1, <2>2, <2>3
  <1>6. pending[k] # <<>> /\ pending' = [pending EXCEPT ![k] = Tail(pending[k])]
    <2>1. pending' = [pending EXCEPT ![k] = RemoveFirst(pending[k], o)]
      BY <1>1, <1>2 DEF Finish
    <2>2. pending[k] # <<>>
      BY <1>5
    <2>3. RemoveFirst(pending[k], o) = Tail(pending[k])
      BY <1>4, <1>5, <2>2, RemoveHead
    <2> QED BY <2>1, <2>2, <2>3
  <1>7. /\ pending'[k] \in Seq(Ops) /\ Len(pending'[k]) = Len(pending[k]) - 1
        /\ \A i \in 1 .. Len(pending'[k]) : pending'[k][i] = pending[k][i + 1]
    <2>1. pending'[k] = Tail(pending[k])
      BY <1>4, <1>6 DEF OrderInv, PendingOK
    <2>2. /\ Tail(pending[k]) \in Seq(Ops) /\ Len(Tail(pending[k])) = Len(pending[k]) - 1
          /\ \A i \in 1 .. Len(Tail(pending[k])) : Tail(pending[k])[i] = pending[k][i + 1]
      BY <1>4, <1>6, HeadTail
    <2> QED BY <2>1, <2>2
  <1>8. \A m \in Keys \ {k} : pending'[m] = pending[m]
    BY <1>6 DEF OrderInv, PendingOK
  <1>9. \A v \in Workers : Works(v)' <=> Works(v) /\ v # w
    BY DEF PlaceInv, Typed, Works
  <1>10. \A x \in Ops : x \in Unfinished' <=> x \in Unfinished /\ x # o
    <2>1. ~o \in Unfinished'
      <3>1. \A v \in Workers : Works(v) /\ cur[v] = o => v = w
        BY <1>1 DEF PlaceInv, TakenOK, Works, Busy
      <3> QED BY <1>3, <1>9, <3>1 DEF Unfinished
    <2>2. ASSUME NEW x \in Ops \ {o} PROVE x \in Unfinished' <=> x \in Unfinished
      BY <1>1, <1>9, <2>2 DEF Unfinished
    <2> QED BY <2>1, <2>2
  <1>11. \A m \in Keys : \A i \in 1 .. Len(pending'[m]) :
            \E n \in 1 .. Len(pending[m]) : /\ pending'[m][i] = pending[m][n]
                                            /\ n = IF m = k THEN i + 1 ELSE i
    BY <1>5, <1>7, <1>8
  <1>12. PendingOK'
    <2>1. pending' \in [Keys -> Seq(Ops)]
      BY <1>4, <1>6, <1>7 DEF OrderInv, PendingOK
    <2>2. ASSUME NEW m \in Keys, NEW i \in 1 .. Len(pending'[m])
          PROVE  key'[pending'[m][i]] = m /\ pending'[m][i] \in Unfinished'
      <3>1. PICK n \in 1 .. Len(pending[m]) : pending'[m][i] = pending[m][n]
                                              /\ n = IF m = k THEN i + 1 ELSE i
        BY <1>11
      <3>2. pending[m][n] \in Ops /\ key[pending[m][n]] = m /\ pending[m][n] \in Unfinished
        BY DEF OrderInv, PendingOK
      <3>3. pending[m][n] # o
        <4>1. CASE m # k
          BY <1>2, <3>2, <4>1
        <4>2. CASE m = k
          <5>1. n # 1 /\ 1 \in 1 .. Len(pending[k])
            BY <1>5, <3>1, <4>2
          <5> QED BY <1>4, <1>5, <4>2, <5>1 DEF OrderInv, PendingOK
        <4> QED BY <4>1, <4>2
      <3> QED BY <1>10, <3>1, <3>2, <3>3
    <2>3. ASSUME NEW m \in Keys, NEW i \in 1 .. Len(pending'[m]), NEW j \in 1 .. Len(pending'[m]),
                 pending'[m][i] = pending'[m][j]
          PROVE  i = j
      <3>1. PICK n \in 1 .. Len(pending[m]) : pending'[m][i] = pending[m][n]
                                              /\ n = IF m = k THEN i + 1 ELSE i
        BY <1>11
      <3>2. PICK l \in 1 .. Len(pending[m]) : pending'[m][j] = pending[m][l]
                                              /\ l = IF m = k THEN j + 1 ELSE j
        BY <1>11
      <3>3. n = l
        <4>1. \A x, y \in 1 .. Len(pending[m]) : pending[m][x] = pending[m][y] => x = y
          BY DEF OrderInv, PendingOK
        <4> QED BY <2>3, <3>1, <3>2, <4>1
      <3> QED BY <3>1, <3>2, <3>3
    <2>4. ASSUME NEW x \in Ops, x \in Unfinished'
          PROVE  key'[x] \in Keys /\ \E i \in 1 .. Len(pending'[key'[x]]) : pending'[key'[x]][i] = x
      <3>1. x \in Unfinished /\ x # o
        BY <1>10, <2>4
      <3>2. key[x] \in Keys
        BY <3>1 DEF OrderInv, PendingOK
      <3>3. PICK i \in 1 .. Len(pending[key[x]]) : pending[key[x]][i] = x
        BY <3>1 DEF OrderInv, PendingOK
      <3>4. CASE key[x] # k
        BY <1>8, <3>2, <3>3, <3>4
      <3>5. CASE key[x] = k
        <4>1. i # 1
          BY <1>5, <3>1, <3>3, <3>5
        <4>2. i - 1 \in 1 .. Len(pending'[k]) /\ pending'[k][i - 1] = x
          BY <1>5, <1>7, <3>3, <3>5, <4>1
        <4> QED BY <1>4, <3>5, <4>2
      <3> QED BY <3>4, <3>5
    <2> QED BY <2>1, <2>2, <2>3, <2>4 DEF PendingOK
  <1>13. OrderOK'
    <2>1. \A v \in Workers : Works(v)' => Wk(cur[v])' = v
      BY <1>9 DEF OrderInv, OrderOK, InHand, Wk
    <2>2. ASSUME NEW m \in Keys, NEW i \in 1 .. Len(pending'[m]), NEW j \in 1 .. Len(pending'[m]), i < j
          PROVE  /\ st[pending'[m][j]] = "queued"
                 /\ \A a, b \in 1 .. Len(queue[WorkerOf[m]]) :
                       queue[WorkerOf[m]][a] = pending'[m][i] /\ queue[WorkerOf[m]][b] = pending'[m][j] => a < b
      <3>1. PICK n \in 1 .. Len(pending[m]) : pending'[m][i] = pending[m][n]
                                              /\ n = IF m = k THEN i + 1 ELSE i
        BY <1>11
      <3>2. PICK l \in 1 .. Len(pending[m]) : pending'[m][j] = pending[m][l]
                                              /\ l = IF m = k THEN j + 1 ELSE j
        BY <1>11
      <3>3. n < l
        BY <2>2, <3>1, <3>2
      <3>4. st[pending[m][l]] = "queued"
        BY <3>3 DEF OrderInv, OrderOK, OthersQueued
      <3>5. \A a, b \in 1 .. Len(queue[WorkerOf[m]]) :
               queue[WorkerOf[m]][a] = pending[m][n] /\ queue[WorkerOf[m]][b] = pending[m][l] => a < b
        BY <3>3 DEF OrderInv, OrderOK, InOrder
      <3> QED BY ONLY <3>1, <3>2, <3>4, <3>5
    <2>3. OthersQueued'
      BY <2>2 DEF OthersQueued
    <2>4. InOrder'
      BY <2>2 DEF InOrder
    <2> QED BY <2>1, <2>3, <2>4 DEF OrderOK, InHand
  <1> QED BY <1>1, <1>2, <1>4, <1>6, <1>12, <1>13 DEF OrderInv, Abstract!Complete

\* A step of an operation that nothing waits for.
LEMMA AnotherKeepsOrder ==
    ASSUME PlaceInv, OrderInv, NEW o \in Ops, NEW s, NEW k, s # "queued",
           st[o] # "queued", \A w \in Workers : Works(w) => cur[w] # o,
           st' = [st EXCEPT ![o] = s], key' = [key EXCEPT ![o] = k], UNCHANGED <<pending, queue>>,
           \A w \in Workers : Works(w)' <=> Works(w), \A w \in Workers : Works(w) => cur'[w] = cur[w]
    PROVE  OrderInv'
  <1>1. st'[o] = s /\ \A x \in Ops \ {o} : st'[x] = st[x] /\ key'[x] = key[x]
    BY DEF PlaceInv, Typed
  <1>2. o \notin Unfinished /\ o \notin Unfinished'
    BY <1>1 DEF Unfinished
  <1>3. ASSUME NEW x \in Ops \ {o} PROVE x \in Unfinished' <=> x \in Unfinished
    BY <1>1, <1>3 DEF Unfinished
  <1>4. \A x \in Ops : x \in Unfinished' <=> x \in Unfinished
    BY <1>2, <1>3
  <1>5. \A x \in Ops : x \in Unfinished => key'[x] = key[x] /\ st'[x] = st[x]
    BY <1>1, <1>2
  <1> QED BY <1>4, <1>5, SameOrder

\* A step of no operation.
LEMMA NoneKeepsOrder ==
    ASSUME PlaceInv, OrderInv, UNCHANGED <<st, key, pending, queue>>,
           \A w \in Workers : Works(w)' <=> Works(w), \A w \in Workers : Works(w) => cur'[w] = cur[w]
    PROVE  OrderInv'
  <1>1. \A x \in Ops : x \in Unfinished' <=> x \in Unfinished
    BY DEF Unfinished
  <1> QED BY <1>1, SameOrder

LEMMA CallerOrders ==
    ASSUME PlaceInv, OrderInv, NEW o \in Ops, NEW k \in Keys,
           AddStart(o, k) \/ AddGivesUp(o) \/ EndContext(o)
    PROVE  OrderInv' /\ UNCHANGED pending
  <1>1. \A w \in Workers : Works(w) => st[cur[w]] = "taken"
    BY DEF Works, PlaceInv, TakenOK, Busy
  <1>2. CASE AddStart(o, k)
    <2>1. /\ st[o] \notin {"queued", "taken"} /\ st' = [st EXCEPT ![o] = "adding"]
          /\ key' = [key EXCEPT ![o] = k] /\ UNCHANGED <<queue, cur, pc, pending>>
      BY <1>2 DEF AddStart
    <2>2. /\ \A w \in Workers : Works(w)' <=> Works(w)
          /\ \A w \in Workers : Works(w) => cur'[w] = cur[w] /\ cur[w] # o
      BY <1>1, <2>1 DEF Works
    <2> QED BY <2>1, <2>2, AnotherKeepsOrder
  <1>3. CASE AddGivesUp(o)
    <2>1. PICK s \in {"refused", "lost"} : st' = [st EXCEPT ![o] = s]
      BY <1>3 DEF AddGivesUp
    <2>2. /\ st[o] \notin {"queued", "taken"} /\ s # "queued"
          /\ key' = [key EXCEPT ![o] = None] /\ UNCHANGED <<queue, cur, pc, pending>>
      BY <1>3, <2>1 DEF AddGivesUp
    <2>3. /\ \A w \in Workers : Works(w)' <=> Works(w)
          /\ \A w \in Workers : Works(w) => cur'[w] = cur[w] /\ cur[w] # o
      BY <1>1, <2>2 DEF Works
    <2> QED BY <2>1, <2>2, <2>3, AnotherKeepsOrder
  <1>4. CASE EndContext(o)
    BY <1>4, NoneKeepsOrder DEF EndContext, Works
  <1> QED BY <1>2, <1>3, <1>4

LEMMA ReceiveOrders ==
    ASSUME PlaceInv, OrderInv, NEW c \in Ops \cup Chans, Receive(c)
    PROVE  OrderInv' /\ UNCHANGED pending
  <1>1. PICK o : o = Head(done[c])
    OBVIOUS
  <1>2. /\ done[c] # <<>> /\ st' = [st EXCEPT ![o] = "back"] /\ key' = [key EXCEPT ![o] = None]
        /\ UNCHANGED <<queue, cur, pc, pending>>
    BY <1>1 DEF Receive
  <1>3. done[c] \in Seq(Ops)
    BY DEF PlaceInv, Typed
  <1>4. Len(done[c]) \in Nat \ {0} /\ o = done[c][1]
    BY <1>1, <1>2, <1>3, HeadTail
  <1>5. o \in Ops /\ st[o] = "done"
    BY <1>4, InDone
  <1>6. \A w \in Workers : Works(w) => st[cur[w]] = "taken"
    BY DEF Works, PlaceInv, TakenOK, Busy
  <1> QED BY <1>2, <1>5, <1>6, AnotherKeepsOrder DEF Works

\* A worker answers, puts a context back or ends when nothing is left to carry out.
LEMMA AnswerOrders ==
    ASSUME PlaceInv, OrderInv, NEW w \in Workers,
           Reply(w) \/ ReplyFailure(w) \/ Restore(w) \/ Exit(w) \/ BeginOp(w)
    PROVE  OrderInv' /\ UNCHANGED pending
  <1>1. \A v \in Workers \ {w} : pc'[v] = pc[v] /\ cur'[v] = cur[v]
    BY DEF Reply, ReplyFailure, Restore, Exit, BeginOp, At, PlaceInv, Typed
  <1>2. Works(w)' <=> Works(w)
    BY DEF Works, Reply, ReplyFailure, Restore, Exit, BeginOp, At, PlaceInv, Typed
  <1>3. Works(w) => cur'[w] = cur[w]
    BY DEF Works, Reply, ReplyFailure, Restore, Exit, BeginOp, At
  <1>4. /\ \A v \in Workers : Works(v)' <=> Works(v)
        /\ \A v \in Workers : Works(v) => cur'[v] = cur[v]
    BY <1>1, <1>2, <1>3 DEF Works
  <1>5. UNCHANGED <<key, pending, queue>>
    BY DEF Reply, ReplyFailure, Restore, Exit, BeginOp
  <1>6. CASE Reply(w) \/ ReplyFailure(w)
    <2>1. PICK o : o = cur[w]
      OBVIOUS
    <2>2. pc[w] \in Busy /\ ~Works(w) /\ st' = [st EXCEPT ![o] = "done"]
      BY <1>6, <2>1 DEF Reply, ReplyFailure, Deliver, At, Works, Busy
    <2>3. o \in Ops /\ st[o] = "taken" /\ \A v \in Workers : Works(v) => cur[v] # o
      BY <2>1, <2>2 DEF PlaceInv, TakenOK, Works, Busy
    <2>4. key' = [key EXCEPT ![o] = key[o]]
      BY <1>5 DEF PlaceInv, Typed
    <2> QED BY <1>4, <1>5, <2>2, <2>3, <2>4, AnotherKeepsOrder
  <1>7. CASE Restore(w) \/ Exit(w) \/ BeginOp(w)
    <2>1. st' = st
      BY <1>7 DEF Restore, Exit, BeginOp
    <2> QED BY <1>4, <1>5, <2>1, NoneKeepsOrder
  <1> QED BY <1>5, <1>6, <1>7

LEMMA WorkerOrders ==
    ASSUME PlaceInv, OrderInv, NEW w \in Workers, Worker(w)
    PROVE  OrderInv' /\ [Abstract!Next]_pending
  <1>1. CASE Take(w)
    BY <1>1, TakeOrders DEF Take
  <1>2. CASE SkipOp(w) \/ EndOp(w) \/ PanicOp(w)
    <2>1. PICK p \in {"fail", "reply"} : pc' = [pc EXCEPT ![w] = p]
      BY <1>2 DEF SkipOp, EndOp, PanicOp, At
    <2>2. Works(w) /\ Finish(cur[w]) /\ UNCHANGED <<key, st, queue, cur>>
      BY <1>2 DEF SkipOp, EndOp, PanicOp, At, Works
    <2>3. OrderInv' /\ key[cur[w]] \in Keys /\ Abstract!Complete(key[cur[w]])
      BY <2>1, <2>2, FinishOrders
    <2> QED BY <2>3 DEF Abstract!Next
  <1>3. CASE Reply(w) \/ ReplyFailure(w) \/ Restore(w) \/ Exit(w) \/ BeginOp(w)
    BY <1>3, AnswerOrders
  <1> QED BY <1>1, <1>2, <1>3 DEF Worker

LEMMA OrderStep ==
    PlaceInv /\ OrderInv /\ [Next]_vars => OrderInv' /\ [Abstract!Next]_pending
  <1> SUFFICES ASSUME PlaceInv, OrderInv, [Next]_vars PROVE OrderInv' /\ [Abstract!Next]_pending
    OBVIOUS
  <1>1. ASSUME NEW o \in Ops, NEW k \in Keys, AddStart(o, k)
        PROVE  OrderInv' /\ [Abstract!Next]_pending
    BY <1>1, CallerOrders
  <1>2. ASSUME NEW o \in Ops, AddGivesUp(o) PROVE OrderInv' /\ [Abstract!Next]_pending
    <2>1. PICK k \in Keys : TRUE
      BY <1>2 DEF PlaceInv, QueueOK, AddGivesUp
    <2> QED BY <1>2, <2>1, CallerOrders
  <1>3. ASSUME NEW o \in Ops, EndContext(o) PROVE OrderInv' /\ [Abstract!Next]_pending
    BY <1>3, NoneKeepsOrder DEF EndContext, Works
  <1>4. ASSUME NEW o \in Ops, AddSend(o) PROVE OrderInv' /\ [Abstract!Next]_pending
    <2>1. key[o] \in Keys
      BY <1>4 DEF PlaceInv, QueueOK, AddSend
    <2> QED BY <1>4, <2>1, AddSendOrders DEF Abstract!Next
  <1>5. ASSUME NEW c \in Ops \cup Chans, Receive(c) PROVE OrderInv' /\ [Abstract!Next]_pending
    BY <1>5, ReceiveOrders
  <1>6. CASE Stop \/ StopReturns \/ UNCHANGED vars
    <2>1. UNCHANGED <<st, key, pending, queue, pc, cur>>
      BY <1>6 DEF Stop, StopReturns, vars
    <2> QED BY <2>1, NoneKeepsOrder DEF Works
  <1>7. ASSUME NEW w \in Workers, Worker(w) PROVE OrderInv' /\ [Abstract!Next]_pending
    BY <1>7, WorkerOrders
  <1>8. ASSUME NEW w \in Workers, LimitEnds(w) PROVE OrderInv' /\ [Abstract!Next]_pending
    BY <1>8, NoneKeepsOrder DEF LimitEnds, Works
  <1> QED BY <1>1, <1>2, <1>3, <1>4, <1>5, <1>6, <1>7, <1>8 DEF Next

\* What is pending under a key is in the worker's hand and then in its queue, in the order
\* in which Add accepted it, whatever contexts end and operations panic.
THEOREM PendingIsInOrder == Spec => []OrderInv
  <1> QED BY InitPlace, PlaceStep, InitOrder, OrderStep, PTL DEF Spec

\* The backend with any number of workers carries out the operations under a key one after
\* another, in the order in which they were accepted.
THEOREM BDImplementsSerialQueues == Spec => ImplementsSerialQueues
  <1>1. Init => Abstract!Init
    BY DEF Init, Abstract!Init
  <1> QED BY <1>1, InitPlace, PlaceStep, InitOrder, OrderStep, PTL DEF Spec, ImplementsSerialQueues, Abstract!Spec

=============================================================================
