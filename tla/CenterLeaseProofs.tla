-------------------------- MODULE CenterLeaseProofs ---------------------------
(* Proofs about CenterLease, for any number of processes and leases.           *)
EXTENDS CenterLease, TLAPS

\* The invariant holds when no process has started.
LEMMA ClInitInv == ClInit => LeaseInv
<1> SUFFICES ASSUME ClInit PROVE LeaseInv
  OBVIOUS
<1>1. NoCall \in Calls
  BY DEF Calls, Call, NoCall
<1>2. ClTypeOK
  BY <1>1 DEF ClInit, ClTypeOK
<1>3. OneProcess /\ \A c \in Centers : MainSane(c) /\ KaSane(c)
  BY DEF ClInit, OneProcess, MainSane, KaSane, Over, Attached, Answered, Call, NoCall, Threads
<1>4. QED BY <1>2, <1>3 DEF LeaseInv

-----------------------------------------------------------------------------
(* Types.                                                                      *)

CallType == call \in [Centers -> [Threads -> Calls]]

\* A goroutine's next request keeps the type of call.
LEMMA Next1Type ==
    ASSUME CallType, NEW c \in Centers, NEW t \in Threads, NEW q \in Calls, Next1(c, t, q)
    PROVE  CallType'
BY DEF CallType, Next1

\* So does the answer of etcd.
LEMMA ExecutedType ==
    ASSUME CallType, NEW c \in Centers, NEW t \in Threads, NEW l \in Leases \cup {NoLease},
           NEW res \in {"ok", "refused", "expired"}, Executed(c, t, l, res)
    PROVE  CallType'
<1>1. call[c][t] \in Calls
  BY DEF CallType
<1>2. Call(call[c][t].op, l, res) \in Calls
  BY <1>1 DEF Calls, Call
<1>3. QED BY <1>2 DEF CallType, Executed

\* What the goroutines send.
LEMMA SentType ==
    ASSUME CallType
    PROVE  /\ NoCall \in Calls /\ Sent("Grant", NoLease) \in Calls /\ Sent("Get", NoLease) \in Calls
           /\ \A l \in Leases \cup {NoLease}, op \in {"Put", "Revoke", "TimeToLive"} :
                 Sent(op, l) \in Calls
           /\ \A c \in Centers, t \in Threads : call[c][t].lease \in Leases \cup {NoLease}
BY DEF CallType, Calls, Call, NoCall, Sent

\* What is given up are requests of the goroutines.
LEMMA GiveUpType ==
    ASSUME CallType, late \subseteq Calls, NEW c \in Centers, NEW T \in SUBSET Threads,
           GiveUp(c, T)
    PROVE  late' \subseteq Calls
<1>1. \A t \in T : call[c][t] \in Calls
  BY DEF CallType
<1>2. PICK Q \in SUBSET {call[c][t] : t \in T} : late' = late \cup Q
  BY DEF GiveUp
<1>3. QED BY <1>1, <1>2

RestType ==
    /\ live \subseteq Leases
    /\ key \in Leases \cup {NoLease, NoKey}
    /\ late \subseteq Calls /\ stray \in BOOLEAN
    /\ main \in [Centers -> {"off", "start", "undo", "running", "closing", "closed"}]
    /\ ka \in [Centers -> {"off", "top", "stream", "done"}]
    /\ leaseID \in [Centers -> Leases \cup {NoLease}]
    /\ alive \in [Centers -> BOOLEAN] /\ cancelled \in [Centers -> BOOLEAN]

LEMMA ResetType ==
    ASSUME RestType, CallType, NEW c \in Centers, Reset(c), NEW T \in SUBSET Threads,
           GiveUp(c, T), UNCHANGED <<live, key, stray>>
    PROVE  RestType' /\ CallType'
<1>0. late' \subseteq Calls
  BY GiveUpType DEF RestType
<1>1. RestType'
  BY <1>0 DEF RestType, Reset
<1>2. CallType'
  <2>1. [t \in Threads |-> NoCall] \in [Threads -> Calls]
    BY SentType
  <2>2. QED BY <2>1 DEF Reset, CallType
<1>3. QED BY <1>1, <1>2

\* Every step keeps the types.
LEMMA ClTypeStep == ASSUME ClTypeOK, ClNext PROVE ClTypeOK'
<1>0. ClTypeOK <=> RestType /\ CallType
  BY DEF ClTypeOK, RestType, CallType
<1>t. RestType /\ CallType
  BY <1>0
<1>q. (RestType /\ CallType)' => ClTypeOK'
  BY DEF ClTypeOK, RestType, CallType
<1>th. "main" \in Threads /\ "ka" \in Threads
  BY DEF Threads
<1>1. ASSUME NEW c \in Centers, NEW t \in Threads, Execute(c, t) PROVE (RestType /\ CallType)'
  <2>0. call[c][t].lease \in Leases \cup {NoLease}
    BY <1>t, SentType
  <2>1. CASE \E l \in Leases : ExecGrant(c, t, l)
    <3>1. PICK l \in Leases : ExecGrant(c, t, l)
      BY <2>1
    <3>2. RestType' BY <1>t, <3>1 DEF ExecGrant, RestType
    <3>3. CallType' BY <1>t, <3>1, ExecutedType DEF ExecGrant
    <3>4. QED BY <3>2, <3>3
  <2>2. CASE ExecPut(c, t)
    <3>1. RestType' BY <1>t, <2>0, <2>2 DEF ExecPut, RestType
    <3>2. CallType' BY <1>t, <2>0, <2>2, ExecutedType DEF ExecPut
    <3>3. QED BY <3>1, <3>2
  <2>3. CASE ExecRevoke(c, t)
    <3>1. RestType' BY <1>t, <2>3 DEF ExecRevoke, Remove, RestType
    <3>2. CallType' BY <1>t, <2>0, <2>3, ExecutedType DEF ExecRevoke
    <3>3. QED BY <3>1, <3>2
  <2>4. CASE ExecRead(c, t)
    <3>1. RestType' BY <1>t, <2>4 DEF ExecRead, RestType
    <3>2. CallType' BY <1>t, <2>0, <2>4, ExecutedType DEF ExecRead
    <3>3. QED BY <3>1, <3>2
  <2>5. QED BY <1>1, <2>1, <2>2, <2>3, <2>4 DEF Execute
<1>2. ASSUME NEW c \in Centers, Main(c) PROVE (RestType /\ CallType)'
  <2>0. call[c]["main"].lease \in Leases \cup {NoLease} /\ leaseID[c] \in Leases \cup {NoLease}
    BY <1>t, <1>th, SentType DEF RestType
  <2>1. CASE StartGranted(c)
    <3>1. RestType' BY <1>t, <2>0, <2>1 DEF StartGranted, RestType
    <3>2. CallType' BY <1>t, <1>th, <2>0, <2>1, SentType, Next1Type DEF StartGranted
    <3>3. QED BY <3>1, <3>2
  <2>2. CASE StartRegistered(c)
    <3>1. RestType' BY <1>t, <2>2 DEF StartRegistered, RestType
    <3>2. CallType' BY <1>t, <1>th, <2>2, SentType, Next1Type DEF StartRegistered
    <3>3. QED BY <3>1, <3>2
  <2>3. CASE StartSynced(c)
    <3>1. RestType' BY <1>t, <2>3 DEF StartSynced, RestType
    <3>2. CallType' BY <1>t, <1>th, <2>3, SentType, Next1Type DEF StartSynced
    <3>3. QED BY <3>1, <3>2
  <2>4. CASE StartFails(c)
    <3>1. CASE leaseID[c] = NoLease
      BY <1>t, <1>th, <2>4, <3>1, ResetType DEF StartFails
    <3>2. CASE leaseID[c] # NoLease
      <4>0. late' \subseteq Calls
        BY <1>t, <1>th, <2>4, GiveUpType DEF StartFails, RestType
      <4>1. RestType' BY <1>t, <2>4, <3>2, <4>0 DEF StartFails, RestType
      <4>2. CallType' BY <1>t, <1>th, <2>0, <2>4, <3>2, SentType, Next1Type DEF StartFails
      <4>3. QED BY <4>1, <4>2
    <3>3. QED BY <3>1, <3>2
  <2>5. CASE StartUndone(c)
    BY <1>t, <1>th, <2>5, ResetType DEF StartUndone
  <2>6. CASE CloseReturns(c)
    <3>0. late' \subseteq Calls
      BY <1>t, <2>6, GiveUpType DEF CloseReturns, RestType
    <3>1. RestType' BY <1>t, <2>6, <3>0 DEF CloseReturns, RestType
    <3>2. [t \in Threads |-> IF t = "main" THEN call[c][t] ELSE NoCall] \in [Threads -> Calls]
      BY <1>t, SentType DEF CallType
    <3>3. CallType' BY <1>t, <2>6, <3>2 DEF CloseReturns, CallType
    <3>4. QED BY <3>1, <3>3
  <2>7. CASE CloseRevokes(c)
    <3>1. RestType' BY <1>t, <2>7 DEF CloseRevokes, RestType
    <3>2. CallType' BY <1>t, <1>th, <2>0, <2>7, SentType, Next1Type DEF CloseRevokes
    <3>3. QED BY <3>1, <3>2
  <2>8. QED BY <1>2, <2>1, <2>2, <2>3, <2>4, <2>5, <2>6, <2>7 DEF Main
<1>3. ASSUME NEW c \in Centers, Start(c) \/ Close(c) \/ Crash(c) PROVE (RestType /\ CallType)'
  <2>0. leaseID[c] \in Leases \cup {NoLease}
    BY <1>t DEF RestType
  <2>1. CASE Start(c)
    <3>1. RestType' BY <1>t, <2>1 DEF Start, RestType
    <3>2. CallType' BY <1>t, <1>th, <2>1, SentType, Next1Type DEF Start
    <3>3. QED BY <3>1, <3>2
  <2>2. CASE Close(c)
    <3>1. RestType' BY <1>t, <2>2 DEF Close, RestType
    <3>2. CallType' BY <1>t, <2>2 DEF Close, CallType
    <3>3. QED BY <3>1, <3>2
  <2>3. CASE Crash(c)
    BY <1>t, <2>3, ResetType DEF Crash
  <2>4. QED BY <1>3, <2>1, <2>2, <2>3
<1>4. ASSUME NEW c \in Centers, KeepAlive(c) PROVE (RestType /\ CallType)'
  <2>0. call[c]["ka"].lease \in Leases \cup {NoLease} /\ leaseID[c] \in Leases \cup {NoLease}
    BY <1>t, <1>th, SentType DEF RestType
  <2>1. RestType'
    <3>1. CASE KaFails(c)
      <4>1. late' \subseteq Calls
        BY <1>t, <1>th, <3>1, GiveUpType DEF KaFails, RestType
      <4>2. QED BY <1>t, <3>1, <4>1 DEF KaFails, RestType
    <3>2. CASE ~KaFails(c)
      BY <1>t, <1>4, <2>0, <3>2 DEF KeepAlive, KaTop, KaAlive, KaExpired, KaGranted,
                                    KaRegistered, KaStreamEnds, KaStops, RestType
    <3>3. QED BY <3>1, <3>2
  <2>2. CASE KaTop(c)
    BY <1>t, <1>th, <2>0, <2>1, <2>2, SentType, Next1Type DEF KaTop
  <2>3. CASE KaGranted(c)
    BY <1>t, <1>th, <2>0, <2>1, <2>3, SentType, Next1Type DEF KaGranted
  <2>4. CASE KaAlive(c) \/ KaExpired(c) \/ KaRegistered(c) \/ KaFails(c)
    BY <1>t, <1>th, <2>1, <2>4, SentType, Next1Type DEF KaAlive, KaExpired, KaRegistered, KaFails
  <2>5. CASE KaStreamEnds(c) \/ KaStops(c)
    BY <1>t, <2>1, <2>5 DEF KaStreamEnds, KaStops, CallType
  <2>6. QED BY <1>4, <2>2, <2>3, <2>4, <2>5 DEF KeepAlive
<1>5. ASSUME NEW l \in Leases, Expire(l) PROVE (RestType /\ CallType)'
  BY <1>t, <1>5 DEF Expire, Remove, RestType, CallType
<1>6. ASSUME NEW q \in late, ExecLate(q) PROVE (RestType /\ CallType)'
  <2>1. q \in Calls
    BY <1>t DEF RestType
  <2>2. q.lease \in Leases \cup {NoLease}
    BY <2>1 DEF Calls
  <2>3. QED BY <1>t, <1>6, <2>2 DEF ExecLate, Remove, RestType, CallType
<1>7. QED BY <1>q, <1>1, <1>2, <1>3, <1>4, <1>5, <1>6 DEF ClNext

-----------------------------------------------------------------------------
(* The step of the invariant.                                                  *)

Sane(c) == MainSane(c) /\ KaSane(c)

\* What c keeps to itself is as before.
Same(c) ==
    /\ main'[c] = main[c] /\ ka'[c] = ka[c] /\ leaseID'[c] = leaseID[c]
    /\ alive'[c] = alive[c] /\ cancelled'[c] = cancelled[c]

SameCall(c, t) == call'[c][t] = call[c][t]

\* A center that has not moved stays sane as long as it stays attached.
LEMMA Frame ==
    ASSUME NEW c \in Centers, Sane(c), Same(c), SameCall(c, "main"), SameCall(c, "ka"),
           ~Over(c) /\ Attached(c) => Attached(c)'
    PROVE  Sane(c)'
<1>1. MainSane(c)'
  BY DEF Sane, Same, SameCall, MainSane, Over, Answered, NoCall
<1>2. KaSane(c)'
  BY DEF Sane, Same, SameCall, KaSane, Over, Answered, NoCall, Call
<1>3. QED BY <1>1, <1>2 DEF Sane

\* No process starts, so there still is only one.
LEMMA OneProcessStays ==
    ASSUME OneProcess, \A c \in Centers : Over(c) => Over(c)'
    PROVE  OneProcess'
BY DEF OneProcess

\* Removing a lease attaches whoever was attached, and so does granting a fresh one.
LEMMA AttachedStays ==
    ASSUME NEW c \in Centers, Attached(c), leaseID'[c] = leaseID[c], stray' = stray,
           \/ live' = live /\ key' = key
           \/ \E l \in Leases : Remove(l)
           \/ \E l \in Fresh : live' = live \cup {l} /\ key' = key
    PROVE  Attached(c)'
BY DEF Attached, Remove, Fresh

\* What etcd does.
LEMMA ExecuteStep ==
    ASSUME LeaseInv, NEW c \in Centers, NEW t \in Threads, Execute(c, t), CallType
    PROVE  OneProcess' /\ \A d \in Centers : Sane(d)'
<1>a. \A d \in Centers : Sane(d)
  BY DEF LeaseInv, Sane
<1>b. \A d \in Centers : Same(d)
  BY DEF Execute, ExecGrant, ExecPut, ExecRevoke, ExecRead, Same
<1>c. \A d \in Centers, u \in Threads : d # c \/ u # t => SameCall(d, u)
  BY DEF Execute, ExecGrant, ExecPut, ExecRevoke, ExecRead, Executed, SameCall, CallType
<1>d. /\ call[c][t].res = "sent"
      /\ call'[c][t].op = call[c][t].op
      /\ call[c][t].op # "Grant" => call'[c][t].lease = call[c][t].lease
      /\ call[c][t].op \in {"Grant", "Put", "Revoke", "Get", "TimeToLive"}
  BY DEF Execute, ExecGrant, ExecPut, ExecRevoke, ExecRead, Executed, CallType, Call, Sent
<1>1. OneProcess'
  BY <1>b, OneProcessStays DEF LeaseInv, Same, Over
<1>2. CASE ExecPut(c, t)
  <2>1. ~Over(c)
    BY <1>a, <1>2 DEF ExecPut, Sane, MainSane, KaSane, Over, NoCall, Call, Threads
  <2>2. call[c][t].lease = leaseID[c]
    BY <1>a, <1>2 DEF ExecPut, Sane, MainSane, KaSane, Threads
  <2>3. Attached(c) \/ call'[c][t].res = "ok" => Attached(c)'
    BY <1>b, <1>2, <2>2 DEF ExecPut, Executed, Attached, Same, CallType, Call
  <2>4. ASSUME NEW d \in Centers PROVE Sane(d)'
    <3>1. CASE d # c
      <4>1. Over(d)
        BY <2>1, <3>1 DEF LeaseInv, OneProcess
      <4>2. QED BY <1>a, <1>b, <1>c, <3>1, <4>1, Frame DEF Threads
    <3>2. CASE d = c
      <4>1. MainSane(c)'
        BY <1>a, <1>b, <1>c, <1>d, <1>2, <2>3
           DEF Sane, MainSane, KaSane, Same, SameCall, Answered, ExecPut, Threads, NoCall, Call
      <4>2. KaSane(c)'
        BY <1>a, <1>b, <1>c, <1>d, <1>2, <2>1, <2>3
           DEF Sane, MainSane, KaSane, Same, SameCall, Answered, ExecPut, Threads, NoCall, Call,
               Over
      <4>3. QED BY <3>2, <4>1, <4>2 DEF Sane
    <3>3. QED BY <3>1, <3>2
  <2>5. QED BY <1>1, <2>4
<1>3. CASE ~ExecPut(c, t)
  <2>1. call[c][t].op # "Put"
    BY <1>3 DEF Execute, ExecGrant, ExecRevoke, ExecRead, Sent, Call
  <2>2. ASSUME NEW d \in Centers, Attached(d) PROVE Attached(d)'
    <3>1. \/ live' = live /\ key' = key
          \/ \E l \in Leases : Remove(l)
          \/ \E l \in Fresh : live' = live \cup {l} /\ key' = key
      BY <1>3 DEF Execute, ExecGrant, ExecRevoke, ExecRead, LeaseInv, ClTypeOK
    <3>2. stray' = stray
      BY <1>3 DEF Execute, ExecGrant, ExecRevoke, ExecRead
    <3>3. QED BY <1>b, <2>2, <3>1, <3>2, AttachedStays DEF Same
  <2>3. ASSUME NEW d \in Centers PROVE Sane(d)'
    <3>1. CASE d # c
      BY <1>a, <1>b, <1>c, <2>2, <3>1, Frame DEF Threads
    <3>2. CASE d = c
      <4>1. MainSane(c)'
        BY <1>a, <1>b, <1>c, <1>d, <2>1, <2>2
           DEF Sane, MainSane, KaSane, Same, SameCall, Answered, Threads, NoCall, Call
      <4>2. KaSane(c)'
        BY <1>a, <1>b, <1>c, <1>d, <2>1, <2>2
           DEF Sane, MainSane, KaSane, Same, SameCall, Answered, Threads, NoCall, Call, Over
      <4>3. QED BY <3>2, <4>1, <4>2 DEF Sane
    <3>3. QED BY <3>1, <3>2
  <2>4. QED BY <1>1, <2>3
<1>4. QED BY <1>2, <1>3

Elsewhere(c) ==
    /\ \A d \in Centers \ {c} : Same(d) /\ SameCall(d, "main") /\ SameCall(d, "ka")
    /\ live' = live /\ key' = key /\ stray' = stray

\* A step of one center leaves the others sane.
LEMMA OthersStay ==
    ASSUME NEW c \in Centers, Elsewhere(c), \A d \in Centers : Sane(d)
    PROVE  \A d \in Centers \ {c} : Sane(d)'
<1>1. TAKE d \in Centers \ {c}
<1>2. Attached(d) => Attached(d)'
  BY DEF Elsewhere, Same, Attached
<1>3. QED BY <1>2, Frame DEF Elsewhere

\* A process that has not called Start is sane.
LEMMA ResetStep ==
    ASSUME ClTypeOK, LeaseInv, NEW c \in Centers, Reset(c), UNCHANGED <<live, key, stray>>
    PROVE  OneProcess' /\ \A d \in Centers : Sane(d)'
<1>1. Elsewhere(c)
  BY DEF Elsewhere, Same, SameCall, Reset, ClTypeOK
<1>2. \A d \in Centers : Over(d) => Over(d)'
  BY DEF Reset, Over, ClTypeOK
<1>3. Sane(c)'
  BY DEF Sane, MainSane, KaSane, Reset, Answered, Over, NoCall, Call, ClTypeOK, Threads
<1>4. \A d \in Centers : Sane(d)
  BY DEF LeaseInv, Sane
<1>5. QED BY <1>1, <1>2, <1>3, <1>4, OthersStay, OneProcessStays DEF LeaseInv

\* The steps of Start and Close.
LEMMA MainStep ==
    ASSUME LeaseInv, NEW c \in Centers, Main(c) \/ Start(c) \/ Close(c) \/ Crash(c)
    PROVE  OneProcess' /\ \A d \in Centers : Sane(d)'
<1> USE DEF ClTypeOK
<1>a. \A d \in Centers : Sane(d)
  BY DEF LeaseInv, Sane
<1>t. ClTypeOK /\ "main" \in Threads /\ "ka" \in Threads /\ "main" # "ka"
  BY DEF LeaseInv, Threads
<1>1. CASE Start(c)
  <2>1. Elsewhere(c)
    BY <1>1, <1>t DEF Elsewhere, Same, SameCall, Start, Next1
  <2>2. OneProcess'
    BY <1>1, <1>t DEF Start, OneProcess, Over
  <2>3. Sane(c)'
    BY <1>a, <1>1, <1>t
       DEF Sane, MainSane, KaSane, Start, Next1, Answered, Over, Sent, NoCall, Call
  <2>4. QED BY <1>a, <2>1, <2>2, <2>3, OthersStay
<1>2. CASE StartGranted(c) \/ StartRegistered(c) \/ StartSynced(c)
  <2>1. Elsewhere(c)
    BY <1>2, <1>t DEF Elsewhere, Same, SameCall, StartGranted, StartRegistered, StartSynced, Next1
  <2>2. \A d \in Centers : Over(d) => Over(d)'
    BY <1>2, <1>t DEF StartGranted, StartRegistered, StartSynced, Over
  <2>3. MainSane(c)'
    BY <1>a, <1>2, <1>t
       DEF Sane, MainSane, KaSane, StartGranted, StartRegistered, StartSynced, Next1, Answered,
           Attached, Sent, NoCall, Call
  <2>4. KaSane(c)'
    BY <1>a, <1>2, <1>t
       DEF Sane, MainSane, KaSane, StartGranted, StartRegistered, StartSynced, Next1, Answered,
           Attached, Over, Sent, NoCall, Call
  <2>5. QED BY <1>a, <2>1, <2>2, <2>3, <2>4, OthersStay, OneProcessStays DEF Sane, LeaseInv
<1>3. CASE (StartFails(c) /\ leaseID[c] = NoLease) \/ StartUndone(c) \/ Crash(c)
  BY <1>3, <1>t, ResetStep DEF StartFails, StartUndone, Crash
<1>4. CASE StartFails(c) /\ leaseID[c] # NoLease
  <2>1. Elsewhere(c)
    BY <1>4, <1>t DEF Elsewhere, Same, SameCall, StartFails, Next1
  <2>2. \A d \in Centers : Over(d) => Over(d)'
    BY <1>4, <1>t DEF StartFails, Over
  <2>3. Sane(c)'
    BY <1>a, <1>4, <1>t
       DEF Sane, MainSane, KaSane, StartFails, Next1, Answered, Over, Sent, NoCall, Call
  <2>4. QED BY <1>a, <2>1, <2>2, <2>3, OthersStay, OneProcessStays DEF LeaseInv
<1>5. CASE Close(c) \/ CloseRevokes(c) \/ CloseReturns(c)
  <2>1. Elsewhere(c)
    BY <1>5, <1>t DEF Elsewhere, Same, SameCall, Close, CloseRevokes, CloseReturns, Next1
  <2>2. \A d \in Centers : Over(d) => Over(d)'
    BY <1>5, <1>t DEF Close, CloseRevokes, CloseReturns, Over
  <2>3. MainSane(c)'
    BY <1>a, <1>5, <1>t
       DEF Sane, MainSane, KaSane, Close, CloseRevokes, CloseReturns, Next1, Answered, Sent,
           NoCall, Call
  <2>4. KaSane(c)'
    <3>1. CASE Close(c) \/ CloseRevokes(c)
      BY <1>a, <1>t, <3>1
         DEF Sane, MainSane, KaSane, Close, CloseRevokes, Next1, Answered, Attached, Over,
             NoCall, Call
    <3>2. CASE CloseReturns(c)
      <4>1. call'[c]["ka"] = NoCall
        BY <1>t, <3>2 DEF CloseReturns
      <4>2. ka'[c] # "stream" /\ main'[c] = "closed" /\ cancelled'[c]
        BY <1>a, <1>t, <3>2 DEF CloseReturns, Sane, KaSane
      <4>3. QED BY <4>1, <4>2 DEF KaSane, Answered, NoCall, Call
    <3>3. QED BY <1>5, <3>1, <3>2
  <2>5. QED BY <1>a, <2>1, <2>2, <2>3, <2>4, OthersStay, OneProcessStays DEF Sane, LeaseInv
<1>6. QED BY <1>1, <1>2, <1>3, <1>4, <1>5 DEF Main

\* The steps of keepAlive.
LEMMA KeepAliveStep ==
    ASSUME LeaseInv, NEW c \in Centers, KeepAlive(c)
    PROVE  OneProcess' /\ \A d \in Centers : Sane(d)'
<1> USE DEF ClTypeOK
<1>a. \A d \in Centers : Sane(d)
  BY DEF LeaseInv, Sane
<1>t. ClTypeOK /\ "main" \in Threads /\ "ka" \in Threads /\ "main" # "ka"
  BY DEF LeaseInv, Threads
<1>1. Elsewhere(c)
  BY <1>t DEF KeepAlive, KaTop, KaAlive, KaExpired, KaGranted, KaRegistered, KaFails,
              KaStreamEnds, KaStops, Elsewhere, Same, SameCall, Next1
<1>2. main' = main /\ SameCall(c, "main")
  BY <1>t DEF KeepAlive, KaTop, KaAlive, KaExpired, KaGranted, KaRegistered, KaFails,
              KaStreamEnds, KaStops, SameCall, Next1
<1>3. OneProcess'
  BY <1>2, OneProcessStays DEF LeaseInv, Over
<1>4. ka[c] \in {"top", "stream"}
  BY DEF KeepAlive, KaTop, KaAlive, KaExpired, KaGranted, KaRegistered, KaFails,
         KaStreamEnds, KaStops
<1>5. main[c] \notin {"off", "start", "undo"}
  BY <1>a, <1>4 DEF Sane, MainSane
<1>6. MainSane(c)'
  BY <1>a, <1>2, <1>5 DEF Sane, MainSane, SameCall, Answered
<1>7. KaSane(c)'
  <2>1. CASE KaTop(c)
    <3>1. ~Over(c)'
      BY <1>a, <1>2, <1>5, <1>t, <2>1 DEF Sane, KaSane, KaTop, Over
    <3>2. call'[c]["ka"] = IF alive[c] THEN Call("TimeToLive", leaseID[c], "sent")
                                       ELSE Call("Grant", NoLease, "sent")
      BY <1>t, <2>1 DEF KaTop, Next1, Sent
    <3>3. /\ ka'[c] = "top" /\ main'[c] = main[c] /\ alive'[c] = alive[c] /\ cancelled'[c] = cancelled[c]
          /\ leaseID'[c] = leaseID[c] /\ live' = live /\ key' = key /\ stray' = stray
      BY <2>1 DEF KaTop
    <3>4. call'[c]["ka"].res = "sent" /\ call'[c]["ka"].op # "Put"
      BY <3>2 DEF Call
    <3>5. QED BY <1>a, <3>1, <3>2, <3>3, <3>4 DEF Sane, KaSane, Answered, Attached, Call
  <2>2. CASE KaAlive(c)
    BY <1>a, <1>2, <1>5, <1>t, <2>2
       DEF Sane, KaSane, KaAlive, Next1, Answered, Attached, Over, NoCall, Call
  <2>3. CASE KaExpired(c) \/ KaFails(c) \/ KaStreamEnds(c) \/ KaStops(c)
    BY <1>a, <1>2, <1>5, <1>t, <2>3
       DEF Sane, KaSane, KaExpired, KaFails, KaStreamEnds, KaStops, Next1, Answered, Attached,
           Over, NoCall, Call
  <2>4. CASE KaGranted(c)
    BY <1>a, <1>2, <1>5, <1>t, <2>4
       DEF Sane, KaSane, KaGranted, Next1, Answered, Attached, Over, Sent, NoCall, Call
  <2>5. CASE KaRegistered(c)
    BY <1>a, <1>2, <1>5, <1>t, <2>5
       DEF Sane, KaSane, KaRegistered, Next1, Answered, Attached, Over, NoCall, Call
  <2>6. QED BY <2>1, <2>2, <2>3, <2>4, <2>5 DEF KeepAlive
<1>8. QED BY <1>a, <1>1, <1>3, <1>6, <1>7, OthersStay DEF Sane

\* Every step keeps the invariant.
LEMMA LeaseStep == ASSUME LeaseInv, [ClNext]_clVars PROVE LeaseInv'
<1>a. ClTypeOK /\ CallType /\ \A d \in Centers : Sane(d)
  BY DEF LeaseInv, ClTypeOK, CallType, Sane
<1>q. ClTypeOK' /\ OneProcess' /\ (\A d \in Centers : Sane(d)') => LeaseInv'
  BY DEF LeaseInv, Sane
<1>1. CASE ClNext
  <2>1. ClTypeOK'
    BY <1>a, <1>1, ClTypeStep
  <2>2. OneProcess' /\ \A d \in Centers : Sane(d)'
    <3>1. ASSUME NEW c \in Centers, NEW t \in Threads, Execute(c, t)
          PROVE  OneProcess' /\ \A d \in Centers : Sane(d)'
      BY <1>a, <3>1, ExecuteStep
    <3>2. ASSUME NEW c \in Centers, Start(c) \/ Main(c) \/ Close(c) \/ Crash(c)
          PROVE  OneProcess' /\ \A d \in Centers : Sane(d)'
      BY <3>2, MainStep
    <3>3. ASSUME NEW c \in Centers, KeepAlive(c)
          PROVE  OneProcess' /\ \A d \in Centers : Sane(d)'
      BY <3>3, KeepAliveStep
    <3>4. ASSUME NEW l \in Leases, Expire(l)
          PROVE  OneProcess' /\ \A d \in Centers : Sane(d)'
      <4>1. OneProcess'
        BY <3>4, OneProcessStays DEF Expire, LeaseInv, Over
      <4>2. ASSUME NEW d \in Centers PROVE Sane(d)'
        <5>1. Same(d) /\ SameCall(d, "main") /\ SameCall(d, "ka")
          BY <3>4 DEF Expire, Same, SameCall
        <5>2. Attached(d) => Attached(d)'
          BY <3>4, <5>1, AttachedStays DEF Expire, Same
        <5>3. QED BY <1>a, <5>1, <5>2, Frame
      <4>3. QED BY <4>1, <4>2
    <3>5. ASSUME NEW q \in late, ExecLate(q)
          PROVE  OneProcess' /\ \A d \in Centers : Sane(d)'
      <4>1. OneProcess'
        BY <3>5, OneProcessStays DEF ExecLate, LeaseInv, Over
      <4>2. ASSUME NEW d \in Centers PROVE Sane(d)'
        <5>1. Same(d) /\ SameCall(d, "main") /\ SameCall(d, "ka")
          BY <3>5 DEF ExecLate, Same, SameCall
        <5>2. CASE stray'
          BY <1>a, <5>1, <5>2, Frame DEF Attached
        <5>3. CASE ~stray'
          <6>1. \/ live' = live /\ key' = key /\ stray' = stray
                \/ q.lease \in live /\ Remove(q.lease) /\ stray' = stray
            BY <3>5, <5>3 DEF ExecLate
          <6>2. Attached(d) => Attached(d)'
            BY <1>a, <5>1, <6>1, AttachedStays DEF Same, ClTypeOK
          <6>3. QED BY <1>a, <5>1, <6>2, Frame
        <5>4. QED BY <5>2, <5>3
      <4>3. QED BY <4>1, <4>2
    <3>6. QED BY <1>1, <3>1, <3>2, <3>3, <3>4, <3>5 DEF ClNext
  <2>3. QED BY <1>q, <2>1, <2>2
<1>2. CASE UNCHANGED clVars
  BY <1>2 DEF clVars, LeaseInv, ClTypeOK, OneProcess, MainSane, KaSane, Attached, Answered, Over
<1>3. QED BY <1>1, <1>2

\* The invariant holds throughout.
THEOREM ClLeaseInvariant == ClSpec => []LeaseInv
<1>1. ClInit => LeaseInv
  BY ClInitInv
<1>2. LeaseInv /\ [ClNext]_clVars => LeaseInv'
  BY LeaseStep
<1>3. QED BY <1>1, <1>2, PTL DEF ClSpec

\* For any number of restarts, expiries, lost answers, failed registrations and late
\* requests: a keepAlive that refreshes a live lease refreshes the lease of the node's
\* key, or the last Put etcd executed was one its sender had given up.
THEOREM ClStreamedIsRegistered == ClSpec => []StreamedIsRegistered
<1>1. LeaseInv => StreamedIsRegistered
  BY DEF LeaseInv, KaSane, Attached, StreamedIsRegistered
<1>2. QED BY <1>1, ClLeaseInvariant, PTL

=============================================================================
