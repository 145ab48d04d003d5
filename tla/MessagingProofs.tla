---------------------------- MODULE MessagingProofs ---------------------------
(* Proofs about Messaging: between ends that agree on their ids a message is    *)
(* decoded as what it is or not at all, and a caller gets the answer of its     *)
(* own call.                                                                    *)
EXTENDS Messaging, TLAPS

MCalls    == [st : {"new", "waiting", "sent", "done", "panicked"}, kind : Kinds \cup {None},
              from : Ends \cup {None}, to : Ends \cup {None}, type : Types \cup {None}]
MContexts == [st : {"none", "open", "replied", "panicked"}, pkt : Packets \cup {None},
              seq : Calls \cup {None}, got : Types \cup {None, Err}, said : Types \cup {None}]
Registries == [pid2Type : [Pids -> Types \cup {None}], type2Pid : [Types -> Pids \cup {None}]]

\* NothingMistaken and AnswerIsReply for one call.
GotRight(i) ==
    call[i].st # "new" /\ Agree(i) =>
        /\ ctx[i].got \in {None, Err, call[i].type}
        /\ call[i].kind \in {"push", "forward"} => answer[i] \in {None, Err, call[i].type}
AnsweredRight(i) ==
    call[i].kind \in {"req", "rpc", "async"} /\ Agree(i) => answer[i] \in {None, Err, ctx[i].said}

MInv == MsgInv /\ \A i \in Calls : GotRight(i) /\ AnsweredRight(i)

-----------------------------------------------------------------------------
LEMMA MConstants ==
    /\ PidOf \in [Types -> Pids]
    /\ None \notin Types /\ None \notin Pids /\ None \notin Calls /\ None \notin Ends
    /\ None \notin Packets /\ None # Err /\ Err \notin Types
  BY MessagingAssumption

LEMMA Typed ==
    ASSUME MsgInv
    PROVE  /\ \A i \in Calls : call[i] \in MCalls /\ ctx[i] \in MContexts
                               /\ answer[i] \in Types \cup {None, Err}
           /\ \A e \in Ends : \A s \in Scopes : reg[e][s] \in Registries
           /\ net \subseteq Packets
  BY DEF MsgInv, TypeOK, MCalls, MContexts, Registries

\* A step that concerns one call.
LEMMA OneCall ==
    ASSUME MInv, NEW i \in Calls, TypeOK', reg' = reg, serving' = serving,
           \A j \in Calls \ {i} : call'[j] = call[j] /\ ctx'[j] = ctx[j] /\ answer'[j] = answer[j],
           \A p \in net' : p \in net \/ p.call = i,
           CallMatches(i)', GotRight(i)', AnsweredRight(i)',
           \A p \in net' : p.call = i => PacketMatches(p)'
    PROVE  MInv'
  <1>1. RegistriesMatch'
    BY DEF MInv, MsgInv, RegistriesMatch
  <1>2. ASSUME NEW j \in Calls \ {i} PROVE CallMatches(j)' /\ GotRight(j)' /\ AnsweredRight(j)'
    <2>1. CallMatches(j) /\ GotRight(j) /\ AnsweredRight(j)
      BY DEF MInv, MsgInv, PacketsMatch
    <2>2. call'[j] = call[j] /\ ctx'[j] = ctx[j] /\ answer'[j] = answer[j] /\ reg' = reg
          /\ serving' = serving
      OBVIOUS
    <2>3. CallMatches(j)'
      BY ONLY <2>1, <2>2 DEF CallMatches, IsCallOf
    <2>4. GotRight(j)'
      BY ONLY <2>1, <2>2 DEF GotRight, Agree
    <2>5. AnsweredRight(j)'
      BY ONLY <2>1, <2>2 DEF AnsweredRight, Agree
    <2> QED BY <2>3, <2>4, <2>5
  <1>3. ASSUME NEW p \in net', p.call # i PROVE PacketMatches(p)'
    <2>1. p \in net /\ PacketMatches(p)
      BY <1>3 DEF MInv, MsgInv, PacketsMatch
    <2>2. p.call \in Calls \ {i}
      BY <1>3, <2>1, Typed DEF MInv, Packets
    <2> QED BY <2>1, <2>2 DEF PacketMatches, IsCallOf, IsReplyOf
  <1> QED BY <1>1, <1>2, <1>3 DEF MInv, MsgInv, PacketsMatch

LEMMA MInit == Init => MInv
  <1> SUFFICES ASSUME Init PROVE MInv
    OBVIOUS
  <1>1. NewRegistry \in Registries /\ NoCall \in MCalls /\ NoContext \in MContexts
    BY DEF NewRegistry, NoCall, NoContext, Registries, MCalls, MContexts
  <1>2. TypeOK
    <2>1. reg \in [Ends -> [Scopes -> Registries]]
      BY <1>1 DEF Init
    <2>2. call \in [Calls -> MCalls] /\ ctx \in [Calls -> MContexts]
      BY <1>1 DEF Init
    <2>3. serving \in BOOLEAN /\ net \subseteq Packets /\ answer \in [Calls -> Types \cup {None, Err}]
      BY DEF Init
    <2> QED BY ONLY <2>1, <2>2, <2>3 DEF TypeOK, Registries, MCalls, MContexts
  <1>3. RegistriesMatch
    BY MConstants DEF Init, RegistriesMatch, NewRegistry
  <1>4. \A i \in Calls : CallMatches(i) /\ GotRight(i) /\ AnsweredRight(i)
    BY DEF Init, CallMatches, GotRight, AnsweredRight, NoCall, NoContext
  <1> QED BY <1>2, <1>3, <1>4 DEF MInv, MsgInv, PacketsMatch, Init

\* While a registry may change nothing has been sent.
LEMMA NothingSent ==
    ASSUME MsgInv, ~serving
    PROVE  /\ net = {}
           /\ \A i \in Calls : call[i].st = "new" /\ ctx[i].st = "none" /\ ctx[i].said = None
                               /\ answer[i] = None
  <1>1. \A i \in Calls : call[i].st = "new" /\ ctx[i].st = "none" /\ ctx[i].said = None
                         /\ answer[i] = None
    BY DEF MsgInv, PacketsMatch, CallMatches
  <1>2. \A p \in net : p.call \in Calls /\ call[p.call].st # "new"
    BY Typed DEF MsgInv, PacketsMatch, PacketMatches, Packets
  <1> QED BY <1>1, <1>2

\* A registry takes the first type of an id and refuses the others.
LEMMA RegisteredMatch ==
    ASSUME NEW r \in Registries, NEW t \in Types,
           \A u \in Types : \A p \in Pids : r.type2Pid[u] = p <=> r.pid2Type[p] = u /\ p = PidOf[u]
    PROVE  /\ Registered(r, t) \in Registries
           /\ \A u \in Types : \A p \in Pids :
                 Registered(r, t).type2Pid[u] = p
                   <=> Registered(r, t).pid2Type[p] = u /\ p = PidOf[u]
  <1>1. PidOf[t] \in Pids
    BY MConstants
  <1>2. r.pid2Type \in [Pids -> Types \cup {None}] /\ r.type2Pid \in [Types -> Pids \cup {None}]
    BY DEF Registries
  <1>3. CASE r.pid2Type[PidOf[t]] # None \/ r.type2Pid[t] # None
    BY <1>3 DEF Registered
  <1>4. CASE r.pid2Type[PidOf[t]] = None /\ r.type2Pid[t] = None
    <2>1. PICK s : s = Registered(r, t)
      OBVIOUS
    <2>2. s = [pid2Type |-> [r.pid2Type EXCEPT ![PidOf[t]] = t],
               type2Pid |-> [r.type2Pid EXCEPT ![t] = PidOf[t]]]
      BY <1>4, <2>1 DEF Registered
    <2>3. s \in Registries
      BY <1>1, <1>2, <2>2 DEF Registries
    <2>4. /\ \A p \in Pids : s.pid2Type[p] = IF p = PidOf[t] THEN t ELSE r.pid2Type[p]
          /\ \A u \in Types : s.type2Pid[u] = IF u = t THEN PidOf[t] ELSE r.type2Pid[u]
      BY <1>1, <1>2, <2>2
    <2>5. ASSUME NEW u \in Types, NEW p \in Pids
          PROVE  s.type2Pid[u] = p <=> s.pid2Type[p] = u /\ p = PidOf[u]
      BY <1>1, <1>4, <2>4, MConstants
    <2> QED BY <2>1, <2>3, <2>5
  <1> QED BY <1>3, <1>4

LEMMA RegisterKeeps ==
    ASSUME MInv, NEW e \in Ends, NEW s \in Scopes, NEW t \in Types, Register(e, s, t)
    PROVE  MInv'
  <1>1. /\ ~serving /\ reg' = [reg EXCEPT ![e][s] = Registered(reg[e][s], t)]
        /\ UNCHANGED <<serving, call, ctx, net, answer>>
    BY DEF Register
  <1>2. reg \in [Ends -> [Scopes -> Registries]]
    BY DEF MInv, MsgInv, TypeOK, Registries
  <1>3. /\ Registered(reg[e][s], t) \in Registries
        /\ \A u \in Types : \A p \in Pids :
              Registered(reg[e][s], t).type2Pid[u] = p
                <=> Registered(reg[e][s], t).pid2Type[p] = u /\ p = PidOf[u]
    <2>1. reg[e][s] \in Registries
      BY <1>2
    <2>2. \A u \in Types : \A p \in Pids :
             reg[e][s].type2Pid[u] = p <=> reg[e][s].pid2Type[p] = u /\ p = PidOf[u]
      BY DEF MInv, MsgInv, RegistriesMatch
    <2> QED BY <2>1, <2>2, RegisteredMatch
  <1>4. reg' \in [Ends -> [Scopes -> Registries]]
    BY <1>1, <1>2, <1>3
  <1>5. \A d \in Ends : \A r \in Scopes :
           reg'[d][r] = IF d = e /\ r = s THEN Registered(reg[e][s], t) ELSE reg[d][r]
    BY <1>1, <1>2
  <1>6. TypeOK'
    BY <1>1, <1>4 DEF MInv, MsgInv, TypeOK, Registries
  <1>7. RegistriesMatch'
    BY <1>3, <1>5 DEF MInv, MsgInv, RegistriesMatch
  <1>8. net' = {} /\ \A i \in Calls : call'[i].st = "new" /\ ctx'[i].st = "none" /\ ctx'[i].said = None
                                      /\ answer'[i] = None /\ (ctx'[i].st = "none" => ctx'[i] = NoContext)
    BY <1>1, NothingSent DEF MInv, MsgInv, PacketsMatch, CallMatches
  <1>9. \A i \in Calls : CallMatches(i)' /\ GotRight(i)' /\ AnsweredRight(i)'
    BY <1>8 DEF CallMatches, GotRight, AnsweredRight, NoContext
  <1> QED BY <1>6, <1>7, <1>8, <1>9 DEF MInv, MsgInv, PacketsMatch

\* Calls and contexts that stay as they are keep what is known of them.
LEMMA SameCalls ==
    ASSUME MInv, serving => serving', UNCHANGED <<reg, call, ctx, answer>>, NEW i \in Calls
    PROVE  CallMatches(i)' /\ GotRight(i)' /\ AnsweredRight(i)'
  <1>1. CallMatches(i) /\ GotRight(i) /\ AnsweredRight(i)
    BY DEF MInv, MsgInv, PacketsMatch
  <1>2. CallMatches(i)'
    BY <1>1 DEF CallMatches, IsCallOf
  <1>3. GotRight(i)'
    BY <1>1 DEF GotRight, Agree
  <1>4. AnsweredRight(i)'
    BY <1>1 DEF AnsweredRight, Agree
  <1> QED BY <1>2, <1>3, <1>4

LEMMA StartKeeps == ASSUME MInv, Start PROVE MInv'
  <1>1. serving' = TRUE /\ UNCHANGED <<reg, call, ctx, net, answer>>
    BY DEF Start
  <1>2. TypeOK' /\ RegistriesMatch'
    BY <1>1 DEF MInv, MsgInv, TypeOK, RegistriesMatch
  <1>3. \A i \in Calls : CallMatches(i)' /\ GotRight(i)' /\ AnsweredRight(i)'
    BY <1>1, SameCalls
  <1>4. \A p \in net' : PacketMatches(p)'
    BY <1>1 DEF MInv, MsgInv, PacketsMatch, PacketMatches, IsCallOf, IsReplyOf
  <1> QED BY <1>2, <1>3, <1>4 DEF MInv, MsgInv, PacketsMatch

\* The id under which an end sends a type is the type's own.
LEMMA PidMatches ==
    ASSUME MInv, NEW e \in Ends, NEW kind, NEW t \in Types, Pid(e, kind, t) # None
    PROVE  /\ Pid(e, kind, t) \in Pids /\ Pid(e, kind, t) = PidOf[t]
           /\ reg[e][Scope(kind)].pid2Type[Pid(e, kind, t)] = t
  <1>1. Scope(kind) \in Scopes
    BY DEF Scope, Scopes
  <1>2. Pid(e, kind, t) \in Pids
    BY <1>1, Typed DEF MInv, Pid, Registries
  <1> QED BY <1>1, <1>2 DEF MInv, MsgInv, RegistriesMatch, Pid

\* A packet is decoded as what it is or not at all, if the ends agree.
LEMMA DecodedRight ==
    ASSUME MInv, NEW e \in Ends, NEW d \in Ends, NEW p \in Packets,
           \/ reg[e][Scope(p.kind)].pid2Type[p.pid] = None
           \/ reg[d][Scope(p.kind)].pid2Type[p.pid] = None
           \/ reg[e][Scope(p.kind)].pid2Type[p.pid] = reg[d][Scope(p.kind)].pid2Type[p.pid],
           reg[e][Scope(p.kind)].pid2Type[p.pid] = p.type,
           NEW m \in Decoded(d, p.kind, p.pid, p.type)
    PROVE  m \in {Err, p.type}
  <1>1. p.pid \in Pids /\ p.type \in Types
    BY DEF Packets
  <1>2. reg[d][Scope(p.kind)].pid2Type[p.pid] \in {None, p.type}
    BY <1>1, MConstants
  <1> QED BY <1>2 DEF Decoded

LEMMA DecodedAtTo ==
    ASSUME MInv, NEW i \in Calls, Agree(i), call[i].from \in Ends, call[i].to \in Ends,
           NEW p \in Packets, p.kind = call[i].kind,
           reg[call[i].from][Scope(p.kind)].pid2Type[p.pid] = p.type,
           NEW m \in Decoded(call[i].to, p.kind, p.pid, p.type)
    PROVE  m \in {Err, p.type}
  <1>1. p.pid \in Pids
    BY DEF Packets
  <1>2. \/ reg[call[i].from][Scope(p.kind)].pid2Type[p.pid] = None
        \/ reg[call[i].to][Scope(p.kind)].pid2Type[p.pid] = None
        \/ reg[call[i].from][Scope(p.kind)].pid2Type[p.pid]
             = reg[call[i].to][Scope(p.kind)].pid2Type[p.pid]
    BY <1>1 DEF Agree
  <1> QED BY <1>2, DecodedRight

LEMMA DecodedAtFrom ==
    ASSUME MInv, NEW i \in Calls, Agree(i), call[i].from \in Ends, call[i].to \in Ends,
           NEW p \in Packets, p.kind = call[i].kind,
           reg[call[i].to][Scope(p.kind)].pid2Type[p.pid] = p.type,
           NEW m \in Decoded(call[i].from, p.kind, p.pid, p.type)
    PROVE  m \in {Err, p.type}
  <1>1. p.pid \in Pids
    BY DEF Packets
  <1>2. \/ reg[call[i].to][Scope(p.kind)].pid2Type[p.pid] = None
        \/ reg[call[i].from][Scope(p.kind)].pid2Type[p.pid] = None
        \/ reg[call[i].to][Scope(p.kind)].pid2Type[p.pid]
             = reg[call[i].from][Scope(p.kind)].pid2Type[p.pid]
    BY <1>1 DEF Agree
  <1> QED BY <1>2, DecodedRight

LEMMA CallSent ==
    ASSUME MInv, NEW i \in Calls, serving, call[i].st = "new",
           NEW c \in MCalls, c.st \in {"waiting", "sent", "panicked"}, c.kind \in Kinds,
           {c.from, c.to} \subseteq Ends,
           c.st = "waiting" => c.kind \in {"req", "rpc", "async"},
           call' = [call EXCEPT ![i] = c], UNCHANGED <<reg, serving, ctx, answer>>,
           NEW new \in SUBSET Packets, net' = net \cup new,
           \A p \in new : p.call = i /\ p.way = "there" /\ IsCallOf(p, i)'
    PROVE  MInv'
  <1>1. call'[i] = c /\ \A j \in Calls \ {i} : call'[j] = call[j]
    BY DEF MInv, MsgInv, TypeOK
  <1>2. CallMatches(i)
    BY DEF MInv, MsgInv, PacketsMatch
  <1>3. ctx[i] = NoContext /\ ctx[i].st = "none" /\ answer[i] = None
    BY <1>2 DEF CallMatches
  <1>4. TypeOK'
    BY Typed DEF MInv, MsgInv, TypeOK, MCalls
  <1>5. CallMatches(i)'
    BY <1>1, <1>2, <1>3 DEF CallMatches
  <1>6. GotRight(i)' /\ AnsweredRight(i)'
    BY <1>1, <1>3 DEF GotRight, AnsweredRight, NoContext
  <1>7. ASSUME NEW p \in net', p.call = i PROVE PacketMatches(p)'
    <2>1. p \in new
      BY <1>7 DEF MInv, MsgInv, PacketsMatch, PacketMatches
    <2> QED BY <1>1, <1>3, <1>7, <2>1 DEF PacketMatches
  <1>8. \A p \in net' : p \in net \/ p.call = i
    OBVIOUS
  <1> QED BY <1>1, <1>4, <1>5, <1>6, <1>7, <1>8, OneCall

LEMMA SendKeeps ==
    ASSUME MInv, NEW i \in Calls, NEW kind \in Kinds, NEW from \in Ends, NEW to \in Ends,
           NEW t \in Types, NEW s \in {"waiting", "sent"},
           s = "waiting" => kind \in {"req", "rpc", "async"}, Send(i, kind, from, to, t, s)
    PROVE  MInv'
  <1> DEFINE c == [st |-> s, kind |-> kind, from |-> from, to |-> to, type |-> t]
             p == Packet(i, kind, "there", IF kind = "req" THEN i ELSE None, Pid(from, kind, t), t)
  <1>1. /\ serving /\ call[i].st = "new" /\ Pid(from, kind, t) # None
        /\ call' = [call EXCEPT ![i] = c] /\ net' = net \cup {p}
        /\ UNCHANGED <<reg, serving, ctx, answer>>
    BY DEF Send
  <1>2. /\ Pid(from, kind, t) \in Pids /\ Pid(from, kind, t) = PidOf[t]
        /\ reg[from][Scope(kind)].pid2Type[Pid(from, kind, t)] = t
    BY <1>1, PidMatches
  <1>3. c \in MCalls /\ p \in Packets
    BY <1>2 DEF MCalls, Packet, Packets
  <1>4. call'[i] = c
    BY <1>1 DEF MInv, MsgInv, TypeOK
  <1>5. p.call = i /\ p.way = "there" /\ p.kind = kind /\ p.type = t /\ p.pid = Pid(from, kind, t)
        /\ p.seq = IF kind = "req" THEN i ELSE None
    BY DEF Packet
  <1>6. \A q \in {p} : q.call = i /\ q.way = "there" /\ IsCallOf(q, i)'
    BY <1>1, <1>2, <1>4, <1>5 DEF IsCallOf
  <1>7. c.st = s /\ c.kind = kind /\ c.from = from /\ c.to = to
    OBVIOUS
  <1> HIDE DEF c, p
  <1>8. PICK new \in SUBSET Packets : new = {p}
    BY <1>3
  <1>9. net' = net \cup new /\ \A q \in new : q.call = i /\ q.way = "there" /\ IsCallOf(q, i)'
    BY <1>1, <1>6, <1>8
  <1> QED BY <1>1, <1>3, <1>7, <1>9, CallSent

LEMMA ContextCastKeeps ==
    ASSUME MInv, NEW i \in Calls, NEW from \in Ends, NEW to \in Ends, NEW t \in Types,
           ContextCast(i, from, to, t)
    PROVE  MInv'
  <1> DEFINE c == [st |-> "panicked", kind |-> "cast", from |-> from, to |-> to, type |-> t]
  <1>1. /\ serving /\ call[i].st = "new" /\ call' = [call EXCEPT ![i] = c]
        /\ UNCHANGED <<reg, serving, ctx, net, answer>>
    BY DEF ContextCast
  <1>2. c \in MCalls /\ c.st = "panicked" /\ c.kind = "cast" /\ c.kind \in Kinds
        /\ {c.from, c.to} \subseteq Ends
    BY DEF MCalls, Kinds
  <1> HIDE DEF c
  <1>3. PICK new \in SUBSET Packets : new = {}
    OBVIOUS
  <1>4. net' = net \cup new /\ \A q \in new : q.call = i /\ q.way = "there" /\ IsCallOf(q, i)'
    BY <1>1, <1>3
  <1> QED BY <1>1, <1>2, <1>4, CallSent

LEMMA CallerKeeps ==
    ASSUME MInv, NEW i \in Calls, Caller(i) PROVE MInv'
  <1>1. PICK from \in Ends, to \in Ends, t \in Types :
           \/ Request(i, from, to, t) \/ RPC(i, from, to, t) \/ AsyncRPC(i, from, to, t)
           \/ PushRawMessage(i, from, to, t) \/ Forward(i, from, to, t)
           \/ Cast(i, from, to, t) \/ ContextCast(i, from, to, t)
    BY DEF Caller
  <1>2. {"req", "rpc", "async", "push", "forward", "cast"} \subseteq Kinds
    BY DEF Kinds
  <1>3. CASE Request(i, from, to, t)
    BY <1>2, <1>3, SendKeeps DEF Request
  <1>4. CASE RPC(i, from, to, t)
    BY <1>2, <1>4, SendKeeps DEF RPC
  <1>5. CASE AsyncRPC(i, from, to, t)
    BY <1>2, <1>5, SendKeeps DEF AsyncRPC
  <1>6. CASE PushRawMessage(i, from, to, t)
    BY <1>2, <1>6, SendKeeps DEF PushRawMessage
  <1>7. CASE Forward(i, from, to, t)
    BY <1>2, <1>7, SendKeeps DEF Forward
  <1>8. CASE Cast(i, from, to, t)
    BY <1>2, <1>8, SendKeeps DEF Cast
  <1>9. CASE ContextCast(i, from, to, t)
    BY <1>9, ContextCastKeeps
  <1> QED BY <1>1, <1>3, <1>4, <1>5, <1>6, <1>7, <1>8, <1>9

\* The packets of a call stay what they are when the call's and the context's own
\* fields do.
LEMMA SamePackets ==
    ASSUME MInv, NEW i \in Calls, reg' = reg, net' \subseteq net,
           call'[i].st # "new", call'[i].kind = call[i].kind, call'[i].type = call[i].type,
           call'[i].from = call[i].from, call'[i].to = call[i].to,
           ctx'[i].st = ctx[i].st, ctx'[i].said = ctx[i].said
    PROVE  \A p \in net' : p.call = i => PacketMatches(p)'
  <1> SUFFICES ASSUME NEW p \in net', p.call = i PROVE PacketMatches(p)'
    OBVIOUS
  <1>1. PacketMatches(p)
    BY DEF MInv, MsgInv, PacketsMatch
  <1> QED BY <1>1 DEF PacketMatches, IsCallOf, IsReplyOf

LEMMA LoseKeeps ==
    ASSUME MInv, NEW p \in net, Lose(p) PROVE MInv'
  <1>1. net' \subseteq net /\ UNCHANGED <<reg, serving, call, ctx, answer>>
    BY DEF Lose
  <1>2. TypeOK' /\ RegistriesMatch'
    BY <1>1 DEF MInv, MsgInv, TypeOK, RegistriesMatch
  <1>3. \A i \in Calls : CallMatches(i)' /\ GotRight(i)' /\ AnsweredRight(i)'
    BY <1>1, SameCalls
  <1>4. \A q \in net' : PacketMatches(q)'
    BY <1>1 DEF MInv, MsgInv, PacketsMatch, PacketMatches, IsCallOf, IsReplyOf
  <1> QED BY <1>2, <1>3, <1>4 DEF MInv, MsgInv, PacketsMatch

LEMMA ReceivePushKeeps ==
    ASSUME MInv, NEW p \in net, ReceivePush(p) PROVE MInv'
  <1>1. PICK i \in Calls : i = p.call
    BY Typed DEF MInv, Packets
  <1>2. p \in Packets /\ PacketMatches(p) /\ CallMatches(i)
    BY Typed DEF MInv, MsgInv, PacketsMatch
  <1>3. PICK m \in Decoded(call[i].to, p.kind, p.pid, p.type) : answer' = [answer EXCEPT ![i] = m]
    BY <1>1 DEF ReceivePush
  <1>4. /\ p.kind \in {"push", "forward"} /\ net' = net \ {p}
        /\ UNCHANGED <<reg, serving, call, ctx>>
    BY DEF ReceivePush
  <1>5. call[i].st # "new" /\ call[i].kind \in Kinds /\ call[i].from \in Ends /\ call[i].to \in Ends
    BY <1>1, <1>2 DEF PacketMatches, CallMatches
  <1>6. p.way = "there" /\ IsCallOf(p, i)
    <2>1. p.way = "back" => ctx[i].st = "replied" /\ IsReplyOf(p, i)
      BY <1>1, <1>2 DEF PacketMatches
    <2>2. p.way # "back"
      BY <1>2, <1>4, <2>1 DEF CallMatches, IsReplyOf
    <2> QED BY <1>1, <1>2, <2>2 DEF PacketMatches, Packets
  <1>7. p.kind = call[i].kind /\ p.type = call[i].type
        /\ reg[call[i].from][Scope(p.kind)].pid2Type[p.pid] = p.type
    BY <1>6 DEF IsCallOf
  <1>8. m \in Types \cup {Err}
    <2>1. Scope(p.kind) \in Scopes
      BY DEF Scope, Scopes
    <2>2. reg[call[i].to][Scope(p.kind)].pid2Type[p.pid] \in Types \cup {None}
      BY <1>2, <1>5, <2>1, Typed DEF MInv, Registries, Packets
    <2> QED BY <1>2, <2>2 DEF Decoded, Packets
  <1>9. answer'[i] = m /\ \A j \in Calls \ {i} : answer'[j] = answer[j]
    BY <1>3 DEF MInv, MsgInv, TypeOK
  <1>10. TypeOK'
    BY <1>3, <1>4, <1>8 DEF MInv, MsgInv, TypeOK
  <1>11. CallMatches(i)'
    BY <1>2, <1>4, <1>5 DEF CallMatches, IsCallOf
  <1>12. GotRight(i)'
    <2>1. ASSUME Agree(i) PROVE m \in {Err, p.type}
      BY <1>2, <1>5, <1>7, <2>1, DecodedAtTo
    <2>2. Agree(i)' = Agree(i)
      BY <1>4 DEF Agree
    <2>3. GotRight(i)
      BY DEF MInv
    <2> QED BY <1>4, <1>7, <1>9, <2>1, <2>2, <2>3 DEF GotRight
  <1>13. AnsweredRight(i)'
    BY <1>4, <1>7 DEF AnsweredRight
  <1>14. \A q \in net' : q.call = i => PacketMatches(q)'
    BY <1>4, <1>5, SamePackets
  <1> QED BY <1>4, <1>9, <1>10, <1>11, <1>12, <1>13, <1>14, OneCall

LEMMA SamePacket ==
    ASSUME NEW p \in Packets, NEW q \in Packets, q.call = p.call, q.kind = p.kind,
           q.way = p.way, q.seq = p.seq, q.pid = p.pid, q.type = p.type
    PROVE  q = p
  <1>1. p = [call |-> p.call, kind |-> p.kind, way |-> p.way, seq |-> p.seq, pid |-> p.pid,
             type |-> p.type]
    BY DEF Packets
  <1>2. q = [call |-> q.call, kind |-> q.kind, way |-> q.way, seq |-> q.seq, pid |-> q.pid,
             type |-> q.type]
    BY DEF Packets
  <1> QED BY <1>1, <1>2

LEMMA HandleKeeps ==
    ASSUME MInv, NEW p \in net, Handle(p) PROVE MInv'
  <1>1. PICK i \in Calls : i = p.call
    BY Typed DEF MInv, Packets
  <1>2. p \in Packets /\ p # None /\ PacketMatches(p) /\ CallMatches(i)
    BY Typed, MConstants DEF MInv, MsgInv, PacketsMatch
  <1>3. /\ p.way = "there" /\ p.kind \in {"req", "rpc", "async", "cast"} /\ net' = net \ {p}
        /\ ctx' = [ctx EXCEPT ![i] = [st |-> "open", pkt |-> p, seq |-> None, got |-> None,
                                      said |-> None]]
        /\ UNCHANGED <<reg, serving, call, answer>>
    BY <1>1 DEF Handle
  <1>4. ctx[i].st = "none" /\ IsCallOf(p, i) /\ call[i].st # "new"
    BY <1>1, <1>2, <1>3 DEF PacketMatches
  <1>5. /\ ctx'[i] = [st |-> "open", pkt |-> p, seq |-> None, got |-> None, said |-> None]
        /\ \A j \in Calls \ {i} : ctx'[j] = ctx[j]
    BY <1>3 DEF MInv, MsgInv, TypeOK
  <1>6. TypeOK'
    <2>1. ctx'[i] \in MContexts
      BY <1>2, <1>5 DEF MContexts
    <2>2. ctx' \in [Calls -> MContexts]
      BY <1>3, <1>5, <2>1 DEF MInv, MsgInv, TypeOK, MContexts
    <2> QED BY <1>3, <2>2 DEF MInv, MsgInv, TypeOK, MContexts
  <1>7. p.kind = call[i].kind
    BY <1>4 DEF IsCallOf
  <1>8. CallMatches(i)'
    <2>1. ctx'[i].st = "open" /\ ctx'[i].pkt = p /\ ctx'[i].seq = None /\ ctx'[i].said = None
      BY ONLY <1>5
    <2>2. IsCallOf(p, i)'
      BY ONLY <1>3, <1>4 DEF IsCallOf
    <2>3. call'[i] = call[i] /\ answer'[i] = answer[i] /\ serving' = serving /\ p # None
          /\ call[i].kind \in {"req", "rpc", "async", "cast"}
      BY <1>2, <1>3, <1>7
    <2> QED BY ONLY <1>2, <1>4, <2>1, <2>2, <2>3 DEF CallMatches, IsCallOf
  <1>9. GotRight(i)'
    BY <1>3, <1>5, <1>7 DEF GotRight
  <1>10. AnsweredRight(i)'
    <2>1. ctx[i].said = None
      BY <1>2, <1>4 DEF CallMatches
    <2>2. AnsweredRight(i)
      BY DEF MInv
    <2>3. Agree(i)' = Agree(i)
      BY <1>3 DEF Agree
    <2> QED BY <1>3, <1>5, <2>1, <2>2, <2>3 DEF AnsweredRight
  <1>11. ASSUME NEW q \in net', q.call = i PROVE FALSE
    <2>1. q \in net /\ q # p /\ q \in Packets /\ PacketMatches(q)
      BY <1>3, Typed DEF MInv, MsgInv, PacketsMatch
    <2>2. q.way = "there" /\ IsCallOf(q, i)
      BY <1>4, <1>11, <2>1 DEF PacketMatches, Packets
    <2>3. q.call = p.call /\ q.kind = p.kind /\ q.way = p.way /\ q.seq = p.seq /\ q.pid = p.pid
          /\ q.type = p.type
      BY <1>3, <1>4, <2>2 DEF IsCallOf
    <2> QED BY <1>2, <2>1, <2>3, SamePacket
  <1>12. \A q \in net' : q \in net
    BY <1>3
  <1> QED BY <1>3, <1>5, <1>6, <1>8, <1>9, <1>10, <1>11, <1>12, OneCall

LEMMA DecodeKeeps ==
    ASSUME MInv, NEW i \in Calls, NEW m \in Types \cup {Err}, Decode(i, m) PROVE MInv'
  <1> DEFINE p == ctx[i].pkt
             seq == IF m = Err THEN None ELSE p.seq
  <1>1. /\ ctx[i].st = "open" /\ m \in Decoded(call[i].to, p.kind, p.pid, p.type)
        /\ ctx' = [ctx EXCEPT ![i] = [ctx[i] EXCEPT !.got = m, !.seq = seq]]
        /\ UNCHANGED <<reg, serving, call, net, answer>>
    BY DEF Decode, At, MInv, MsgInv, TypeOK
  <1>2. CallMatches(i) /\ GotRight(i) /\ AnsweredRight(i) /\ ctx[i] \in MContexts
    BY Typed DEF MInv, MsgInv, PacketsMatch
  <1>3. p \in Packets /\ IsCallOf(p, i) /\ call[i].st # "new" /\ call[i].kind \notin {"push", "forward"}
        /\ call[i].from \in Ends /\ call[i].to \in Ends
    BY <1>1, <1>2 DEF CallMatches, MContexts
  <1>4. seq \in Calls \cup {None} /\ seq \in {None, p.seq}
    BY <1>3 DEF Packets
  <1> HIDE DEF p, seq
  <1>5. /\ ctx'[i] = [ctx[i] EXCEPT !.got = m, !.seq = seq]
        /\ \A j \in Calls \ {i} : ctx'[j] = ctx[j]
    BY <1>1 DEF MInv, MsgInv, TypeOK
  <1>6. ctx'[i] \in MContexts
    BY <1>2, <1>4, <1>5 DEF MContexts
  <1>7. ctx'[i].st = ctx[i].st /\ ctx'[i].pkt = ctx[i].pkt /\ ctx'[i].said = ctx[i].said
        /\ ctx'[i].got = m /\ ctx'[i].seq = seq
    BY <1>2, <1>5 DEF MContexts
  <1>8. TypeOK'
    <2>1. ctx' \in [Calls -> MContexts]
      BY <1>1, <1>5, <1>6 DEF MInv, MsgInv, TypeOK, MContexts
    <2> QED BY <1>1, <2>1 DEF MInv, MsgInv, TypeOK, MContexts
  <1>9. CallMatches(i)'
    BY <1>1, <1>2, <1>4, <1>7 DEF CallMatches, IsCallOf, p
  <1>10. Agree(i)' = Agree(i)
    BY <1>1 DEF Agree
  <1>11. GotRight(i)'
    <2>1. ASSUME Agree(i) PROVE m \in {Err, p.type}
      <3>1. p.kind = call[i].kind /\ reg[call[i].from][Scope(p.kind)].pid2Type[p.pid] = p.type
        BY <1>3 DEF IsCallOf
      <3> QED BY <1>1, <1>3, <2>1, <3>1, DecodedAtTo DEF p
    <2>2. p.type = call[i].type
      BY <1>3 DEF IsCallOf
    <2> QED BY <1>1, <1>3, <1>7, <1>10, <2>1, <2>2 DEF GotRight
  <1>12. AnsweredRight(i)'
    BY <1>1, <1>2, <1>7, <1>10 DEF AnsweredRight
  <1>13. \A q \in net' : q.call = i => PacketMatches(q)'
    BY <1>1, <1>3, <1>7, SamePackets
  <1> QED BY <1>1, <1>5, <1>8, <1>9, <1>11, <1>12, <1>13, OneCall

\* Before a reply no packet of its call is on its way.
LEMMA NothingOnItsWay ==
    ASSUME MInv, NEW i \in Calls, ctx[i].st = "open", NEW p \in net, p.call = i PROVE FALSE
  <1>1. p \in Packets /\ PacketMatches(p)
    BY Typed DEF MInv, MsgInv, PacketsMatch
  <1> QED BY <1>1 DEF PacketMatches, Packets

LEMMA ReplyKeeps ==
    ASSUME MInv, NEW i \in Calls, NEW t \in Types, Reply(i, t) PROVE MInv'
  <1>1. /\ ctx[i].st = "open" /\ ctx[i].pkt.kind # "cast"
        /\ UNCHANGED <<reg, serving, call, answer>>
    BY DEF Reply
  <1>2. CallMatches(i) /\ GotRight(i) /\ AnsweredRight(i) /\ ctx[i] \in MContexts
    BY Typed DEF MInv, MsgInv, PacketsMatch
  <1>3. /\ ctx[i].pkt \in Packets /\ IsCallOf(ctx[i].pkt, i) /\ call[i].st # "new"
        /\ call[i].from \in Ends /\ call[i].to \in Ends /\ call[i].kind \notin {"push", "forward"}
        /\ ctx[i].said = None /\ ctx[i].seq \in {None, ctx[i].pkt.seq}
    BY <1>1, <1>2 DEF CallMatches, MContexts
  <1>4. Agree(i)' = Agree(i)
    BY <1>1 DEF Agree
  <1>5. ASSUME NEW c \in MContexts, ctx' = [ctx EXCEPT ![i] = c], c.st \in {"panicked", "replied"},
               c.pkt = ctx[i].pkt, c.seq = ctx[i].seq, c.got = ctx[i].got,
               c.st # "replied" => c.said = None,
               \A p \in net' : p \in net \/ p.call = i,
               net' \subseteq Packets,
               \A p \in net' : p.call = i => PacketMatches(p)'
        PROVE  MInv'
    <2>1. ctx'[i] = c /\ \A j \in Calls \ {i} : ctx'[j] = ctx[j]
      BY <1>5 DEF MInv, MsgInv, TypeOK
    <2>2. TypeOK'
      <3>1. ctx' \in [Calls -> MContexts]
        BY <1>5, Typed DEF MInv, MsgInv, TypeOK, MContexts
      <3> QED BY <1>1, <1>5, <3>1 DEF MInv, MsgInv, TypeOK, MContexts
    <2>3. CallMatches(i)'
      <3>1. /\ ctx'[i].st \in {"panicked", "replied"} /\ ctx'[i].pkt = ctx[i].pkt
            /\ ctx'[i].seq = ctx[i].seq /\ (ctx'[i].st # "replied" => ctx'[i].said = None)
        BY ONLY <1>5, <2>1
      <3>2. call'[i] = call[i] /\ answer'[i] = answer[i] /\ serving' = serving /\ reg' = reg
        BY <1>1
      <3>3. IsCallOf(ctx[i].pkt, i)'
        BY ONLY <1>3, <3>1, <3>2 DEF IsCallOf
      <3> QED BY ONLY <1>1, <1>2, <3>1, <3>2, <3>3 DEF CallMatches, IsCallOf
    <2>4. GotRight(i)'
      BY <1>1, <1>2, <1>4, <1>5, <2>1 DEF GotRight
    <2>5. AnsweredRight(i)'
      BY <1>1, <1>2, <1>3, <1>4, <2>1 DEF AnsweredRight
    <2> QED BY <1>1, <1>5, <2>1, <2>2, <2>3, <2>4, <2>5, OneCall
  <1>6. CASE ctx[i].pkt.kind = "req" /\ ctx[i].seq = None
    <2> DEFINE c == [ctx[i] EXCEPT !.st = "panicked"]
    <2>1. ctx' = [ctx EXCEPT ![i] = c] /\ net' = net
      BY <1>6 DEF Reply
    <2>2. c \in MContexts /\ c.st = "panicked" /\ c.pkt = ctx[i].pkt /\ c.seq = ctx[i].seq
          /\ c.got = ctx[i].got /\ c.said = None
      BY <1>2, <1>3 DEF MContexts
    <2> HIDE DEF c
    <2>3. \A p \in net' : p.call = i => PacketMatches(p)'
      BY <1>1, <2>1, NothingOnItsWay
    <2>4. net' \subseteq Packets
      BY <2>1, Typed DEF MInv
    <2> QED BY <1>5, <2>1, <2>2, <2>3, <2>4
  <1>7. CASE ~(ctx[i].pkt.kind = "req" /\ ctx[i].seq = None)
    <2> DEFINE kind == ctx[i].pkt.kind
               c == [ctx[i] EXCEPT !.st = "replied", !.said = t]
    <2>0. PICK p : p = Packet(i, kind, "back", ctx[i].seq, Pid(call[i].to, kind, t), t)
      OBVIOUS
    <2>1. ctx' = [ctx EXCEPT ![i] = c] /\ net' = net \cup {p} /\ Pid(call[i].to, kind, t) # None
      BY <1>7, <2>0 DEF Reply, At, MInv, MsgInv, TypeOK
    <2>2. c \in MContexts /\ c.st = "replied" /\ c.pkt = ctx[i].pkt /\ c.seq = ctx[i].seq
          /\ c.got = ctx[i].got /\ c.said = t
      BY <1>2, <1>3 DEF MContexts
    <2>3. /\ Pid(call[i].to, kind, t) \in Pids /\ Pid(call[i].to, kind, t) = PidOf[t]
          /\ reg[call[i].to][Scope(kind)].pid2Type[Pid(call[i].to, kind, t)] = t
      <3>1. call[i].to \in Ends /\ t \in Types /\ Pid(call[i].to, kind, t) # None
        BY <1>3, <2>1
      <3> QED BY ONLY MInv, <3>1, PidMatches
    <2>4. kind = call[i].kind /\ (kind = "req" => ctx[i].seq = i) /\ kind \in Kinds
          /\ ctx[i].seq \in Calls \cup {None}
      BY <1>2, <1>3, <1>7 DEF IsCallOf, Packets, MContexts
    <2>5. p \in Packets
      BY <2>0, <2>3, <2>4 DEF Packet, Packets
    <2>6. p.call = i /\ p.kind = kind /\ p.way = "back" /\ p.seq = ctx[i].seq
          /\ p.pid = Pid(call[i].to, kind, t) /\ p.type = t
      BY <2>0 DEF Packet
    <2> HIDE DEF c, kind
    <2>7. ctx'[i] = c
      BY <2>1 DEF MInv, MsgInv, TypeOK
    <2>8. PacketMatches(p)'
      <3>1. IsReplyOf(p, i)'
        BY <1>1, <2>2, <2>3, <2>4, <2>6, <2>7 DEF IsReplyOf
      <3> QED BY <1>1, <1>3, <2>2, <2>6, <2>7, <3>1 DEF PacketMatches
    <2>9. ASSUME NEW q \in net', q.call = i PROVE PacketMatches(q)'
      <3>1. q = p
        BY <1>1, <2>1, <2>9, NothingOnItsWay
      <3> QED BY <2>8, <3>1
    <2>10. net' \subseteq Packets /\ \A q \in net' : q \in net \/ q.call = i
      BY <2>1, <2>5, <2>6, Typed DEF MInv
    <2> QED BY <1>5, <2>1, <2>2, <2>9, <2>10
  <1> QED BY <1>6, <1>7

\* A call ends with m.
LEMMA CallEnds ==
    ASSUME MInv, NEW i \in Calls, NEW m \in Types \cup {Err}, HandleResp(i, m), net' \subseteq net,
           Agree(i) => m \in {Err, ctx[i].said}
    PROVE  MInv'
  <1>1. /\ call[i].st = "waiting" /\ call' = [call EXCEPT ![i] = [call[i] EXCEPT !.st = "done"]]
        /\ answer' = [answer EXCEPT ![i] = m] /\ UNCHANGED <<reg, serving, ctx>>
    BY DEF HandleResp, MInv, MsgInv, TypeOK
  <1>2. CallMatches(i) /\ GotRight(i) /\ AnsweredRight(i) /\ call[i] \in MCalls
    BY Typed DEF MInv, MsgInv, PacketsMatch
  <1>3. /\ call'[i] = [call[i] EXCEPT !.st = "done"] /\ answer'[i] = m
        /\ \A j \in Calls \ {i} : call'[j] = call[j] /\ answer'[j] = answer[j]
    BY <1>1 DEF MInv, MsgInv, TypeOK
  <1>4. call'[i] \in MCalls
    BY <1>2, <1>3 DEF MCalls
  <1>5. call'[i].st = "done" /\ call'[i].kind = call[i].kind /\ call'[i].from = call[i].from
        /\ call'[i].to = call[i].to /\ call'[i].type = call[i].type
    BY <1>2, <1>3 DEF MCalls
  <1>6. TypeOK'
    <2>1. call' \in [Calls -> MCalls]
      BY <1>1, <1>3, <1>4 DEF MInv, MsgInv, TypeOK, MCalls
    <2> QED BY <1>1, <2>1 DEF MInv, MsgInv, TypeOK, MCalls
  <1>7. CallMatches(i)'
    BY ONLY <1>1, <1>2, <1>5 DEF CallMatches, IsCallOf
  <1>8. Agree(i)' = Agree(i)
    BY ONLY <1>1, <1>5 DEF Agree
  <1>9. GotRight(i)'
    <2>1. call[i].kind \notin {"push", "forward"}
      BY <1>1, <1>2 DEF CallMatches
    <2> QED BY <1>1, <1>2, <1>5, <1>8, <2>1 DEF GotRight
  <1>10. AnsweredRight(i)'
    BY <1>1, <1>3, <1>5, <1>8 DEF AnsweredRight
  <1>11. \A q \in net' : q.call = i => PacketMatches(q)'
    BY <1>1, <1>5, SamePackets
  <1> QED BY <1>1, <1>3, <1>6, <1>7, <1>9, <1>10, <1>11, OneCall

LEMMA RespondKeeps ==
    ASSUME MInv, NEW p \in net, Respond(p) PROVE MInv'
  <1>1. PICK i \in Calls : i = p.call
    BY Typed DEF MInv, Packets
  <1>2. p \in Packets /\ PacketMatches(p) /\ CallMatches(i)
    BY Typed DEF MInv, MsgInv, PacketsMatch
  <1>3. p.way = "back" /\ net' = net \ {p}
    BY DEF Respond
  <1>4. call[i].st # "new" /\ IsReplyOf(p, i) /\ ctx[i].said = p.type
    BY <1>1, <1>2, <1>3 DEF PacketMatches, IsReplyOf
  <1>5. i = IF p.kind = "req" THEN p.seq ELSE p.call
    BY <1>1, <1>4 DEF IsReplyOf
  <1>6. PICK m \in Decoded(call[p.call].from, p.kind, p.pid, p.type) : HandleResp(i, m)
    BY <1>1, <1>5 DEF Respond
  <1>7. call[i].from \in Ends /\ call[i].to \in Ends
    BY <1>2, <1>4 DEF CallMatches
  <1>8. p.kind = call[i].kind /\ reg[call[i].to][Scope(p.kind)].pid2Type[p.pid] = p.type
    BY <1>4 DEF IsReplyOf
  <1>9. m \in Types \cup {Err}
    <2>1. Scope(p.kind) \in Scopes
      BY DEF Scope, Scopes
    <2>2. reg[call[i].from][Scope(p.kind)].pid2Type[p.pid] \in Types \cup {None}
      BY <1>2, <1>7, <2>1, Typed DEF MInv, Registries, Packets
    <2> QED BY <1>1, <1>2, <1>6, <2>2 DEF Decoded, Packets
  <1>10. ASSUME Agree(i) PROVE m \in {Err, p.type}
    BY <1>1, <1>2, <1>6, <1>7, <1>8, <1>10, DecodedAtFrom
  <1> QED BY <1>3, <1>4, <1>6, <1>9, <1>10, CallEnds

LEMMA ExpireKeeps ==
    ASSUME MInv, NEW i \in Calls, Expire(i) PROVE MInv'
  BY CallEnds DEF Expire

LEMMA MStep == MInv /\ [Next]_vars => MInv'
  <1> SUFFICES ASSUME MInv, [Next]_vars PROVE MInv'
    OBVIOUS
  <1>1. ASSUME NEW e \in Ends, NEW s \in Scopes, NEW t \in Types, Register(e, s, t) PROVE MInv'
    BY <1>1, RegisterKeeps
  <1>2. CASE Start
    BY <1>2, StartKeeps
  <1>3. ASSUME NEW i \in Calls, Caller(i) \/ Expire(i) PROVE MInv'
    BY <1>3, CallerKeeps, ExpireKeeps
  <1>4. ASSUME NEW i \in Calls, Handler(i) PROVE MInv'
    BY <1>4, DecodeKeeps, ReplyKeeps DEF Handler
  <1>5. ASSUME NEW p \in net, ReceivePush(p) \/ Handle(p) \/ Respond(p) \/ Lose(p) PROVE MInv'
    BY <1>5, ReceivePushKeeps, HandleKeeps, RespondKeeps, LoseKeeps
  <1>6. CASE UNCHANGED vars
    <2>1. TypeOK' /\ RegistriesMatch'
      BY <1>6 DEF vars, MInv, MsgInv, TypeOK, RegistriesMatch
    <2>2. \A i \in Calls : CallMatches(i)' /\ GotRight(i)' /\ AnsweredRight(i)'
      BY <1>6, SameCalls DEF vars
    <2>3. \A q \in net' : PacketMatches(q)'
      BY <1>6 DEF vars, MInv, MsgInv, PacketsMatch, PacketMatches, IsCallOf, IsReplyOf
    <2> QED BY <2>1, <2>2, <2>3 DEF MInv, MsgInv, PacketsMatch
  <1> QED BY <1>1, <1>2, <1>3, <1>4, <1>5, <1>6 DEF Next

LEMMA MAlways == Spec => []MInv
  <1> QED BY MInit, MStep, PTL DEF Spec

\* Packets and contexts belong to calls and carry the ids of the registries, for every
\* number of ends, types and calls, every collision of ids and every loss.
THEOREM MessagingInvariant == Spec => []MsgInv
  <1>1. MInv => MsgInv
    BY DEF MInv
  <1> QED BY <1>1, MAlways, PTL

\* A message is decoded as what it is or not at all, as long as the ends of the call agree
\* on the types of the ids they both know.
THEOREM MessagesAreNotMistaken == Spec => []NothingMistaken
  <1>1. MInv => NothingMistaken
    BY DEF MInv, GotRight, NothingMistaken
  <1> QED BY <1>1, MAlways, PTL

\* Between ends that agree on their ids a caller gets an error, or what the handler of its
\* own call replied, for any number of calls that are open at once, answered in any order,
\* late or never.
THEOREM CallersGetTheirAnswer == Spec => []AnswerIsReply
  <1>1. MInv => AnswerIsReply
    BY DEF MInv, AnsweredRight, AnswerIsReply
  <1> QED BY <1>1, MAlways, PTL

=============================================================================
