------------------------------ MODULE Messaging -------------------------------
(* How typed messages travel between clients and actors: the protocol registry  *)
(* (base/protocol), the payloads and codecs (base/codec, infra/actor), and the  *)
(* calls that contexts, actors and the service make with them.                  *)
(*                                                                              *)
(* gactor (external) carries packets and opens a context for each that asks for *)
(* one.  It may lose a packet, it ends a call that has waited too long, drops   *)
(* an answer that comes later, and knows the call an RPC response belongs to; a *)
(* client knows its request by the seq.  A call's variants WithDeadline,        *)
(* WithTimeout and WithContext differ in when it ends: at any time, here.       *)
CONSTANTS Clients, Procs,  \* the ends messages travel between
          Types,           \* message types
          Pids,            \* protocol ids
          PidOf,           \* PidOf[t]: hashPID of the name of t; types may collide
          Calls,           \* bound: calls; the seq of a request is its own
          Links,           \* bound: <<from, to>> of calls
          Registering,     \* <<e, s>>: end e registers types for scope s; a client has C2S
          None,            \* no type, id or seq
          Err              \* an error in the place of a message

Ends == Clients \cup Procs
Scopes == {"C2S", "S2S"}
Kinds == {"req", "push", "forward", "rpc", "async", "cast"}
Packets == [call : Calls, kind : Kinds, way : {"there", "back"}, seq : Calls \cup {None},
            pid : Pids, type : Types]

ASSUME MessagingAssumption ==
    /\ PidOf \in [Types -> Pids]
    /\ Clients \cap Procs = {} /\ Links \subseteq Ends \X Ends
    /\ Registering \subseteq (Ends \X Scopes) \ (Clients \X {"S2S"})
    /\ None \notin Types \cup Pids \cup Calls \cup Ends \cup {Err} \cup Packets
    /\ Err \notin Types

VARIABLES reg,       \* reg[e][s]: the registry of end e for scope s
          serving,   \* the services are started: registries change no more
          call,      \* call[i]: the i-th call, as its caller sees it
          ctx,       \* ctx[i]: the context it is handled in
          net,       \* packets on their way
          answer     \* answer[i]: what came back, from a call or to its callback, or was
                     \* pushed: a type or Err; None yet

vars == <<reg, serving, call, ctx, net, answer>>

NewRegistry == [pid2Type |-> [p \in Pids |-> None], type2Pid |-> [t \in Types |-> None]]
NoCall == [st |-> "new", kind |-> None, from |-> None, to |-> None, type |-> None]
NoContext == [st |-> "none", pkt |-> None, seq |-> None, got |-> None, said |-> None]

Init ==
    /\ reg = [e \in Ends |-> [s \in Scopes |-> NewRegistry]]
    /\ serving = FALSE
    /\ call = [i \in Calls |-> NoCall] /\ ctx = [i \in Calls |-> NoContext]
    /\ net = {}
    /\ answer = [i \in Calls |-> None]

-----------------------------------------------------------------------------
(* The registries.                                                             *)

\* Mutant: of two types with one id the later takes it.
Registered_LastWins(r, t) ==
    [pid2Type |-> [r.pid2Type EXCEPT ![PidOf[t]] = t],
     type2Pid |-> [r.type2Pid EXCEPT ![t] = PidOf[t]]]

\* Registry r after Register(t): a type whose id is another's is refused.
Registered(r, t) ==
    IF r.pid2Type[PidOf[t]] # None \/ r.type2Pid[t] # None THEN r
    ELSE [pid2Type |-> [r.pid2Type EXCEPT ![PidOf[t]] = t],
          type2Pid |-> [r.type2Pid EXCEPT ![t] = PidOf[t]]]

Register(e, s, t) ==
    /\ ~serving /\ <<e, s>> \in Registering
    /\ reg' = [reg EXCEPT ![e][s] = Registered(reg[e][s], t)]
    /\ UNCHANGED <<serving, call, ctx, net, answer>>

Start ==
    /\ ~serving /\ serving' = TRUE
    /\ UNCHANGED <<reg, call, ctx, net, answer>>

Scope(kind) == IF kind \in {"req", "push", "forward"} THEN "C2S" ELSE "S2S"

\* NewC2SPayload and NewS2SPayload: the id of a message, or none: it is not sent then.
Pid(e, kind, t) == reg[e][Scope(kind)].type2Pid[t]

\* The decoders: what an end makes of the bytes of a t that came with an id.  Unmarshal
\* may well take the bytes of one type for another.
Decoded(e, kind, pid, t) ==
    LET created == reg[e][Scope(kind)].pid2Type[pid]
    IN  IF created = None THEN {Err} ELSE IF created = t THEN {t} ELSE {created, Err}

-----------------------------------------------------------------------------
(* Callers.                                                                    *)

Packet(i, kind, way, seq, pid, t) ==
    [call |-> i, kind |-> kind, way |-> way, seq |-> seq, pid |-> pid, type |-> t]

\* Where a call starts and ends: a client's request; what an actor or the service
\* sends to a client; and what contexts, actors and services send to an actor.
Routes(kind) ==
    CASE kind = "req" -> Clients \X Procs
      [] kind \in {"push", "forward"} -> Procs \X Clients
      [] OTHER -> Procs \X Procs

Send(i, kind, from, to, t, st) ==
    /\ serving /\ call[i].st = "new" /\ <<from, to>> \in Routes(kind) \cap Links
    /\ Pid(from, kind, t) # None
    /\ call' = [call EXCEPT ![i] = [st |-> st, kind |-> kind, from |-> from,
                                    to |-> to, type |-> t]]
    /\ net' = net \cup {Packet(i, kind, "there", IF kind = "req" THEN i ELSE None,
                               Pid(from, kind, t), t)}
    /\ UNCHANGED <<reg, serving, ctx, answer>>

\* EncodeReqPacket of a client.
Request(i, from, to, t) == Send(i, "req", from, to, t, "waiting")

\* The calls that come back: RPC and AsyncRPC.
RPC(i, from, to, t)      == Send(i, "rpc", from, to, t, "waiting")
AsyncRPC(i, from, to, t) == Send(i, "async", from, to, t, "waiting")

\* PushRawMessage of an actor, Forward of the service, and their Cast.
PushRawMessage(i, from, to, t) == Send(i, "push", from, to, t, "sent")
Forward(i, from, to, t)        == Send(i, "forward", from, to, t, "sent")
Cast(i, from, to, t)           == Send(i, "cast", from, to, t, "sent")

\* Cast of a context passes the payload by value, and Encode, which expects a pointer,
\* panics.
ContextCast(i, from, to, t) ==
    /\ serving /\ call[i].st = "new" /\ <<from, to>> \in Routes("cast") \cap Links
    /\ Pid(from, "cast", t) # None
    /\ call' = [call EXCEPT ![i] = [st |-> "panicked", kind |-> "cast", from |-> from,
                                    to |-> to, type |-> t]]
    /\ UNCHANGED <<reg, serving, ctx, net, answer>>

-----------------------------------------------------------------------------
(* Handlers.                                                                   *)

\* A client decodes what is pushed to it.
ReceivePush(p) ==
    /\ p.kind \in {"push", "forward"}
    /\ net' = net \ {p}
    /\ \E m \in Decoded(call[p.call].to, p.kind, p.pid, p.type) :
          answer' = [answer EXCEPT ![p.call] = m]
    /\ UNCHANGED <<reg, serving, call, ctx>>

\* Anything else gets a context.
Handle(p) ==
    /\ p.way = "there" /\ p.kind \in {"req", "rpc", "async", "cast"}
    /\ net' = net \ {p}
    /\ ctx' = [ctx EXCEPT ![p.call] = [st |-> "open", pkt |-> p, seq |-> None,
                                       got |-> None, said |-> None]]
    /\ UNCHANGED <<reg, serving, call, answer>>

At(i) == call[i].to

\* Mutant: the seq is kept in the ContextSugarUtil, which all contexts share.
Decode_SharedSeq(i, m) ==
    /\ ctx[i].st = "open" /\ ctx[i].got = None
    /\ m \in Decoded(At(i), ctx[i].pkt.kind, ctx[i].pkt.pid, ctx[i].pkt.type)
    /\ ctx' = [j \in Calls |->
                 IF j = i THEN [ctx[i] EXCEPT !.got = m, !.seq = ctx[i].pkt.seq]
                 ELSE IF ctx[j].seq # None THEN [ctx[j] EXCEPT !.seq = ctx[i].pkt.seq]
                 ELSE ctx[j]]
    /\ UNCHANGED <<reg, serving, call, net, answer>>

\* Decode: a context keeps the seq of a request that could be decoded.
Decode(i, m) ==
    /\ ctx[i].st = "open" /\ ctx[i].got = None
    /\ m \in Decoded(At(i), ctx[i].pkt.kind, ctx[i].pkt.pid, ctx[i].pkt.type)
    /\ ctx' = [ctx EXCEPT ![i].got = m,
                          ![i].seq = IF m = Err THEN None ELSE ctx[i].pkt.seq]
    /\ UNCHANGED <<reg, serving, call, net, answer>>

\* Reply: a context that has no seq panics; a reply that is not registered is refused.
Reply(i, t) ==
    LET kind == ctx[i].pkt.kind
    IN  /\ ctx[i].st = "open" /\ kind # "cast"
        /\ IF kind = "req" /\ ctx[i].seq = None
           THEN ctx' = [ctx EXCEPT ![i].st = "panicked"] /\ UNCHANGED net
           ELSE /\ Pid(At(i), kind, t) # None
                /\ ctx' = [ctx EXCEPT ![i].st = "replied", ![i].said = t]
                /\ net' = net \cup {Packet(i, kind, "back", ctx[i].seq, Pid(At(i), kind, t), t)}
        /\ UNCHANGED <<reg, serving, call, answer>>

Lose(p) ==
    /\ net' = net \ {p}
    /\ UNCHANGED <<reg, serving, call, ctx, answer>>

-----------------------------------------------------------------------------
(* Answers.                                                                    *)

\* The call returns, or its callback is called, with m.
HandleResp(i, m) ==
    /\ call[i].st = "waiting"
    /\ call' = [call EXCEPT ![i].st = "done"]
    /\ answer' = [answer EXCEPT ![i] = m]
    /\ UNCHANGED <<reg, serving, ctx>>

\* A response arrives; it is lost if the call has ended.
Respond(p) ==
    LET i == IF p.kind = "req" THEN p.seq ELSE p.call
    IN  /\ p.way = "back"
        /\ \E m \in Decoded(call[i].from, p.kind, p.pid, p.type) : HandleResp(i, m)
        /\ net' = net \ {p}

\* A call's time is over, or it failed on its way.
Expire(i) == HandleResp(i, Err) /\ UNCHANGED net

-----------------------------------------------------------------------------
Caller(i) ==
    \E from \in Ends, to \in Ends, t \in Types :
        \/ Request(i, from, to, t) \/ RPC(i, from, to, t) \/ AsyncRPC(i, from, to, t)
        \/ PushRawMessage(i, from, to, t) \/ Forward(i, from, to, t)
        \/ Cast(i, from, to, t) \/ ContextCast(i, from, to, t)

Handler(i) ==
    \/ \E m \in Types \cup {Err} : Decode(i, m)
    \/ \E t \in Types : Reply(i, t)

Next ==
    \/ \E e \in Ends, s \in Scopes, t \in Types : Register(e, s, t)
    \/ Start
    \/ \E i \in Calls : Caller(i) \/ Handler(i) \/ Expire(i)
    \/ \E p \in net : ReceivePush(p) \/ Handle(p) \/ Respond(p) \/ Lose(p)

Spec == Init /\ [][Next]_vars

-----------------------------------------------------------------------------
(* Properties.                                                                 *)

TypeOK ==
    /\ reg \in [Ends -> [Scopes -> [pid2Type : [Pids -> Types \cup {None}],
                                    type2Pid : [Types -> Pids \cup {None}]]]]
    /\ serving \in BOOLEAN
    /\ call \in [Calls -> [st : {"new", "waiting", "sent", "done", "panicked"},
                           kind : Kinds \cup {None}, from : Ends \cup {None},
                           to : Ends \cup {None}, type : Types \cup {None}]]
    /\ ctx \in [Calls -> [st : {"none", "open", "replied", "panicked"},
                          pkt : Packets \cup {None}, seq : Calls \cup {None},
                          got : Types \cup {None, Err}, said : Types \cup {None}]]
    /\ net \subseteq Packets
    /\ answer \in [Calls -> Types \cup {None, Err}]

\* The maps of a registry stay each other's inverse, with ids that are the types' own.
RegistriesMatch ==
    \A e \in Ends : \A s \in Scopes : \A t \in Types : \A p \in Pids :
        reg[e][s].type2Pid[t] = p <=> reg[e][s].pid2Type[p] = t /\ p = PidOf[t]

\* p is the packet of call i, with the id that the caller's registry has for its type.
IsCallOf(p, i) ==
    /\ p.call = i /\ p.kind = call[i].kind /\ p.type = call[i].type /\ p.pid = PidOf[p.type]
    /\ p.seq = IF p.kind = "req" THEN i ELSE None
    /\ reg[call[i].from][Scope(p.kind)].pid2Type[p.pid] = p.type

\* p is the reply to call i, with the id that its actor's registry has for its type.
IsReplyOf(p, i) ==
    /\ p.call = i /\ p.kind = call[i].kind /\ p.type = ctx[i].said /\ p.pid = PidOf[p.type]
    /\ p.kind = "req" => p.seq = i
    /\ reg[call[i].to][Scope(p.kind)].pid2Type[p.pid] = p.type

\* What is known of call i and of the context it is handled in.
CallMatches(i) ==
    /\ call[i].st = "new" => answer[i] = None
    /\ call[i].st # "new" => serving /\ call[i].kind \in Kinds
                             /\ {call[i].from, call[i].to} \subseteq Ends
    /\ call[i].st = "waiting" => call[i].kind \in {"req", "rpc", "async"}
    /\ ctx[i].st = "none" => ctx[i] = NoContext
    /\ ctx[i].st # "none" => call[i].st # "new" /\ call[i].kind \notin {"push", "forward"}
                             /\ ctx[i].pkt # None /\ IsCallOf(ctx[i].pkt, i)
                             /\ ctx[i].seq \in {None, ctx[i].pkt.seq}
    /\ ctx[i].st # "replied" => ctx[i].said = None

\* What is known of a packet on its way.
PacketMatches(p) ==
    /\ call[p.call].st # "new"
    /\ p.way = "there" => ctx[p.call].st = "none" /\ IsCallOf(p, p.call)
    /\ p.way = "back" => ctx[p.call].st = "replied" /\ IsReplyOf(p, p.call)

\* Packets and contexts belong to calls; a call is sent once and replied to once.
PacketsMatch ==
    /\ \A i \in Calls : CallMatches(i)
    /\ \A p \in net : PacketMatches(p)

MsgInv == TypeOK /\ RegistriesMatch /\ PacketsMatch

\* The ends of call i do not have different types under one id.
Agree(i) ==
    LET r(e) == reg[e][Scope(call[i].kind)].pid2Type
    IN  \A p \in Pids : r(call[i].from)[p] = None \/ r(call[i].to)[p] = None
                         \/ r(call[i].from)[p] = r(call[i].to)[p]

\* Between ends that agree on their ids, a message is decoded as what it is or not at all,
\* whichever types either end registered, with ids that collide.  The condition is needed:
\* of two types with one id a registry takes the one that comes first (registry.go:41), so
\* ends that were filled in different orders hold different types under it, and nothing in
\* the code notices; then a message is decoded as the other type.
NothingMistaken ==
    \A i \in Calls : call[i].st # "new" /\ Agree(i) =>
        /\ ctx[i].got \in {None, Err, call[i].type}
        /\ call[i].kind \in {"push", "forward"} => answer[i] \in {None, Err, call[i].type}

\* Between ends that agree on their ids, what a caller gets back is an error, or what the
\* handler of that very call replied: with many requests open at an actor, replies in any
\* order and late ones.
AnswerIsReply ==
    \A i \in Calls : call[i].kind \in {"req", "rpc", "async"} /\ Agree(i) =>
        answer[i] \in {None, Err, ctx[i].said}

=============================================================================
