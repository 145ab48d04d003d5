----------------------------- MODULE MCMessaging -----------------------------
(* Instances of Messaging for TLC: the calls are between a client, an actor it  *)
(* talks to, and an actor elsewhere.                                            *)
EXTENDS Messaging, TLC

CONSTANT Alone  \* the one type whose id is no other's

MCPidOf == CHOOSE f \in [Types -> Pids] :
              \A t, u \in Types : t # u => (f[t] = f[u] <=> Alone \notin {t, u})

Front == CHOOSE p \in Procs : TRUE
MCLinks == (Clients \X {Front}) \cup ({Front} \X Clients) \cup ({Front} \X (Procs \ {Front}))
MCRegistering == ((Clients \cup {Front}) \X {"C2S"}) \cup (Procs \X {"S2S"})

\* Bound: every end has registered Alone when the runs begin, which no other type can
\* prevent, and registers the others in any order or not.
MCInit ==
    /\ reg = [e \in Ends |-> [s \in Scopes |->
                IF <<e, s>> \in Registering THEN Registered(NewRegistry, Alone) ELSE NewRegistry]]
    /\ serving = FALSE
    /\ call = [i \in Calls |-> NoCall] /\ ctx = [i \in Calls |-> NoContext]
    /\ net = {}
    /\ answer = [i \in Calls |-> None]

MCSpec == MCInit /\ [][Next]_vars

MCSymmetry == Permutations(Types \ {Alone}) \cup Permutations(Calls)

=============================================================================
