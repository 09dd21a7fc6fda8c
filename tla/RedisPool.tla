------------------------------- MODULE RedisPool -------------------------------
(***************************************************************************)
(* A redis_connection resource: the pool of connections                    *)
(* (pine-cpp/src/redis/connection_pool.cpp, .hpp), the client that speaks  *)
(* the protocol over one of them (redis_client.cpp), the operators         *)
(* transform_redis_get and transform_redis_set, which run one command or   *)
(* one transaction each, and the probe thread, which pings the server from *)
(* time to time until the resource is destroyed.                           *)
(*                                                                         *)
(* The server is external: it answers the commands of a connection in      *)
(* order.  An answer is on the wire from the moment its command is sent    *)
(* until the client has read it; a read that finds it late or the          *)
(* connection broken fails.  An answer is its first byte, the user whose   *)
(* command it answers, and whether it is only the QUEUED of a transaction. *)
(* "?" is the rest of an answer whose first byte the client did not        *)
(* expect, or of an array it has stopped reading.  A command that is sent  *)
(* in part is left out, as are metrics.                                    *)
(***************************************************************************)
EXTENDS Naturals, FiniteSets, Sequences, SequencesExt

CONSTANTS
    Users,     \* the executions of a redis operator
    Probe,     \* the probe thread
    Conns,     \* names for connections
    NoConn,    \* a value that is no connection
    MaxIdle,   \* max_idle_per_key_
    MaxWire,   \* how many answers a connection may have outstanding
    Plans      \* what the executions may do: get, range, set, transaction

Everyone == Users \cup {Probe}

VARIABLES
    op,        \* what an execution does
    mode,      \* where it, or the probe thread, is
    step,      \* the command it is at
    conn,      \* the connection it has
    answers,   \* the answers it has accepted
    outcome,   \* how it has ended
    wire,      \* the answers of a connection that are not yet read
    txn,       \* the server's transaction on a connection
    soiled,    \* the connections on which an exchange has failed (a history variable)
    idle,      \* the idle queue of the one key
    inUse,     \* in_use_
    owner      \* the resource: up, stopping, gone

clients == <<op, mode, step, conn, answers, outcome>>
server  == <<wire, txn, soiled>>
vars    == <<clients, server, idle, inUse, owner>>

(* The commands of an execution: Client::get, smembers and lrange, set,    *)
(* write_multiexec, ping.                                                  *)
Script(u) == CASE op[u] = "get"   -> <<"GET">>
               [] op[u] = "range" -> <<"LRANGE">>
               [] op[u] = "set"   -> <<"SET">>
               [] op[u] = "ping"  -> <<"PING">>
               [] OTHER           -> <<"MULTI", "DEL", "RPUSH", "EXEC">>

(* The server's answers to a command, by their first byte; "[" is an array *)
(* with an error in it, "Q" the +QUEUED of a transaction.                  *)
Replies(c, command) ==
    IF command \notin {"MULTI", "EXEC", "DISCARD"} /\ txn[c] # "none" THEN {"Q", "-"}
    ELSE CASE command = "MULTI" -> IF txn[c] = "none" THEN {"+"} ELSE {"-"}
           [] command = "EXEC" -> IF txn[c] = "open" THEN {"*", "["} ELSE {"-"}
           [] command = "DISCARD" -> IF txn[c] = "none" THEN {"-"} ELSE {"+"}
           [] command = "GET" -> {"$", "-"}
           [] command = "LRANGE" -> {"*", "-"}
           [] command = "SET" -> {"+", "-"}
           [] OTHER -> {"+"}

AfterCommand(c, command, reply) ==
    CASE command = "MULTI" -> IF txn[c] = "none" THEN "open" ELSE txn[c]
      [] command \in {"EXEC", "DISCARD"} -> "none"
      [] OTHER -> IF txn[c] # "none" /\ reply = "-" THEN "aborted" ELSE txn[c]

(* What the client takes for the answer of a command.                      *)
Accepted(command) ==
    CASE command = "GET" -> {"$", "+", "Q"}
      [] command = "SET" -> {"+", "Q", "$"}
      [] command \in {"LRANGE", "EXEC"} -> {"*"}
      [] command = "PING" -> {"+", "Q", "$"}
      [] OTHER -> {"+", "Q"}

Command(u) == IF mode[u] \in {"discard", "discarded"} THEN "DISCARD" ELSE Script(u)[step[u]]

Goto(u, m) == mode' = [mode EXCEPT ![u] = m]

Init ==
    /\ op \in Plans
    /\ mode = [u \in Everyone |-> IF u = Probe THEN "acquire" ELSE "ready"]
    /\ step = [u \in Everyone |-> 1]
    /\ conn = [u \in Everyone |-> NoConn]
    /\ answers = [u \in Everyone |-> {}]
    /\ outcome = [u \in Everyone |-> "none"]
    /\ wire = [c \in Conns |-> <<>>]
    /\ txn = [c \in Conns |-> "none"]
    /\ soiled = {}
    /\ idle = <<>> /\ inUse = 0
    /\ owner = "up"

Held == {conn[u] : u \in Everyone} \ {NoConn}

---------------------------------------------------------------------------
(* The connections in S are closed: their descriptors may be used again.   *)
Shut(S) ==
    /\ wire' = [c \in Conns |-> IF c \in S THEN <<>> ELSE wire[c]]
    /\ txn' = [c \in Conns |-> IF c \in S THEN "none" ELSE txn[c]]
    /\ soiled' = soiled \ S

(* run_command looks at the context once, before it asks for a connection. *)
Begin(u) ==
    /\ mode[u] = "ready"
    /\ \/ Goto(u, "acquire") /\ UNCHANGED outcome
       \/ Goto(u, "done") /\ outcome' = [outcome EXCEPT ![u] = "failed"]
    /\ UNCHANGED <<op, step, conn, answers, server, idle, inUse, owner>>

(* acquire takes the connection released last ...                          *)
Reuse(u) ==
    /\ mode[u] = "acquire"
    /\ idle # <<>>
    /\ conn' = [conn EXCEPT ![u] = Last(idle)]
    /\ idle' = Front(idle)
    /\ inUse' = inUse + 1
    /\ Goto(u, "send")
    /\ UNCHANGED <<op, step, answers, outcome, server, owner>>

(* ... unless it, and so every other, is older than kIdleTimeout.          *)
Renew(u) ==
    /\ mode[u] = "acquire"
    /\ idle' = <<>>
    /\ Shut(Range(idle))
    /\ inUse' = inUse + 1
    /\ Goto(u, "dial")
    /\ UNCHANGED <<op, step, conn, answers, outcome, owner>>

(* The constructor of Client: whatever fails, AUTH and SELECT included,    *)
(* leaves a client that is not connected.                                  *)
Dial(u) ==
    /\ mode[u] = "dial"
    /\ \/ /\ Conns \ (Held \cup Range(idle)) # {}
          /\ conn' = [conn EXCEPT ![u] = CHOOSE c \in Conns \ (Held \cup Range(idle)) : TRUE]
          /\ Goto(u, "send")
          /\ UNCHANGED outcome
       \/ /\ outcome' = [outcome EXCEPT ![u] = "failed"]
          /\ Goto(u, "release")
          /\ UNCHANGED conn
    /\ UNCHANGED <<op, step, answers, server, idle, inUse, owner>>

(* The exchange has thrown: the operator warns and goes on, the connection *)
(* is released as it is.                                                   *)
Fail(u) ==
    /\ outcome' = [outcome EXCEPT ![u] = "failed"]
    /\ answers' = [answers EXCEPT ![u] = {}]
    /\ step' = [step EXCEPT ![u] = 1]
    /\ soiled' = soiled \cup {conn[u]}
    /\ Goto(u, "release")

Answered(u) ==
    /\ outcome' = [outcome EXCEPT ![u] = "answered"]
    /\ step' = [step EXCEPT ![u] = 1]
    /\ Goto(u, "release")

Send(u) ==
    /\ mode[u] \in {"send", "discard"}
    /\ LET c == conn[u] IN
       \/ /\ Len(wire[c]) < MaxWire
          /\ \E r \in Replies(c, Command(u)) :
               /\ wire' = [wire EXCEPT ![c] = Append(@, [byte |-> r, to |-> u])]
               /\ txn' = [txn EXCEPT ![c] = AfterCommand(c, Command(u), r)]
          /\ Goto(u, IF mode[u] = "send" THEN "read" ELSE "discarded")
          /\ UNCHANGED <<step, answers, outcome, soiled>>
       \/ Fail(u) /\ UNCHANGED <<wire, txn>>
    /\ UNCHANGED <<op, conn, idle, inUse, owner>>

(* The next answer on the wire is what the client expects.                 *)
Read(u) ==
    /\ mode[u] = "read"
    /\ LET c == conn[u] IN
       /\ wire[c] # <<>>
       /\ Head(wire[c]).byte \in Accepted(Command(u))
       /\ answers' = [answers EXCEPT ![u] = @ \cup {Head(wire[c])}]
       /\ wire' = [wire EXCEPT ![c] = Tail(@)]
    /\ IF step[u] < Len(Script(u))
       THEN step' = [step EXCEPT ![u] = @ + 1] /\ Goto(u, "send") /\ UNCHANGED outcome
       ELSE Answered(u)
    /\ UNCHANGED <<op, conn, txn, soiled, idle, inUse, owner>>

(* It is an error, which in the middle of a transaction is answered with   *)
(* DISCARD.                                                                *)
ReadError(u) ==
    /\ mode[u] = "read"
    /\ wire[conn[u]] # <<>>
    /\ Head(wire[conn[u]]).byte = "-"
    /\ wire' = [wire EXCEPT ![conn[u]] = Tail(@)]
    /\ IF Command(u) \in {"DEL", "RPUSH"}
       THEN Goto(u, "discard") /\ UNCHANGED <<step, answers, outcome, soiled>>
       ELSE Fail(u)
    /\ UNCHANGED <<op, conn, txn, idle, inUse, owner>>

(* It is something else: the client stops reading in the middle of it.     *)
ReadOther(u) ==
    /\ mode[u] = "read"
    /\ wire[conn[u]] # <<>>
    /\ Head(wire[conn[u]]).byte \notin Accepted(Command(u)) \cup {"-"}
    /\ wire' = [wire EXCEPT ![conn[u]][1].byte = "?"]
    /\ Fail(u)
    /\ UNCHANGED <<op, conn, txn, idle, inUse, owner>>

(* The line that DISCARD is answered with is read whatever it says.        *)
ReadDiscarded(u) ==
    /\ mode[u] = "discarded"
    /\ wire[conn[u]] # <<>>
    /\ wire' = [wire EXCEPT ![conn[u]] = Tail(@)]
    /\ Fail(u)
    /\ UNCHANGED <<op, conn, txn, idle, inUse, owner>>

(* The answer is late, or the connection is broken.                        *)
ReadFails(u) ==
    /\ mode[u] \in {"read", "discarded"}
    /\ Fail(u)
    /\ UNCHANGED <<op, conn, wire, txn, idle, inUse, owner>>

---------------------------------------------------------------------------
(* release: the count first, then, under the mutex, the idle queue.        *)

Over(u) == IF u = Probe THEN "waiting" ELSE "done"

Release(u) ==
    /\ mode[u] = "release"
    /\ inUse' = inUse - 1
    /\ Goto(u, IF conn[u] = NoConn THEN Over(u) ELSE "push")
    /\ UNCHANGED <<op, step, conn, answers, outcome, server, idle, owner>>

Push(u) ==
    /\ mode[u] = "push"
    /\ IF Len(idle) >= MaxIdle
       THEN Shut({conn[u]}) /\ UNCHANGED idle
       ELSE idle' = Append(idle, conn[u]) /\ UNCHANGED server
    /\ conn' = [conn EXCEPT ![u] = NoConn]
    /\ Goto(u, Over(u))
    /\ UNCHANGED <<op, step, answers, outcome, inUse, owner>>

---------------------------------------------------------------------------
(* The probe thread and the destructor of the resource, which runs when no *)
(* operator has borrowed it.                                               *)

(* Mutated form: the thread only looks at the clock.                       *)
NextProbeAnyway ==
    /\ mode[Probe] = "waiting"
    /\ Goto(Probe, "acquire")
    /\ answers' = [answers EXCEPT ![Probe] = {}]
    /\ outcome' = [outcome EXCEPT ![Probe] = "none"]
    /\ UNCHANGED <<op, step, conn, server, idle, inUse, owner>>

NextProbe ==
    /\ mode[Probe] = "waiting"
    /\ IF owner = "up" THEN Goto(Probe, "acquire") ELSE Goto(Probe, "ended")
    /\ answers' = [answers EXCEPT ![Probe] = {}]
    /\ outcome' = [outcome EXCEPT ![Probe] = "none"]
    /\ UNCHANGED <<op, step, conn, server, idle, inUse, owner>>

Destroy ==
    /\ owner = "up"
    /\ \A u \in Users : mode[u] = "done"
    /\ owner' = "stopping"
    /\ UNCHANGED <<clients, server, idle, inUse>>

Joined ==
    /\ owner = "stopping"
    /\ mode[Probe] = "ended"
    /\ owner' = "gone"
    /\ idle' = <<>>
    /\ UNCHANGED <<clients, server, inUse>>

ClientStep(u) ==
    \/ Begin(u) \/ Reuse(u) \/ Renew(u) \/ Dial(u) \/ Send(u) \/ Read(u) \/ ReadError(u)
    \/ ReadOther(u) \/ ReadDiscarded(u) \/ ReadFails(u) \/ Release(u) \/ Push(u)

Next ==
    \/ \E u \in Everyone : ClientStep(u)
    \/ NextProbe \/ Destroy \/ Joined

(* Every thread runs: a socket call returns within its timeout, and the    *)
(* probe thread's wait within its interval.                                *)
Fairness ==
    /\ \A u \in Everyone : WF_vars(ClientStep(u))
    /\ WF_vars(NextProbe) /\ WF_vars(Destroy) /\ WF_vars(Joined)

Spec == Init /\ [][Next]_vars

FairSpec == Spec /\ Fairness

---------------------------------------------------------------------------
(* A connection is idle once, or with one thread.                          *)
OneBorrower ==
    /\ \A i, j \in 1 .. Len(idle) : idle[i] = idle[j] => i = j
    /\ Held \cap Range(idle) = {}
    /\ \A u, v \in Everyone : conn[u] = conn[v] /\ conn[u] # NoConn => u = v

(* The gauge pine_redis_pool_total_conns is made of in_use_ and the idle   *)
(* queue: in_use_ counts the threads between acquire and release, whether  *)
(* or not the server was reached, and the idle queue keeps to its cap.     *)
PoolAccounts ==
    /\ inUse = Cardinality({u \in Everyone :
                   mode[u] \in {"dial", "send", "read", "discard", "discarded", "release"}})
    /\ Len(idle) <= MaxIdle

(* As long as every exchange on a connection has succeeded, it is handed   *)
(* on with nothing to read and outside of a transaction, so that what a    *)
(* thread reads from it answers the thread's own command.                  *)
CleanHandOver ==
    /\ \A i \in 1 .. Len(idle) :
         idle[i] \notin soiled => wire[idle[i]] = <<>> /\ txn[idle[i]] = "none"
    /\ \A u \in Everyone : conn[u] # NoConn /\ conn[u] \notin soiled =>
         \A r \in answers[u] : r.to = u

(* What llmdoc/reference/operator-contract.md:259 asks of the client (a    *)
(* path that throws closes the connection) is for: an execution that is    *)
(* answered was given the answers to its own commands.                     *)
OwnAnswers ==
    \A u \in Users : outcome[u] = "answered" =>
        \A r \in answers[u] : r.to = u /\ (r.byte = "Q" => op[u] = "transaction")

(* The destructor returns: the probe thread, wherever it is, sees that it  *)
(* is to stop.                                                             *)
DestructorReturns == owner = "stopping" ~> owner = "gone"
===============================================================================
