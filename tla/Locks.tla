------------------------------- MODULE Locks -------------------------------
(* Who waits for whom in the pool process: its goroutines, the locks of      *)
(* stratum.Server, its clients, store.Store and pool.Controller, and the one *)
(* database connection (SetMaxOpenConns(1), store.go:176).                   *)
(*                                                                           *)
(* An operation is the sequence of the locks it takes.  Most are released    *)
(* before anything else is taken (Pass, once for several in a row); the      *)
(* others (Hold) are what matters:                                           *)
(* a lock is held over a database call, over the removal of a client, and    *)
(* over a write to a miner that may not read.                                *)
EXTENDS Integers, FiniteSets, SequencesExt

CONSTANTS
    Conn,       \* connections
    MaxActive   \* bound on the goroutines in an operation at once

Goroutine ==
    ({"handler", "worker"} \X Conn) \cup ({"templates", "refresh", "controller", "web"} \X {0})
Role(g) == g[1]
Own(g) == g[2]

\* A lock is named by its field and its connection, 0 for those of the process.
Server == <<"mu", 0>>
Store == <<"store.mu", 0>>
Database == <<"db", 0>>
Semaphore == <<"sem", 0>>    \* templateWorkers of them in the source, here one
Controller == <<"controller.mu", 0>>
Lock == ({"state", "write", "once", "submitMu"} \X Conn)
            \cup {Server, Store, Database, Controller, Semaphore}

VARIABLES
    todo,     \* what is left of the operation of a goroutine
    owner,    \* who holds a lock over several steps, Free if nobody does
    stalled,  \* miners that have stopped reading
    closed    \* connections that are closed

vars == <<todo, owner, stalled, closed>>

Free == <<"nobody", 0>>

Init ==
    /\ todo = [g \in Goroutine |-> <<>>]
    /\ owner = [l \in Lock |-> Free]
    /\ stalled = {} /\ closed = {}
-----------------------------------------------------------------------------
(* The operations.                                                           *)

Item(act, lock) == [act |-> act, lock |-> lock]
Pass(lock) == <<Item("pass", lock)>>
Hold(lock, body) == <<Item("lock", lock)>> \o body \o <<Item("unlock", lock)>>
State(c) == Pass(<<"state", c>>)

\* send, under c.write.
Send(c) == Hold(<<"write", c>>, <<Item("write", <<"write", c>>)>>)
\* close: the body of c.once takes s.mu in remove.
Close(c) == Hold(<<"once", c>>, <<Item("close", <<"once", c>>)>> \o Pass(Server))

\* publishClient: template and difficulty, newJob (identity and time), the job
\* map, sendJob, with or without a new difficulty.
Publish(c, messages) ==
    State(c) \o Pass(Server) \o State(c)
        \o (IF messages = 2 THEN Send(c) ELSE <<>>) \o Send(c)
AssignTemplate(c) == Pass(Server) \o Publish(c, 2)

(* Store methods, of which a failed one takes the same locks or fewer: a     *)
(* cursor is closed before the next statement, a transaction holds the       *)
(* connection to its end and is rolled back by defer.                        *)
AllocateBlock == Hold(Store, Pass(Database))
PreparePayouts == Hold(Store, Pass(Database))
PruneShares == Hold(Store, Pass(Database) \o Pass(Database))
\* Slip: the items of a payout are read while the cursor is open.
ActivePayoutsNested == Hold(Database, Pass(Database))

\* "Load child rows only after closing the payout cursor".
ActivePayouts == Pass(Database) \o Pass(Database)
SetBlockState == Pass(Database) \o Pass(Database)
RoundWork == Pass(Database) \o Pass(Database)

\* client.handle and client.submit, by the point at which they answer.
Submit(c) ==
    LET looked == Pass(Server)
        noted == looked \o Pass(<<"submitMu", c>>)
        recorded == noted \o Pass(Database)
        credited == recorded \o State(c)
    IN {looked \o Send(c), noted \o Send(c), recorded \o Send(c), credited \o Send(c),
        credited \o Send(c) \o Publish(c, 2), credited \o AllocateBlock \o Send(c)}
Handle(c) ==
    {Pass(Server) \o Send(c),                          \* subscribe
     State(c) \o Send(c) \o AssignTemplate(c),         \* authorize
     State(c) \o Send(c) \o Publish(c, 2),             \* suggest_difficulty
     Send(c), Close(c)} \cup Submit(c)

\* The loops over connections, refreshLoop and those of templateLoop, take the
\* list under the lock of the server and hold nothing from one connection to the
\* next: its turn is an operation of its own, in any order.

\* templateLoop: an error clears the template of every connection, a height
\* before activation closes it, and a new template starts one worker for each
\* and waits for all of them.  A new parent prunes, whatever went before.
TemplateLoop ==
    {Pass(Server) \o <<Item("spawn", Server), Item("join", Server)>> \o PruneShares,
     Pass(Server) \o PruneShares}
    \cup {Pass(Server) \o State(c) : c \in Conn}
    \cup {Pass(Server) \o Close(c) : c \in Conn}

\* refreshLoop: lowerIdleDifficulty (under c.state) and publishClient.
RefreshLoop ==
    {Pass(Server) \o State(c) \o Publish(c, messages) : c \in Conn, messages \in {1, 2}}

\* syncBlocks and processPayouts, for one block or payout.
ControllerPass ==
    {Pass(Controller) \o Pass(Database) \o SetBlockState,
     Pass(Controller) \o ActivePayouts \o PreparePayouts
         \o Pass(Database) \o Pass(Controller)}

\* The handlers of the dashboard: readyz, status, blocks and payouts, miners
\* and accounts.
Request ==
    {Pass(Server) \o Pass(Controller),
     Pass(Server) \o Pass(Controller) \o Pass(Database) \o RoundWork
         \o Pass(Database),
     Pass(Database) \o Pass(Controller)}

Operations(g) ==
    CASE Role(g) = "handler" -> IF Own(g) \in closed THEN {} ELSE Handle(Own(g))
      [] Role(g) = "templates" -> TemplateLoop
      [] Role(g) = "refresh" -> RefreshLoop
      [] Role(g) = "controller" -> ControllerPass
      [] Role(g) = "web" -> Request
      [] OTHER -> {}
-----------------------------------------------------------------------------
(* Running them.                                                             *)

Idle(g) == todo[g] = <<>>
At(g, act) == ~Idle(g) /\ Head(todo[g]).act = act
Wanted(g) == Head(todo[g]).lock
Done(g) == todo' = [todo EXCEPT ![g] = Tail(@)]

Start(g) ==
    /\ Idle(g)
    /\ Cardinality({h \in Goroutine : ~Idle(h)}) < MaxActive
    /\ \E op \in Operations(g) : todo' = [todo EXCEPT ![g] = op]
    /\ UNCHANGED <<owner, stalled, closed>>

PassThrough(g) ==
    /\ At(g, "pass") /\ owner[Wanted(g)] = Free
    /\ Done(g)
    /\ UNCHANGED <<owner, stalled, closed>>

\* once.Do again, after the first one has returned.
CloseAgain(g) ==
    /\ At(g, "lock") /\ Wanted(g)[1] = "once" /\ Wanted(g)[2] \in closed
    /\ owner[Wanted(g)] = Free
    /\ todo' = [todo EXCEPT ![g] = SubSeq(@, Len(Close(Wanted(g)[2])) + 1, Len(@))]
    /\ UNCHANGED <<owner, stalled, closed>>

Take(g) ==
    /\ At(g, "lock") /\ owner[Wanted(g)] = Free
    /\ ~(Wanted(g)[1] = "once" /\ Wanted(g)[2] \in closed)
    /\ owner' = [owner EXCEPT ![Wanted(g)] = g]
    /\ Done(g)
    /\ UNCHANGED <<stalled, closed>>

Release(g) ==
    /\ At(g, "unlock")
    /\ owner' = [owner EXCEPT ![Wanted(g)] = Free]
    /\ Done(g)
    /\ UNCHANGED <<stalled, closed>>

\* The message goes out.
Written(g) ==
    /\ At(g, "write")
    /\ Wanted(g)[2] \notin stalled \cup closed
    /\ Done(g)
    /\ UNCHANGED <<owner, stalled, closed>>

\* The peer is gone, or minerWriteTimeout is over.
TimedOut(g) == Wanted(g)[2] \in stalled \cup closed

\* The write fails: c.write is released and the connection closed; the second
\* message of a job is not sent.
WriteFails(g) ==
    /\ At(g, "write") /\ TimedOut(g)
    /\ LET c == Wanted(g)[2]
           rest == SubSeq(todo[g], 3, Len(todo[g]))
           second == IsPrefix(Send(c), rest)
       IN todo' = [todo EXCEPT ![g] =
              <<todo[g][2]>> \o Close(c)
                  \o (IF second THEN SubSeq(rest, Len(Send(c)) + 1, Len(rest)) ELSE rest)]
    /\ UNCHANGED <<owner, stalled, closed>>

CloseConn(g) ==
    /\ At(g, "close")
    /\ closed' = closed \cup {Wanted(g)[2]}
    /\ Done(g)
    /\ UNCHANGED <<owner, stalled>>

\* The workers of assignTemplates.
Spawn(g) ==
    /\ At(g, "spawn")
    /\ todo' = [h \in Goroutine |->
                   IF h = g THEN Tail(todo[g])
                   ELSE IF Role(h) = "worker"
                        THEN Hold(Semaphore, AssignTemplate(Own(h))) ELSE todo[h]]
    /\ UNCHANGED <<owner, stalled, closed>>

\* wg.Wait.
Join(g) ==
    /\ At(g, "join")
    /\ \A h \in Goroutine : Role(h) = "worker" => Idle(h)
    /\ Done(g)
    /\ UNCHANGED <<owner, stalled, closed>>

\* A miner stops reading.
Stall(c) ==
    /\ c \notin stalled \cup closed
    /\ stalled' = stalled \cup {c}
    /\ UNCHANGED <<todo, owner, closed>>

\* Accept: the name of a closed connection is used again once nobody works for
\* the old one.
Reconnect(c) ==
    /\ c \in closed /\ owner[Server] = Free
    /\ \A g \in Goroutine : \A i \in DOMAIN todo[g] : todo[g][i].lock[2] # c
    /\ closed' = closed \ {c} /\ stalled' = stalled \ {c}
    /\ UNCHANGED <<todo, owner>>

Step(g) ==
    \/ PassThrough(g) \/ Take(g) \/ Release(g) \/ CloseAgain(g)
    \/ Written(g) \/ WriteFails(g) \/ CloseConn(g)
    \/ Spawn(g) \/ Join(g)

Next ==
    \/ \E g \in Goroutine : Start(g) \/ Step(g)
    \/ \E c \in Conn : Stall(c) \/ Reconnect(c)

Spec == Init /\ [][Next]_vars
-----------------------------------------------------------------------------
\* Whom a goroutine waits for: the holder of the lock it wants, the workers it
\* started, or nobody but itself, if neither the miner nor a deadline ends its
\* write.
Waits(g) ==
    IF (At(g, "pass") \/ At(g, "lock")) /\ owner[Wanted(g)] # Free THEN {owner[Wanted(g)]}
    ELSE IF At(g, "join") THEN {h \in Goroutine : Role(h) = "worker" /\ ~Idle(h)}
    ELSE IF At(g, "write") /\ Wanted(g)[2] \in stalled /\ ~TimedOut(g) THEN {g}
    ELSE {}

\* Every operation comes to its end: locks are held by goroutines in an
\* operation only, and of any goroutines that wait at least one waits for none
\* of the others.  None waits for itself on the one database connection, and a
\* miner that stops reading delays those who write to it, and those who wait
\* for them, no longer than its deadline (store.go:629-630, server.go:738-744).
WaitsEnd ==
    /\ \A l \in Lock : owner[l] # Free => ~Idle(owner[l])
    /\ \A S \in SUBSET {g \in Goroutine : Waits(g) # {}} :
          S # {} => \E g \in S : Waits(g) \cap S = {}
=============================================================================
