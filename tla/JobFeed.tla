------------------------------ MODULE JobFeed -------------------------------
(* How work reaches the miners (internal/stratum/server.go): templateLoop    *)
(* follows the node by long polling and has a worker fetch a template for    *)
(* every authorized connection, the handler of mining.authorize fetches one  *)
(* for its own, refreshLoop and the handlers publish new jobs from the       *)
(* template a connection has.  All of them run concurrently, and each of     *)
(* their steps is one critical section (s.mu, c.state, c.write) or one call. *)
(*                                                                           *)
(* Modelled after activation (height 9,100, four-byte extranonces).  A       *)
(* template is its parent; a node that fails a call is down for that moment. *)
EXTENDS Integers, Sequences, FiniteSets, SequencesExt

CONSTANTS
    Client,            \* connections
    Difficulty,        \* share difficulties
    InitialDifficulty, \* difficulty of a connection that has no other yet
    ParentOf,          \* parent of each template version of the node
    MaxRememberedJobs, \* entries of the job map (8192)
    MaxEvents          \* bound on what happens: new templates and outages of the
                       \* node, rounds of refreshLoop, difficulty changes

MaxVersion == Len(ParentOf)
NoTemplate == 0
Thread == {"worker", "handler", "refresher"} \X Client
NoJob == [seq |-> 0, entry |-> 0, owner |-> CHOOSE c \in Client : TRUE, parent |-> 0,
          difficulty |-> InitialDifficulty]

Idle == [at |-> "idle", got |-> NoTemplate, job |-> NoJob]

ASSUME FeedAssumption ==
    /\ IsFiniteSet(Client) /\ Client # {}
    /\ Difficulty \subseteq Nat \ {0} /\ InitialDifficulty \in Difficulty
    /\ ParentOf \in Seq(Nat \ {0}) /\ ParentOf # <<>>
    /\ \A v \in DOMAIN ParentOf, w \in DOMAIN ParentOf : v <= w => ParentOf[v] <= ParentOf[w]
    /\ MaxRememberedJobs \in Nat \ {0}
    /\ MaxEvents \in Nat

VARIABLES
    version, up,                               \* the node
    parent, ready, known, clearing, lpc,       \* the server and templateLoop
    jobs, sequence, entered,                   \* the job map, in jobOrder
    connected, authorized, template, difficulty, lastDiff, lastJob, \* clients
    run,                                       \* threads: step, template, job
    todo, events,                              \* refreshLoop and the bound
    minerDiff, minerJob                        \* what each miner was last told

nodeVars == <<version, up>>
loopVars == <<parent, ready, known, clearing, lpc>>
jobVars == <<jobs, sequence, entered>>
clientVars == <<connected, authorized, template, difficulty, lastDiff, lastJob>>
minerVars == <<minerDiff, minerJob>>
vars == <<nodeVars, loopVars, jobVars, clientVars, run, todo, events, minerVars>>

Init ==
    /\ version = 1 /\ up = TRUE
    /\ parent = 0 /\ ready = FALSE /\ known = 0 /\ clearing = {} /\ lpc = "poll"
    /\ jobs = <<>> /\ sequence = 0 /\ entered = 0
    /\ connected = [c \in Client |-> TRUE]
    /\ authorized = [c \in Client |-> FALSE]
    /\ template = [c \in Client |-> NoTemplate]
    /\ difficulty = [c \in Client |-> InitialDifficulty]
    /\ lastDiff = [c \in Client |-> 0] /\ lastJob = [c \in Client |-> 0]
    /\ run = [t \in Thread |-> Idle]
    /\ todo = {} /\ events = 0
    /\ minerDiff = [c \in Client |-> 0] /\ minerJob = [c \in Client |-> NoJob]

At(t, step) == run[t].at = step
Goto(t, step) == run' = [run EXCEPT ![t].at = step]
Finish(t) == run' = [run EXCEPT ![t] = Idle]
Happens == events < MaxEvents /\ events' = events + 1
-----------------------------------------------------------------------------
(* The node.                                                                 *)

\* A block or a transaction: the long poll ends, perhaps with another parent.
NodeMoves ==
    /\ version < MaxVersion
    /\ version' = version + 1
    /\ Happens
    /\ UNCHANGED <<up, loopVars, jobVars, clientVars, run, todo, minerVars>>

\* Its peers are gone: it refuses templates.
NodeDown ==
    /\ up /\ up' = FALSE
    /\ Happens
    /\ UNCHANGED <<version, loopVars, jobVars, clientVars, run, todo, minerVars>>

NodeUp ==
    /\ ~up
    /\ up' = TRUE
    /\ UNCHANGED <<version, loopVars, jobVars, clientVars, run, todo, events, minerVars>>
-----------------------------------------------------------------------------
(* templateLoop.                                                             *)

\* Slip: only connections that already have work are given the new one.
LoopClientsServed == {c \in Client : connected[c] /\ template[c] # NoTemplate}

LoopClients == {c \in Client : connected[c] /\ authorized[c]}

\* The long poll answers, and a worker starts for every authorized client.
LoopTemplate ==
    /\ lpc = "poll"
    /\ up /\ known # version
    /\ known' = version
    /\ parent' = ParentOf[version]
    /\ ready' = TRUE
    /\ run' = [t \in Thread |-> IF t[1] = "worker" /\ t[2] \in LoopClients
                                THEN [Idle EXCEPT !.at = "ask"] ELSE run[t]]
    /\ lpc' = "assign"
    /\ UNCHANGED <<nodeVars, clearing, jobVars, clientVars, todo, events, minerVars>>

\* wg.Wait; the prune that follows is in Shares.
LoopAssigned ==
    /\ lpc = "assign"
    /\ \A c \in Client : At(<<"worker", c>>, "idle")
    /\ lpc' = "poll"
    /\ UNCHANGED <<nodeVars, parent, ready, known, clearing, jobVars, clientVars, run,
                   todo, events, minerVars>>

\* Slip: the second error in a row is not passed on.
LoopErrorOnce ==
    /\ lpc = "poll"
    /\ ~up
    /\ ready' = FALSE
    /\ known' = 0
    /\ clearing' = IF ready THEN {c \in Client : connected[c]} ELSE {}
    /\ lpc' = "clear"
    /\ UNCHANGED <<nodeVars, parent, jobVars, clientVars, run, todo, events, minerVars>>

\* setTemplateError: the list under s.mu, then the connections one by one.
LoopError ==
    /\ lpc = "poll"
    /\ ~up
    /\ ready' = FALSE
    /\ known' = 0
    /\ clearing' = {c \in Client : connected[c]}
    /\ lpc' = "clear"
    /\ UNCHANGED <<nodeVars, parent, jobVars, clientVars, run, todo, events, minerVars>>

ClearTemplate(c) ==
    /\ lpc = "clear" /\ c \in clearing
    /\ template' = [template EXCEPT ![c] = NoTemplate]
    /\ clearing' = clearing \ {c}
    /\ UNCHANGED <<nodeVars, parent, ready, known, lpc, jobVars, connected, authorized,
                   difficulty, lastDiff, lastJob, run, todo, events, minerVars>>

LoopCleared ==
    /\ lpc = "clear" /\ clearing = {}
    /\ lpc' = "poll"
    /\ UNCHANGED <<nodeVars, parent, ready, known, clearing, jobVars, clientVars, run,
                   todo, events, minerVars>>
-----------------------------------------------------------------------------
(* assignTemplate, in a worker or in the handler of mining.authorize.        *)

GetBlockTemplate(t) ==
    /\ At(t, "ask")
    /\ up
    /\ run' = [run EXCEPT ![t].at = "check", ![t].got = ParentOf[version]]
    /\ UNCHANGED <<nodeVars, loopVars, jobVars, clientVars, todo, events, minerVars>>

GetBlockTemplateFails(t) ==
    /\ At(t, "ask")
    /\ ~up
    /\ Finish(t)
    /\ UNCHANGED <<nodeVars, loopVars, jobVars, clientVars, todo, events, minerVars>>

\* Slip: the template is taken whatever its parent.
CheckAnyParent(t) ==
    /\ At(t, "check")
    /\ Goto(t, "set")
    /\ UNCHANGED <<nodeVars, loopVars, jobVars, clientVars, todo, events, minerVars>>

\* "QDAY tip changed while assigning work", under s.mu.
CheckParent(t) ==
    /\ At(t, "check")
    /\ IF run[t].got = parent THEN Goto(t, "set") ELSE Finish(t)
    /\ UNCHANGED <<nodeVars, loopVars, jobVars, clientVars, todo, events, minerVars>>

SetTemplate(t) ==
    /\ At(t, "set")
    /\ template' = [template EXCEPT ![t[2]] = run[t].got]
    /\ run' = [run EXCEPT ![t].at = "read", ![t].got = NoTemplate]
    /\ UNCHANGED <<nodeVars, loopVars, jobVars, connected, authorized, difficulty, lastDiff,
                   lastJob, todo, events, minerVars>>
-----------------------------------------------------------------------------
(* publishClient and sendJob.                                                *)

\* templateAndDifficulty: no template, no job.
ReadTemplate(t) ==
    LET c == t[2]
        next == [seq |-> 0, entry |-> 0, owner |-> c, parent |-> template[c],
                 difficulty |-> difficulty[c]]
    IN /\ At(t, "read")
       /\ IF template[c] = NoTemplate THEN Finish(t)
          ELSE run' = [run EXCEPT ![t].at = "number", ![t].job = next]
       /\ UNCHANGED <<nodeVars, loopVars, jobVars, clientVars, todo, events, minerVars>>

\* Slips: one job too many stays; a full map takes no new job.
RememberLate(j) ==
    LET all == Append(jobs, j)
    IN IF Len(all) > MaxRememberedJobs + 1 THEN Tail(all) ELSE all
RememberNone(j) == IF Len(jobs) >= MaxRememberedJobs THEN jobs ELSE Append(jobs, j)

\* The oldest jobs leave the map.
Remember(j) ==
    LET all == Append(jobs, j)
    IN IF Len(all) > MaxRememberedJobs THEN Tail(all) ELSE all

\* The number is taken without a lock.
Number(t) ==
    /\ At(t, "number")
    /\ sequence' = sequence + 1
    /\ run' = [run EXCEPT ![t].at = "register", ![t].job.seq = sequence + 1]
    /\ UNCHANGED <<nodeVars, loopVars, jobs, entered, clientVars, todo, events, minerVars>>

\* The entry in the map, under s.mu: a job of a later number may be there
\* already, and sent.  The history variable entered counts the entries.
Register(t) ==
    LET next == [run[t].job EXCEPT !.entry = entered + 1]
    IN /\ At(t, "register")
       /\ entered' = entered + 1
       /\ jobs' = Remember(next)
       /\ run' = [run EXCEPT ![t].at = "lock", ![t].job = next]
       /\ UNCHANGED <<nodeVars, loopVars, sequence, clientVars, todo, events, minerVars>>

\* sendJob under c.state: an older job than the last is dropped.
BeginSend(t) ==
    LET c == t[2]
        j == run[t].job
    IN /\ At(t, "lock")
       /\ IF j.seq <= lastJob[c]
          THEN Finish(t) /\ UNCHANGED <<lastJob, lastDiff>>
          ELSE /\ lastJob' = [lastJob EXCEPT ![c] = j.seq]
               /\ lastDiff' = [lastDiff EXCEPT ![c] = j.difficulty]
               /\ Goto(t, IF lastDiff[c] # j.difficulty THEN "difficulty" ELSE "notify")
       /\ UNCHANGED <<nodeVars, loopVars, jobVars, connected, authorized, template, difficulty,
                      todo, events, minerVars>>

\* mining.set_difficulty, under c.write.
SendDifficulty(t) ==
    /\ At(t, "difficulty") /\ connected[t[2]]
    /\ minerDiff' = [minerDiff EXCEPT ![t[2]] = run[t].job.difficulty]
    /\ Goto(t, "notify")
    /\ UNCHANGED <<nodeVars, loopVars, jobVars, clientVars, todo, events, minerJob>>

\* mining.notify, under c.write.
SendJob(t) ==
    /\ At(t, "notify") /\ connected[t[2]]
    /\ minerJob' = [minerJob EXCEPT ![t[2]] = run[t].job]
    /\ Finish(t)
    /\ UNCHANGED <<nodeVars, loopVars, jobVars, clientVars, todo, events, minerDiff>>

\* The connection is closed.
SendFails(t) ==
    /\ At(t, "difficulty") \/ At(t, "notify")
    /\ ~connected[t[2]]
    /\ Finish(t)
    /\ UNCHANGED <<nodeVars, loopVars, jobVars, clientVars, todo, events, minerVars>>
-----------------------------------------------------------------------------
(* The handlers of a connection, one request at a time.                      *)

Authorize(c, d) ==
    /\ connected[c] /\ ~authorized[c]
    /\ At(<<"handler", c>>, "idle")
    /\ template' = [template EXCEPT ![c] = NoTemplate]
    /\ difficulty' = [difficulty EXCEPT ![c] = d]
    /\ authorized' = [authorized EXCEPT ![c] = TRUE]
    /\ Goto(<<"handler", c>>, "ask")
    /\ UNCHANGED <<nodeVars, loopVars, jobVars, connected, lastDiff, lastJob,
                   todo, events, minerVars>>

\* mining.suggest_difficulty, or the retarget of a share just accepted.
Retarget(c, d) ==
    /\ connected[c] /\ authorized[c]
    /\ At(<<"handler", c>>, "idle")
    /\ Happens
    /\ difficulty' = [difficulty EXCEPT ![c] = d]
    /\ Goto(<<"handler", c>>, "read")
    /\ UNCHANGED <<nodeVars, loopVars, jobVars, connected, authorized, template, lastDiff,
                   lastJob, todo, minerVars>>

\* acceptedAt at the start of a VarDiff window: the difficulty of the share,
\* if it is the one last announced, becomes the connection's again.
AcceptShare(c) ==
    /\ connected[c] /\ authorized[c]
    /\ At(<<"handler", c>>, "idle")
    /\ \E j \in ToSet(jobs) :
          /\ j.owner = c /\ j.parent = parent /\ j.difficulty = lastDiff[c]
          /\ difficulty' = [difficulty EXCEPT ![c] = j.difficulty]
    /\ UNCHANGED <<nodeVars, loopVars, jobVars, connected, authorized, template, lastDiff,
                   lastJob, run, todo, events, minerVars>>

\* The scanner ends, or a write failed.
Disconnect(c) ==
    /\ connected[c]
    /\ connected' = [connected EXCEPT ![c] = FALSE]
    /\ minerDiff' = [minerDiff EXCEPT ![c] = 0]
    /\ minerJob' = [minerJob EXCEPT ![c] = NoJob]
    /\ UNCHANGED <<nodeVars, loopVars, jobVars, authorized, template, difficulty, lastDiff,
                   lastJob, run, todo, events>>
-----------------------------------------------------------------------------
(* refreshLoop.                                                              *)

Refreshing == \E c \in Client : ~At(<<"refresher", c>>, "idle")

Tick ==
    /\ todo = {} /\ ~Refreshing
    /\ LoopClients # {}
    /\ Happens
    /\ todo' = LoopClients
    /\ UNCHANGED <<nodeVars, loopVars, jobVars, clientVars, run, minerVars>>

\* lowerIdleDifficulty and publishClient, one client after the other.
RefreshClient(c) ==
    /\ c \in todo /\ ~Refreshing
    /\ todo' = todo \ {c}
    /\ \E d \in Difficulty :
          d <= difficulty[c] /\ difficulty' = [difficulty EXCEPT ![c] = d]
    /\ Goto(<<"refresher", c>>, "read")
    /\ UNCHANGED <<nodeVars, loopVars, jobVars, connected, authorized, template, lastDiff,
                   lastJob, events, minerVars>>

Loop == LoopTemplate \/ LoopAssigned \/ LoopError \/ LoopCleared
            \/ \E c \in Client : ClearTemplate(c)
ThreadStep(t) ==
    \/ GetBlockTemplate(t) \/ GetBlockTemplateFails(t) \/ CheckParent(t) \/ SetTemplate(t)
    \/ ReadTemplate(t) \/ Number(t) \/ Register(t) \/ BeginSend(t)
    \/ SendDifficulty(t) \/ SendJob(t) \/ SendFails(t)
Next ==
    \/ NodeMoves \/ NodeDown \/ NodeUp
    \/ Loop
    \/ \E t \in Thread : ThreadStep(t)
    \/ \E c \in Client :
          \/ \E d \in Difficulty : Authorize(c, d) \/ Retarget(c, d)
          \/ AcceptShare(c) \/ Disconnect(c)
          \/ RefreshClient(c)
    \/ Tick

Spec == Init /\ [][Next]_vars

\* Goroutines run and calls to the node end.  Nothing obliges the node to
\* move or to come back, nor a miner to do anything.
Fairness ==
    /\ WF_vars(Loop)
    /\ \A t \in Thread : WF_vars(ThreadStep(t))
    /\ \A c \in Client : WF_vars(RefreshClient(c))

FairSpec == Spec /\ Fairness
-----------------------------------------------------------------------------
Job == [seq : Nat, entry : Nat, owner : Client, parent : Nat, difficulty : Difficulty]

Step == {"idle", "ask", "check", "set", "read", "number", "register", "lock", "difficulty",
         "notify"}
Progress == [at : Step, got : Nat, job : Job]

TypeOK ==
    /\ version \in 1..MaxVersion /\ up \in BOOLEAN
    /\ parent \in Nat /\ ready \in BOOLEAN /\ known \in 0..MaxVersion
    /\ clearing \subseteq Client /\ lpc \in {"poll", "assign", "clear"}
    /\ jobs \in Seq(Job) /\ Len(jobs) <= MaxRememberedJobs
    /\ sequence \in Nat /\ entered \in Nat
    /\ connected \in [Client -> BOOLEAN] /\ authorized \in [Client -> BOOLEAN]
    /\ template \in [Client -> Nat] /\ lastDiff \in [Client -> Nat]
    /\ lastJob \in [Client -> Nat] /\ minerDiff \in [Client -> Nat]
    /\ difficulty \in [Client -> Difficulty]
    /\ run \in [Thread -> Progress]
    /\ todo \subseteq Client /\ events \in 0..MaxEvents
    /\ minerJob \in [Client -> Job]

\* Job j has been entered in the job map s, one of n entries so far, and has
\* been forgotten only if as many jobs as the map holds were entered after it.
KnownIn(s, n, j) == j \in ToSet(s) \/ n >= j.entry + MaxRememberedJobs

\* A job a miner was told of is in the job map, unless as many jobs as the map
\* holds were entered after it (server.go:418-425 before :426): the miner's
\* share is never refused as unknown because it came too soon, nor because of
\* a job that has a later number and was entered, or told, earlier.
SentJobsAreKnown ==
    \A c \in Client : minerJob[c] # NoJob => KnownIn(jobs, entered, minerJob[c])

\* No connection works on a parent the pool has not adopted itself, however
\* far the node is ahead of templateLoop: its shares would all be refused.
NeverAheadOfPool ==
    /\ \A c \in Client : template[c] <= parent /\ minerJob[c].parent <= parent
    /\ \A i \in DOMAIN jobs : jobs[i].parent <= parent

\* Unless the node fails, a miner that authorizes is sent a job, whether the
\* tip moves before, during or after its own assignment (server.go:363-380
\* against :287-312).
AuthorizedGetsWork ==
    []up => \A c \in Client : authorized[c] ~> (minerJob[c] # NoJob \/ ~connected[c])

\* "During a peer outage the QDAY node refuses new templates, so the pool
\* stops issuing work" (docs/operations.md:68): an assignment in flight can
\* restore a template that was cleared, the next error clears it again.
Issuing(c) ==
    \/ template[c] # NoTemplate
    \/ \E t \in Thread :
          t[2] = c /\ run[t].at \in {"number", "register", "lock", "difficulty", "notify"}
OutageStopsWork ==
    <>[]~up => <>[](\A c \in Client : connected[c] => ~Issuing(c))

\* "QDAY tip changed while assigning work" (server.go:377): work on another
\* parent than the pool's is not assigned, so that a connection ends up with
\* work on the parent of the pool.
WorkIsCurrent ==
    \A c \in Client : authorized[c] ~> (template[c] = parent \/ ~connected[c])

\* "Before each job the pool sends mining.set_difficulty" (docs/protocol.md:27):
\* at rest, a miner knows the difficulty its job is judged by.
DifficultyIsKnown ==
    \A c \in Client :
        (minerJob[c] # NoJob /\ \A t \in Thread : t[2] = c => At(t, "idle"))
            => minerDiff[c] = minerJob[c].difficulty
=============================================================================
