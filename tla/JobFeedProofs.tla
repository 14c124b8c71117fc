--------------------------- MODULE JobFeedProofs ----------------------------
(* Proofs about JobFeed, for any number of connections and difficulties, any *)
(* sequence of templates and any size of the job map.                        *)
EXTENDS JobFeed, SequenceTheorems, TLAPS

\* The map holds the last jobs entered, in the order of their entry, whatever
\* their numbers.
MapOK == \A i \in DOMAIN jobs : jobs[i].entry = entered - Len(jobs) + i

\* A job that a thread is about to send has been entered in the map.
HandOK ==
    \A t \in Thread :
        run[t].at \in {"lock", "difficulty", "notify"} => KnownIn(jobs, entered, run[t].job)

\* The node is never behind the pool, and what a thread has accepted or read
\* is not ahead of it.
ParentOK ==
    /\ parent <= ParentOf[version]
    /\ \A t \in Thread :
          /\ run[t].at = "set" => run[t].got <= parent
          /\ run[t].job.parent <= parent

\* The inductive invariant of JobFeed.
IInv == TypeOK /\ MapOK /\ HandOK /\ SentJobsAreKnown /\ ParentOK /\ NeverAheadOfPool
-----------------------------------------------------------------------------
\* The job of nobody is a job.
LEMMA NoJobType == NoJob \in Job /\ NoJob.parent = 0
  <1>1. (CHOOSE c \in Client : TRUE) \in Client
    BY FeedAssumption
  <1> QED
    BY <1>1, FeedAssumption DEF NoJob, Job

\* A thread has a connection.
LEMMA ThreadType == \A t \in Thread : t[2] \in Client
  BY DEF Thread

\* Entering the next job keeps the map bounded and in the order of entry, and
\* drops no job but the one entered first.
LEMMA RememberKeeps ==
    ASSUME TypeOK, MapOK, NEW j \in Job, j.entry = entered + 1
    PROVE  /\ Remember(j) \in Seq(Job)
           /\ Len(Remember(j)) <= MaxRememberedJobs
           /\ ToSet(Remember(j)) \subseteq ToSet(jobs) \cup {j}
           /\ KnownIn(Remember(j), entered + 1, j)
           /\ \A i \in DOMAIN Remember(j) :
                 Remember(j)[i].entry = (entered + 1) - Len(Remember(j)) + i
           /\ \A k \in Job :
                 KnownIn(jobs, entered, k) => KnownIn(Remember(j), entered + 1, k)
  <1> DEFINE all == Append(jobs, j)
             n == Len(jobs)
  <1>1. /\ jobs \in Seq(Job) /\ n \in Nat /\ n <= MaxRememberedJobs
        /\ entered \in Nat /\ MaxRememberedJobs \in Nat \ {0}
        /\ DOMAIN jobs = 1..n
        /\ \A i \in 1..n : jobs[i].entry = entered - n + i
    <2>1. jobs \in Seq(Job) /\ Len(jobs) <= MaxRememberedJobs /\ entered \in Nat
      BY DEF TypeOK
    <2>2. Len(jobs) \in Nat /\ DOMAIN jobs = 1..Len(jobs)
      BY <2>1
    <2>3. \A i \in 1..n : jobs[i].entry = entered - n + i
      BY <2>2, Zenon DEF MapOK
    <2> QED
      BY <2>1, <2>2, <2>3, FeedAssumption
  <1>2. /\ all \in Seq(Job) /\ Len(all) = n + 1 /\ DOMAIN all = 1..(n + 1)
        /\ \A i \in 1..n : all[i] = jobs[i]
        /\ all[n + 1] = j
    BY <1>1, AppendProperties
  <1>3. Remember(j) = IF Len(all) > MaxRememberedJobs THEN Tail(all) ELSE all
    BY DEF Remember
  <1>4. \A k \in Job : k.entry \in Nat
    BY DEF Job
  <1> HIDE DEF all, n
  <1>5. \A i \in 1..(n + 1) : all[i].entry = entered - n + i
    <2> SUFFICES ASSUME NEW i \in 1..(n + 1) PROVE all[i].entry = entered - n + i
      OBVIOUS
    <2>1. CASE i = n + 1
      BY <2>1, <1>1, <1>2
    <2>2. CASE i # n + 1
      <3>1. i \in 1..n
        BY <2>2, <1>1
      <3> QED
        BY <3>1, <1>1, <1>2
    <2> QED
      BY <2>1, <2>2
  <1>6. CASE n + 1 <= MaxRememberedJobs
    <2>1. Remember(j) = all
      BY <1>6, <1>1, <1>2, <1>3
    <2>2. ToSet(all) = ToSet(jobs) \cup {j}
      BY <1>1, <1>2 DEF ToSet
    <2>3. \A k \in Job : KnownIn(jobs, entered, k) => KnownIn(all, entered + 1, k)
      BY <2>2, <1>1, <1>4 DEF KnownIn
    <2>4. KnownIn(all, entered + 1, j)
      BY <2>2 DEF KnownIn
    <2>5. \A i \in DOMAIN all : all[i].entry = (entered + 1) - Len(all) + i
      BY <1>1, <1>2, <1>5
    <2> QED
      BY <1>2, <1>6, <2>1, <2>2, <2>3, <2>4, <2>5
  <1>7. CASE n = MaxRememberedJobs
    <2> DEFINE new == Tail(all)
    <2>1. Remember(j) = new
      BY <1>7, <1>1, <1>2, <1>3
    <2>2. /\ new \in Seq(Job) /\ Len(new) = n /\ DOMAIN new = 1..n
          /\ \A i \in 1..n : new[i] = all[i + 1]
      BY <1>1, <1>2, HeadTailProperties
    <2> HIDE DEF new
    <2>3. \A i \in 1..n : i + 1 \in 1..(n + 1)
      BY <1>1
    <2>4. \A i \in DOMAIN new : new[i].entry = (entered + 1) - Len(new) + i
      <3> SUFFICES ASSUME NEW i \in 1..n PROVE new[i].entry = (entered + 1) - n + i
        BY <2>2
      <3>1. new[i].entry = entered - n + (i + 1)
        BY <2>2, <2>3, <1>5
      <3> QED
        BY <3>1, <1>1
    <2>5. new[n] = j /\ n \in 1..n
      BY <1>1, <1>2, <1>7, <2>2
    <2>6. ToSet(new) \subseteq ToSet(jobs) \cup {j}
      <3> SUFFICES ASSUME NEW i \in 1..n PROVE new[i] \in ToSet(jobs) \cup {j}
        BY <2>2 DEF ToSet
      <3>1. CASE i = n
        BY <3>1, <2>5
      <3>2. CASE i # n
        <4>1. i + 1 \in 1..n /\ new[i] = jobs[i + 1]
          BY <3>2, <2>2, <1>1, <1>2
        <4> QED
          BY <4>1, <1>1 DEF ToSet
      <3> QED
        BY <3>1, <3>2
    <2>7. \A k \in Job : KnownIn(jobs, entered, k) => KnownIn(new, entered + 1, k)
      <3> SUFFICES ASSUME NEW k \in Job, KnownIn(jobs, entered, k)
                   PROVE  KnownIn(new, entered + 1, k)
        OBVIOUS
      <3>1. ASSUME NEW i \in 1..n, k = jobs[i] PROVE KnownIn(new, entered + 1, k)
        <4>1. CASE i = 1
          <5>1. entered + 1 >= k.entry + MaxRememberedJobs
            BY <3>1, <4>1, <1>1, <1>7
          <5> QED
            BY <5>1 DEF KnownIn
        <4>2. CASE i # 1
          <5>1. i - 1 \in 1..n /\ new[i - 1] = k
            BY <3>1, <4>2, <2>2, <1>1, <1>2
          <5> QED
            BY <5>1, <2>2 DEF KnownIn, ToSet
        <4> QED
          BY <4>1, <4>2
      <3>2. CASE entered >= k.entry + MaxRememberedJobs
        <4>1. entered + 1 >= k.entry + MaxRememberedJobs
          BY <3>2, <1>1, <1>4
        <4> QED
          BY <4>1 DEF KnownIn
      <3> QED
        BY <3>1, <3>2, <1>1 DEF KnownIn, ToSet
    <2>8. KnownIn(new, entered + 1, j)
      BY <2>5, <2>2 DEF KnownIn, ToSet
    <2> QED
      BY <2>1, <2>2, <2>4, <2>6, <2>7, <2>8, <1>7
  <1> QED
    BY <1>1, <1>6, <1>7
-----------------------------------------------------------------------------
\* The fields of a job and of a thread.
LEMMA JobFields == \A j \in Job : j.seq \in Nat /\ j.parent \in Nat
  BY DEF Job

LEMMA ProgressFields ==
    \A r \in Progress : /\ r.at \in Step /\ r.got \in Nat /\ r.job \in Job
                        /\ r.job.parent \in Nat
  BY DEF Progress, Job

LEMMA Numbered ==
    ASSUME NEW j \in Job, NEW n \in Nat
    PROVE  LET k == [j EXCEPT !.seq = n]
           IN k \in Job /\ k.parent = j.parent
  BY DEF Job

LEMMA Entered ==
    ASSUME NEW j \in Job, NEW n \in Nat
    PROVE  LET k == [j EXCEPT !.entry = n]
           IN k \in Job /\ k.entry = n /\ k.parent = j.parent
  BY DEF Job

\* A thread that goes on keeps its template and its job.
LEMMA GoesOn ==
    ASSUME NEW r \in Progress, NEW s \in Step
    PROVE  LET q == [r EXCEPT !.at = s]
           IN q \in Progress /\ q.at = s /\ q.got = r.got /\ q.job = r.job
  BY DEF Progress

LEMMA IdleType ==
    /\ Idle \in Progress /\ Idle.at = "idle" /\ Idle.job.parent = 0
  BY NoJobType DEF Idle, Progress, Step, NoTemplate

\* One thread moves while the map and the parents stay.
LEMMA RunFrame ==
    ASSUME IInv, NEW t \in Thread, NEW r \in Progress,
           run' = [run EXCEPT ![t] = r],
           UNCHANGED <<jobs, entered, parent, version>>,
           r.at \in {"lock", "difficulty", "notify"} => KnownIn(jobs, entered, r.job),
           r.at = "set" => r.got <= parent,
           r.job.parent <= parent
    PROVE  /\ run' \in [Thread -> Progress]
           /\ MapOK' /\ HandOK' /\ ParentOK'
  <1>1. /\ run \in [Thread -> Progress]
        /\ \A u \in Thread : run'[u] = IF u = t THEN r ELSE run[u]
    BY DEF IInv, TypeOK
  <1>2. run' \in [Thread -> Progress]
    BY <1>1
  <1>3. HandOK'
    BY <1>1 DEF IInv, HandOK, KnownIn
  <1>4. ParentOK'
    BY <1>1 DEF IInv, ParentOK
  <1> QED
    BY <1>2, <1>3, <1>4 DEF IInv, MapOK

\* The node has a template.
LEMMA VersionType == MaxVersion \in Nat \ {0}
  BY FeedAssumption DEF MaxVersion

\* The templates of the node, and their parents, are numbers.
LEMMA TipType == ASSUME TypeOK
                 PROVE  /\ version \in DOMAIN ParentOf /\ DOMAIN ParentOf = 1..MaxVersion
                        /\ \A v \in DOMAIN ParentOf : ParentOf[v] \in Nat
  <1>1. /\ DOMAIN ParentOf = 1..MaxVersion
        /\ \A v \in DOMAIN ParentOf : ParentOf[v] \in Nat \ {0}
    BY FeedAssumption DEF MaxVersion
  <1> QED
    BY <1>1 DEF TypeOK

\* The initial state.
LEMMA InitIInv == Init => IInv
  <1> SUFFICES ASSUME Init PROVE IInv
    OBVIOUS
  <1> USE FeedAssumption, NoJobType, ThreadType DEF Init
  <1>1. 1 \in 1..MaxVersion /\ ParentOf[1] \in Nat
    BY DEF MaxVersion
  <1>2. TypeOK
    <2>1. run \in [Thread -> Progress]
      BY IdleType
    <2>2. jobs \in Seq(Job) /\ Len(jobs) <= MaxRememberedJobs
      OBVIOUS
    <2>4. /\ connected \in [Client -> BOOLEAN] /\ authorized \in [Client -> BOOLEAN]
          /\ template \in [Client -> Nat] /\ lastDiff \in [Client -> Nat]
          /\ lastJob \in [Client -> Nat] /\ minerDiff \in [Client -> Nat]
          /\ difficulty \in [Client -> Difficulty] /\ minerJob \in [Client -> Job]
      BY DEF NoTemplate
    <2>5. version \in 1..MaxVersion /\ 0 \in 0..MaxVersion
      BY <1>1, VersionType
    <2>6. 0 \in 0..MaxEvents
      OBVIOUS
    <2> QED
      BY <2>1, <2>2, <2>4, <2>5, <2>6 DEF TypeOK
  <1>3. MapOK
    BY DEF MapOK
  <1>4. HandOK
    BY DEF HandOK, Idle
  <1>5. SentJobsAreKnown
    BY DEF SentJobsAreKnown
  <1>6. ParentOK
    BY <1>1 DEF ParentOK, Idle
  <1>7. NeverAheadOfPool
    BY DEF NeverAheadOfPool, NoTemplate
  <1> QED
    BY <1>2, <1>3, <1>4, <1>5, <1>6, <1>7 DEF IInv

\* Where the map, the threads and the parents stay, only the templates and what
\* the miners were told matter.
LEMMA Frame ==
    ASSUME IInv, UNCHANGED <<jobs, entered, parent, version, run>>
    PROVE  MapOK' /\ HandOK' /\ ParentOK'
  BY DEF IInv, MapOK, HandOK, ParentOK, KnownIn

\* What is counted stays below its bound.
LEMMA EventsType == ASSUME TypeOK, Happens \/ UNCHANGED events
                    PROVE  events' \in 0..MaxEvents
  <1>1. MaxEvents \in Nat /\ events \in 0..MaxEvents
    BY FeedAssumption DEF TypeOK
  <1> QED
    BY <1>1 DEF Happens

\* Steps of the node and of templateLoop.
LEMMA LoopStep ==
    ASSUME IInv, NodeMoves \/ NodeDown \/ NodeUp \/ Loop
    PROVE  IInv'
  <1>0. TypeOK /\ MapOK /\ HandOK /\ SentJobsAreKnown /\ ParentOK /\ NeverAheadOfPool
    BY DEF IInv
  <1>1. CASE NodeMoves
    <2> USE <1>0, <1>1 DEF NodeMoves, loopVars, jobVars, clientVars, minerVars
    <2>0. events' \in 0..MaxEvents
      BY EventsType
    <2>1. TypeOK'
      BY <2>0 DEF TypeOK, MaxVersion
    <2>7. version \in 1..MaxVersion /\ version + 1 \in 1..MaxVersion
      BY VersionType DEF TypeOK
    <2>2. /\ version \in DOMAIN ParentOf /\ version + 1 \in DOMAIN ParentOf
          /\ ParentOf[version + 1] \in Nat /\ ParentOf[version] \in Nat /\ parent \in Nat
      BY <2>7, TipType DEF TypeOK
    <2>6. ParentOf[version] <= ParentOf[version + 1]
      BY <2>2, FeedAssumption
    <2>3. ParentOK'
      BY <2>2, <2>6 DEF ParentOK
    <2>4. MapOK' /\ HandOK'
      BY DEF MapOK, HandOK, KnownIn
    <2>5. SentJobsAreKnown' /\ NeverAheadOfPool'
      BY DEF SentJobsAreKnown, NeverAheadOfPool, KnownIn
    <2> QED
      BY <2>1, <2>3, <2>4, <2>5 DEF IInv
  <1>2. CASE NodeDown \/ NodeUp
    <2> USE <1>0, <1>2 DEF NodeDown, NodeUp, loopVars, jobVars, clientVars, minerVars
    <2>1. TypeOK'
      <3>1. events' \in 0..MaxEvents
        BY EventsType
      <3>2. up' \in BOOLEAN
        BY DEF TypeOK
      <3> QED
        BY <3>1, <3>2 DEF TypeOK
    <2>2. SentJobsAreKnown' /\ NeverAheadOfPool'
      BY DEF SentJobsAreKnown, NeverAheadOfPool, KnownIn
    <2> QED
      BY <2>1, <2>2, Frame DEF IInv
  <1>3. CASE LoopTemplate
    <2> DEFINE asked == [Idle EXCEPT !.at = "ask"]
    <2> USE <1>0, <1>3 DEF LoopTemplate, nodeVars, jobVars, clientVars, minerVars
    <2>1. parent <= parent' /\ parent' \in Nat /\ parent \in Nat /\ parent' = ParentOf[version]
      BY TipType DEF ParentOK, TypeOK
    <2>2. asked \in Progress /\ asked.at = "ask" /\ asked.job.parent = 0
      BY GoesOn, IdleType DEF Step
    <2>3. \A t \in Thread : run'[t] = run[t] \/ run'[t] = asked
      OBVIOUS
    <2>4. run' \in [Thread -> Progress]
      BY <2>2 DEF TypeOK
    <2> HIDE DEF asked
    <2>5. TypeOK'
      <3>1. known' \in 0..MaxVersion
        BY VersionType DEF TypeOK
      <3> QED
        BY <2>1, <2>4, <3>1 DEF TypeOK
    <2>6. HandOK'
      BY <2>2, <2>3 DEF HandOK, KnownIn
    <2>7. ParentOK'
      <3> SUFFICES ASSUME NEW t \in Thread
                   PROVE  /\ run'[t].at = "set" => run'[t].got <= parent'
                          /\ run'[t].job.parent <= parent'
        BY <2>1 DEF ParentOK
      <3>1. CASE run'[t] = run[t]
        <4>1. run[t].got \in Nat /\ run[t].job.parent \in Nat
          BY ProgressFields DEF TypeOK
        <4>2. (run[t].at = "set" => run[t].got <= parent) /\ run[t].job.parent <= parent
          BY DEF ParentOK
        <4>3. (run[t].at = "set" => run[t].got <= parent') /\ run[t].job.parent <= parent'
          <5> HIDE <1>3
          <5> QED
            BY <4>1, <4>2, <2>1
        <4> QED
          BY <3>1, <4>3
      <3>2. CASE run'[t] = asked
        <4>1. run'[t].at # "set" /\ run'[t].job.parent = 0
          BY <3>2, <2>2
        <4> HIDE <1>3
        <4> QED
          BY <4>1, <2>1
      <3> QED
        BY <2>3, <3>1, <3>2
    <2>8. NeverAheadOfPool'
      <3>1. /\ \A c \in Client : template[c] \in Nat /\ minerJob[c].parent \in Nat
            /\ \A i \in DOMAIN jobs : jobs[i].parent \in Nat
        BY JobFields DEF TypeOK
      <3>2. /\ \A c \in Client : template[c] <= parent' /\ minerJob[c].parent <= parent'
            /\ \A i \in DOMAIN jobs : jobs[i].parent <= parent'
        BY <3>1, <2>1 DEF NeverAheadOfPool
      <3> QED
        BY <3>2 DEF NeverAheadOfPool
    <2>9. MapOK' /\ SentJobsAreKnown'
      BY DEF MapOK, SentJobsAreKnown, KnownIn
    <2> QED
      BY <2>5, <2>6, <2>7, <2>8, <2>9 DEF IInv
  <1>4. CASE LoopAssigned \/ LoopError \/ LoopCleared
    <2> USE <1>0, <1>4 DEF LoopAssigned, LoopError, LoopCleared, nodeVars, jobVars, clientVars, minerVars
    <2>1. known' \in 0..MaxVersion /\ ready' \in BOOLEAN
      <3>1. known \in 0..MaxVersion /\ 0 \in 0..MaxVersion /\ ready \in BOOLEAN
        BY VersionType DEF TypeOK
      <3> QED
        BY <3>1
    <2>2. clearing' \subseteq Client /\ lpc' \in {"poll", "assign", "clear"}
      BY DEF TypeOK
    <2>3. TypeOK'
      BY <2>1, <2>2 DEF TypeOK
    <2>4. SentJobsAreKnown' /\ NeverAheadOfPool'
      BY DEF SentJobsAreKnown, NeverAheadOfPool, KnownIn
    <2> QED
      BY <2>3, <2>4, Frame DEF IInv
  <1>5. ASSUME NEW c \in Client, ClearTemplate(c) PROVE IInv'
    <2> USE <1>0, <1>5 DEF ClearTemplate, nodeVars, jobVars, minerVars
    <2>1. template' \in [Client -> Nat] /\ clearing' \subseteq Client
      BY DEF TypeOK, NoTemplate
    <2>2. TypeOK'
      BY <2>1 DEF TypeOK
    <2>3. NeverAheadOfPool'
      BY DEF NeverAheadOfPool, NoTemplate, TypeOK
    <2>4. SentJobsAreKnown'
      BY DEF SentJobsAreKnown, KnownIn
    <2> QED
      BY <2>2, <2>3, <2>4, Frame DEF IInv
  <1> QED
    BY <1>1, <1>2, <1>3, <1>4, <1>5 DEF Loop

\* A thread moves and nothing else does.
LEMMA RunOnly ==
    ASSUME IInv, NEW t \in Thread, NEW r \in Progress,
           run' = [run EXCEPT ![t] = r],
           UNCHANGED <<nodeVars, loopVars, jobVars, clientVars, todo, events, minerVars>>,
           r.at \in {"lock", "difficulty", "notify"} => KnownIn(jobs, entered, r.job),
           r.at = "set" => r.got <= parent,
           r.job.parent <= parent
    PROVE  IInv'
  <1> USE DEF nodeVars, loopVars, jobVars, clientVars, minerVars
  <1>1. run' \in [Thread -> Progress] /\ MapOK' /\ HandOK' /\ ParentOK'
    BY RunFrame
  <1>2. TypeOK'
    BY <1>1 DEF IInv, TypeOK
  <1>3. SentJobsAreKnown' /\ NeverAheadOfPool'
    BY DEF IInv, SentJobsAreKnown, NeverAheadOfPool, KnownIn
  <1> QED
    BY <1>1, <1>2, <1>3 DEF IInv

\* A thread is done.
LEMMA FinishRun ==
    ASSUME IInv
    PROVE  /\ Idle \in Progress /\ Idle.at \notin {"lock", "difficulty", "notify", "set"}
           /\ Idle.job.parent <= parent
  BY IdleType DEF IInv, TypeOK

\* The steps of assignTemplate.
LEMMA AssignStep ==
    ASSUME IInv, NEW t \in Thread,
           GetBlockTemplate(t) \/ GetBlockTemplateFails(t) \/ CheckParent(t) \/ SetTemplate(t)
    PROVE  IInv'
  <1>0. /\ run[t] \in Progress /\ run[t].job.parent <= parent
        /\ run[t].got \in Nat /\ run[t].job \in Job /\ parent \in Nat /\ t[2] \in Client
    BY ProgressFields, ThreadType DEF IInv, TypeOK, ParentOK
  <1>1. CASE GetBlockTemplate(t)
    <2> DEFINE r == [run[t] EXCEPT !.at = "check", !.got = ParentOf[version]]
    <2>1. ParentOf[version] \in Nat
      BY TipType DEF IInv
    <2>2. r \in Progress /\ r.at = "check" /\ r.job = run[t].job
      BY <1>0, <2>1 DEF Progress, Step
    <2>3. run' = [run EXCEPT ![t] = r]
      BY <1>1 DEF GetBlockTemplate
    <2>4. UNCHANGED <<nodeVars, loopVars, jobVars, clientVars, todo, events, minerVars>>
      BY <1>1 DEF GetBlockTemplate
    <2> HIDE DEF r
    <2> QED
      BY <1>0, <2>2, <2>3, <2>4, RunOnly
  <1>2. CASE GetBlockTemplateFails(t)
    BY <1>2, FinishRun, RunOnly DEF GetBlockTemplateFails, Finish
  <1>3. CASE CheckParent(t)
    <2>1. UNCHANGED <<nodeVars, loopVars, jobVars, clientVars, todo, events, minerVars>>
      BY <1>3 DEF CheckParent
    <2>2. CASE run[t].got = parent
      <3> DEFINE r == [run[t] EXCEPT !.at = "set"]
      <3>1. r \in Progress /\ r.at = "set" /\ r.got = run[t].got /\ r.job = run[t].job
        BY <1>0, GoesOn DEF Step
      <3>2. run' = [run EXCEPT ![t] = r]
        BY <1>3, <2>2 DEF CheckParent, Goto
      <3>3. r.got <= parent
        BY <1>0, <2>2, <3>1
      <3> HIDE DEF r
      <3> QED
        BY <1>0, <2>1, <3>1, <3>2, <3>3, RunOnly
    <2>3. CASE run[t].got # parent
      BY <1>3, <2>1, <2>3, FinishRun, RunOnly DEF CheckParent, Finish
    <2> QED
      BY <2>2, <2>3
  <1>4. CASE SetTemplate(t)
    <2> USE DEF nodeVars, loopVars, jobVars, minerVars
    <2> DEFINE r == [run[t] EXCEPT !.at = "read", !.got = NoTemplate]
    <2>1. r \in Progress /\ r.at = "read" /\ r.job = run[t].job
      BY <1>0 DEF Progress, Step, NoTemplate
    <2>2. run' = [run EXCEPT ![t] = r]
      BY <1>4 DEF SetTemplate
    <2>3. run[t].got <= parent
      BY <1>4 DEF SetTemplate, At, IInv, ParentOK
    <2>4. /\ UNCHANGED <<nodeVars, loopVars, jobVars, connected, authorized, difficulty,
                         lastDiff, lastJob, todo, events, minerVars>>
          /\ template' = [template EXCEPT ![t[2]] = run[t].got]
      BY <1>4 DEF SetTemplate
    <2> HIDE DEF r
    <2>5. run' \in [Thread -> Progress] /\ MapOK' /\ HandOK' /\ ParentOK'
      BY <1>0, <2>1, <2>2, <2>4, RunFrame
    <2>6. template' \in [Client -> Nat]
      BY <1>0, <2>4 DEF IInv, TypeOK
    <2>7. TypeOK'
      BY <2>4, <2>5, <2>6 DEF IInv, TypeOK
    <2>8. \A c \in Client : template'[c] <= parent
      <3>1. template \in [Client -> Nat] /\ \A c \in Client : template[c] <= parent
        BY DEF IInv, TypeOK, NeverAheadOfPool
      <3> QED
        BY <3>1, <2>3, <2>4
    <2>9. SentJobsAreKnown' /\ NeverAheadOfPool'
      BY <2>4, <2>8 DEF IInv, SentJobsAreKnown, NeverAheadOfPool, KnownIn
    <2> QED
      BY <2>5, <2>7, <2>9 DEF IInv
  <1> QED
    BY <1>1, <1>2, <1>3, <1>4

\* The steps of publishClient and sendJob.
LEMMA PublishStep ==
    ASSUME IInv, NEW t \in Thread,
           \/ ReadTemplate(t) \/ Number(t) \/ Register(t) \/ BeginSend(t)
           \/ SendDifficulty(t) \/ SendJob(t) \/ SendFails(t)
    PROVE  IInv'
  <1>0. /\ run[t] \in Progress /\ run[t].job.parent <= parent
        /\ run[t].job \in Job /\ parent \in Nat /\ t[2] \in Client
    BY ProgressFields, ThreadType DEF IInv, TypeOK, ParentOK
  <1>a. run[t].at \in {"lock", "difficulty", "notify"} => KnownIn(jobs, entered, run[t].job)
    BY DEF IInv, HandOK
  <1>1. CASE ReadTemplate(t)
    <2> DEFINE c == t[2]
               next == [seq |-> 0, entry |-> 0, owner |-> c, parent |-> template[c],
                        difficulty |-> difficulty[c]]
               r == [run[t] EXCEPT !.at = "number", !.job = next]
    <2>1. UNCHANGED <<nodeVars, loopVars, jobVars, clientVars, todo, events, minerVars>>
      BY <1>1 DEF ReadTemplate
    <2>2. CASE template[c] = NoTemplate
      BY <1>1, <2>1, <2>2, FinishRun, RunOnly DEF ReadTemplate, Finish
    <2>3. CASE template[c] # NoTemplate
      <3>1. /\ template[c] \in Nat /\ difficulty[c] \in Difficulty /\ Difficulty \subseteq Nat
            /\ template[c] <= parent
        BY <1>0, FeedAssumption DEF IInv, TypeOK, NeverAheadOfPool
      <3>2. next \in Job /\ next.parent <= parent
        BY <1>0, <3>1 DEF Job
      <3>3. run' = [run EXCEPT ![t] = r]
        BY <1>1, <2>3 DEF ReadTemplate
      <3> HIDE DEF next
      <3>4. r \in Progress /\ r.at = "number" /\ r.job = next
        BY <1>0, <3>2 DEF Progress, Step
      <3> HIDE DEF r
      <3> QED
        BY <2>1, <3>2, <3>3, <3>4, RunOnly
    <2> QED
      BY <2>2, <2>3
  <1>7. CASE Number(t)
    <2> DEFINE j == [run[t].job EXCEPT !.seq = sequence + 1]
               r == [run[t] EXCEPT !.at = "register", !.job = j]
    <2>1. sequence + 1 \in Nat
      BY DEF IInv, TypeOK
    <2>2. j \in Job /\ j.parent = run[t].job.parent
      BY <1>0, <2>1, Numbered
    <2>3. /\ sequence' = sequence + 1
          /\ run' = [run EXCEPT ![t] = r]
          /\ UNCHANGED <<nodeVars, loopVars, jobs, entered, clientVars, todo, events, minerVars>>
      BY <1>7 DEF Number
    <2> HIDE DEF j
    <2>4. r \in Progress /\ r.at = "register" /\ r.job = j
      BY <1>0, <2>2 DEF Progress, Step
    <2> HIDE DEF r
    <2>5. run' \in [Thread -> Progress] /\ MapOK' /\ HandOK' /\ ParentOK'
      BY <1>0, <2>2, <2>3, <2>4, RunFrame DEF nodeVars, loopVars
    <2>6. TypeOK'
      BY <2>1, <2>3, <2>5 DEF IInv, TypeOK, nodeVars, loopVars, clientVars, minerVars
    <2>7. SentJobsAreKnown' /\ NeverAheadOfPool'
      BY <2>3 DEF IInv, SentJobsAreKnown, NeverAheadOfPool, KnownIn, loopVars, clientVars, minerVars
    <2> QED
      BY <2>5, <2>6, <2>7 DEF IInv
  <1>2. CASE Register(t)
    <2> DEFINE j == [run[t].job EXCEPT !.entry = entered + 1]
               r == [run[t] EXCEPT !.at = "lock", !.job = j]
    <2>1. /\ entered \in Nat /\ run \in [Thread -> Progress] /\ jobs \in Seq(Job)
          /\ TypeOK /\ MapOK /\ minerJob \in [Client -> Job]
      BY DEF IInv, TypeOK
    <2>2. j \in Job /\ j.entry = entered + 1 /\ j.parent = run[t].job.parent
      <3>1. entered + 1 \in Nat
        BY <2>1
      <3> QED
        BY <1>0, <3>1, Entered
    <2>3. /\ entered' = entered + 1 /\ jobs' = Remember(j)
          /\ run' = [run EXCEPT ![t] = r]
          /\ UNCHANGED <<nodeVars, loopVars, sequence, clientVars, todo, events, minerVars>>
      BY <1>2 DEF Register
    <2> HIDE DEF j
    <2>4. r \in Progress /\ r.at = "lock" /\ r.job = j
      BY <1>0, <2>2 DEF Progress, Step
    <2>5. \A u \in Thread : run'[u] = IF u = t THEN r ELSE run[u]
      BY <2>1, <2>3
    <2> HIDE DEF r
    <2>6. /\ jobs' \in Seq(Job) /\ Len(jobs') <= MaxRememberedJobs
          /\ ToSet(jobs') \subseteq ToSet(jobs) \cup {j}
          /\ KnownIn(jobs', entered', j)
          /\ \A k \in Job : KnownIn(jobs, entered, k) => KnownIn(jobs', entered', k)
          /\ MapOK'
      BY <2>1, <2>2, <2>3, RememberKeeps DEF MapOK
    <2>7. TypeOK'
      <3>1. run' \in [Thread -> Progress] /\ entered' \in Nat
        BY <2>1, <2>3, <2>4
      <3> QED
        BY <2>1, <2>3, <2>6, <3>1
           DEF TypeOK, nodeVars, loopVars, clientVars, minerVars
    <2>8. HandOK'
      <3> SUFFICES ASSUME NEW u \in Thread, run'[u].at \in {"lock", "difficulty", "notify"}
                   PROVE  KnownIn(jobs', entered', run'[u].job)
        BY DEF HandOK, KnownIn
      <3>1. CASE u = t
        BY <2>4, <2>5, <2>6, <3>1
      <3>2. CASE u # t
        BY <2>1, <2>5, <2>6, <3>2, ProgressFields DEF IInv, HandOK
      <3> QED
        BY <3>1, <3>2
    <2>9. SentJobsAreKnown'
      BY <2>1, <2>3, <2>6 DEF IInv, SentJobsAreKnown, KnownIn, minerVars
    <2>10. ParentOK'
      BY <1>0, <2>2, <2>3, <2>4, <2>5 DEF IInv, ParentOK, nodeVars, loopVars
    <2>11. NeverAheadOfPool'
      <3>1. \A k \in ToSet(jobs') : k.parent <= parent
        BY <1>0, <2>2, <2>6 DEF IInv, NeverAheadOfPool, ToSet
      <3> QED
        BY <2>3, <3>1 DEF IInv, NeverAheadOfPool, ToSet, loopVars, clientVars, minerVars
    <2> QED
      BY <2>6, <2>7, <2>8, <2>9, <2>10, <2>11 DEF IInv
  <1>3. CASE BeginSend(t)
    <2> DEFINE c == t[2]
    <2>1. UNCHANGED <<nodeVars, loopVars, jobVars, connected, authorized, template, difficulty,
                      todo, events, minerVars>>
      BY <1>3 DEF BeginSend
    <2>2. CASE run[t].job.seq <= lastJob[c]
      <3>1. run' = [run EXCEPT ![t] = Idle] /\ UNCHANGED <<lastJob, lastDiff>>
        BY <1>3, <2>2 DEF BeginSend, Finish
      <3> QED
        BY <2>1, <3>1, FinishRun, RunOnly DEF clientVars
    <2>3. CASE ~(run[t].job.seq <= lastJob[c])
      <3> DEFINE s == IF lastDiff[c] # run[t].job.difficulty THEN "difficulty" ELSE "notify"
                 r == [run[t] EXCEPT !.at = s]
      <3>1. /\ run' = [run EXCEPT ![t] = r]
            /\ lastJob' = [lastJob EXCEPT ![c] = run[t].job.seq]
            /\ lastDiff' = [lastDiff EXCEPT ![c] = run[t].job.difficulty]
        BY <1>3, <2>3 DEF BeginSend, Goto
      <3>2. s \in {"difficulty", "notify"} /\ s \in Step
        BY DEF Step
      <3> HIDE DEF s
      <3>3. r \in Progress /\ r.at = s /\ r.got = run[t].got /\ r.job = run[t].job
        BY <1>0, <3>2, GoesOn
      <3> HIDE DEF r
      <3>4. run[t].at = "lock"
        BY <1>3 DEF BeginSend, At
      <3>5. run' \in [Thread -> Progress] /\ MapOK' /\ HandOK' /\ ParentOK'
        BY <1>0, <1>a, <2>1, <3>1, <3>2, <3>3, <3>4, RunFrame DEF nodeVars, loopVars, jobVars
      <3>6. run[t].job.seq \in Nat /\ run[t].job.difficulty \in Nat
        BY <1>0, FeedAssumption DEF Job
      <3>7. lastJob' \in [Client -> Nat] /\ lastDiff' \in [Client -> Nat]
        BY <1>0, <3>1, <3>6 DEF IInv, TypeOK
      <3>8. TypeOK'
        BY <2>1, <3>5, <3>7
           DEF IInv, TypeOK, nodeVars, loopVars, jobVars, minerVars
      <3>9. SentJobsAreKnown' /\ NeverAheadOfPool'
        BY <2>1 DEF IInv, SentJobsAreKnown, NeverAheadOfPool, KnownIn, loopVars, jobVars, minerVars
      <3> QED
        BY <3>5, <3>8, <3>9 DEF IInv
    <2> QED
      BY <2>2, <2>3
  <1>4. CASE SendDifficulty(t)
    <2> DEFINE r == [run[t] EXCEPT !.at = "notify"]
    <2>1. /\ run' = [run EXCEPT ![t] = r] /\ run[t].at = "difficulty"
          /\ minerDiff' = [minerDiff EXCEPT ![t[2]] = run[t].job.difficulty]
          /\ UNCHANGED <<nodeVars, loopVars, jobVars, clientVars, todo, events, minerJob>>
      BY <1>4 DEF SendDifficulty, Goto, At
    <2>2. r \in Progress /\ r.at = "notify" /\ r.job = run[t].job
      BY <1>0, GoesOn DEF Step
    <2> HIDE DEF r
    <2>3. run' \in [Thread -> Progress] /\ MapOK' /\ HandOK' /\ ParentOK'
      BY <1>0, <1>a, <2>1, <2>2, RunFrame DEF nodeVars, loopVars, jobVars
    <2>4. run[t].job.difficulty \in Nat
      BY <1>0, FeedAssumption DEF Job
    <2>5. minerDiff' \in [Client -> Nat]
      BY <1>0, <2>1, <2>4 DEF IInv, TypeOK
    <2>6. TypeOK'
      BY <2>1, <2>3, <2>5 DEF IInv, TypeOK, nodeVars, loopVars, jobVars, clientVars
    <2>7. SentJobsAreKnown' /\ NeverAheadOfPool'
      BY <2>1 DEF IInv, SentJobsAreKnown, NeverAheadOfPool, KnownIn, loopVars, jobVars, clientVars
    <2> QED
      BY <2>3, <2>6, <2>7 DEF IInv
  <1>5. CASE SendJob(t)
    <2>1. /\ run' = [run EXCEPT ![t] = Idle] /\ run[t].at = "notify"
          /\ minerJob' = [minerJob EXCEPT ![t[2]] = run[t].job]
          /\ UNCHANGED <<nodeVars, loopVars, jobVars, clientVars, todo, events, minerDiff>>
      BY <1>5 DEF SendJob, Finish, At
    <2>2. run' \in [Thread -> Progress] /\ MapOK' /\ HandOK' /\ ParentOK'
      BY <2>1, FinishRun, RunFrame DEF nodeVars, loopVars, jobVars
    <2>3. minerJob \in [Client -> Job]
      BY DEF IInv, TypeOK
    <2>4. minerJob' \in [Client -> Job]
      BY <1>0, <2>1, <2>3
    <2>5. TypeOK'
      BY <2>1, <2>2, <2>4 DEF IInv, TypeOK, nodeVars, loopVars, jobVars, clientVars
    <2>6. \A c \in Client : minerJob'[c] = IF c = t[2] THEN run[t].job ELSE minerJob[c]
      BY <1>0, <2>1, <2>3
    <2>7. SentJobsAreKnown'
      BY <1>a, <2>1, <2>6 DEF IInv, SentJobsAreKnown, KnownIn, jobVars
    <2>8. NeverAheadOfPool'
      BY <1>0, <2>1, <2>6 DEF IInv, NeverAheadOfPool, loopVars, jobVars, clientVars
    <2> QED
      BY <2>2, <2>5, <2>7, <2>8 DEF IInv
  <1>6. CASE SendFails(t)
    BY <1>6, FinishRun, RunOnly DEF SendFails, Finish
  <1> QED
    BY <1>1, <1>2, <1>3, <1>4, <1>5, <1>6, <1>7

\* What the handlers of a connection and refreshLoop start.
LEMMA ClientStep ==
    ASSUME IInv, NEW c \in Client,
           \/ \E d \in Difficulty : Authorize(c, d) \/ Retarget(c, d)
           \/ AcceptShare(c) \/ Disconnect(c) \/ RefreshClient(c)
    PROVE  IInv'
  <1>0. /\ <<"handler", c>> \in Thread /\ <<"refresher", c>> \in Thread
        /\ \A t \in Thread :
              /\ run[t] \in Progress /\ run[t].job.parent <= parent
              /\ run[t].job \in Job
    BY ProgressFields DEF Thread, IInv, TypeOK, ParentOK
  <1>1. ASSUME NEW d \in Difficulty, Authorize(c, d) PROVE IInv'
    <2> DEFINE t == <<"handler", c>>
               r == [run[t] EXCEPT !.at = "ask"]
    <2>1. /\ run' = [run EXCEPT ![t] = r]
          /\ template' = [template EXCEPT ![c] = NoTemplate]
          /\ difficulty' = [difficulty EXCEPT ![c] = d]
          /\ authorized' = [authorized EXCEPT ![c] = TRUE]
          /\ UNCHANGED <<nodeVars, loopVars, jobVars, connected, lastDiff, lastJob,
                         todo, events, minerVars>>
      BY <1>1 DEF Authorize, Goto
    <2>2. r \in Progress /\ r.at = "ask" /\ r.job = run[t].job
      BY <1>0, GoesOn DEF Step
    <2> HIDE DEF r
    <2>3. run' \in [Thread -> Progress] /\ MapOK' /\ HandOK' /\ ParentOK'
      BY <1>0, <2>1, <2>2, RunFrame DEF nodeVars, loopVars, jobVars
    <2>4. /\ template' \in [Client -> Nat] /\ difficulty' \in [Client -> Difficulty]
          /\ authorized' \in [Client -> BOOLEAN]
      BY <2>1 DEF IInv, TypeOK, NoTemplate
    <2>5. TypeOK'
      BY <2>1, <2>3, <2>4
         DEF IInv, TypeOK, nodeVars, loopVars, jobVars, minerVars
    <2>6. \A e \in Client : template'[e] <= parent
      BY <2>1 DEF IInv, TypeOK, NeverAheadOfPool, NoTemplate
    <2>7. SentJobsAreKnown' /\ NeverAheadOfPool'
      BY <2>1, <2>6
         DEF IInv, SentJobsAreKnown, NeverAheadOfPool, KnownIn, loopVars, jobVars, minerVars
    <2> QED
      BY <2>3, <2>5, <2>7 DEF IInv
  <1>2. ASSUME NEW d \in Difficulty, Retarget(c, d) PROVE IInv'
    <2> DEFINE t == <<"handler", c>>
               r == [run[t] EXCEPT !.at = "read"]
    <2>1. /\ run' = [run EXCEPT ![t] = r]
          /\ difficulty' = [difficulty EXCEPT ![c] = d]
          /\ Happens
          /\ UNCHANGED <<nodeVars, loopVars, jobVars, connected, authorized, template,
                         lastDiff, lastJob, todo, minerVars>>
      BY <1>2 DEF Retarget, Goto
    <2>2. r \in Progress /\ r.at = "read" /\ r.job = run[t].job
      BY <1>0, GoesOn DEF Step
    <2> HIDE DEF r
    <2>3. run' \in [Thread -> Progress] /\ MapOK' /\ HandOK' /\ ParentOK'
      BY <1>0, <2>1, <2>2, RunFrame DEF nodeVars, loopVars, jobVars
    <2>4. difficulty' \in [Client -> Difficulty]
      BY <2>1 DEF IInv, TypeOK
    <2>7. events' \in 0..MaxEvents
      BY <2>1, EventsType DEF IInv
    <2>5. TypeOK'
      BY <2>1, <2>3, <2>4, <2>7 DEF IInv, TypeOK, nodeVars, loopVars, jobVars, minerVars
    <2>6. SentJobsAreKnown' /\ NeverAheadOfPool'
      BY <2>1
         DEF IInv, SentJobsAreKnown, NeverAheadOfPool, KnownIn, loopVars, jobVars, minerVars
    <2> QED
      BY <2>3, <2>5, <2>6 DEF IInv
  <1>3. CASE AcceptShare(c)
    <2>1. PICK j \in ToSet(jobs) : difficulty' = [difficulty EXCEPT ![c] = j.difficulty]
      BY <1>3 DEF AcceptShare
    <2>2. UNCHANGED <<nodeVars, loopVars, jobVars, connected, authorized, template, lastDiff,
                      lastJob, run, todo, events, minerVars>>
      BY <1>3 DEF AcceptShare
    <2>3. j.difficulty \in Difficulty
      <3>1. jobs \in Seq(Job)
        BY DEF IInv, TypeOK
      <3>2. j \in Job
        BY <3>1 DEF ToSet
      <3> QED
        BY <3>2 DEF Job
    <2>4. difficulty' \in [Client -> Difficulty]
      BY <2>1, <2>3 DEF IInv, TypeOK
    <2>5. TypeOK'
      BY <2>2, <2>4 DEF IInv, TypeOK, nodeVars, loopVars, jobVars, minerVars
    <2>6. MapOK' /\ HandOK' /\ ParentOK'
      BY <2>2, Frame DEF nodeVars, loopVars, jobVars
    <2>7. SentJobsAreKnown' /\ NeverAheadOfPool'
      BY <2>2
         DEF IInv, SentJobsAreKnown, NeverAheadOfPool, KnownIn, loopVars, jobVars, minerVars
    <2> QED
      BY <2>5, <2>6, <2>7 DEF IInv
  <1>4. CASE Disconnect(c)
    <2>1. /\ connected' = [connected EXCEPT ![c] = FALSE]
          /\ minerDiff' = [minerDiff EXCEPT ![c] = 0]
          /\ minerJob' = [minerJob EXCEPT ![c] = NoJob]
          /\ UNCHANGED <<nodeVars, loopVars, jobVars, authorized, template, difficulty,
                         lastDiff, lastJob, run, todo, events>>
      BY <1>4 DEF Disconnect
    <2>2. /\ connected' \in [Client -> BOOLEAN] /\ minerDiff' \in [Client -> Nat]
          /\ minerJob' \in [Client -> Job]
      BY <2>1, NoJobType DEF IInv, TypeOK
    <2>3. TypeOK'
      BY <2>1, <2>2 DEF IInv, TypeOK, nodeVars, loopVars, jobVars
    <2>4. MapOK' /\ HandOK' /\ ParentOK'
      BY <2>1, Frame DEF nodeVars, loopVars, jobVars
    <2>5. /\ parent \in Nat
          /\ \A e \in Client : minerJob'[e] = minerJob[e] \/ minerJob'[e] = NoJob
      BY <2>1 DEF IInv, TypeOK
    <2>6. SentJobsAreKnown'
      BY <2>1, <2>5 DEF IInv, SentJobsAreKnown, KnownIn, jobVars
    <2>7. NeverAheadOfPool'
      <3>1. \A e \in Client : minerJob'[e].parent <= parent
        BY <2>5, NoJobType DEF IInv, NeverAheadOfPool
      <3> QED
        BY <2>1, <3>1 DEF IInv, NeverAheadOfPool, loopVars, jobVars
    <2> QED
      BY <2>3, <2>4, <2>6, <2>7 DEF IInv
  <1>5. CASE RefreshClient(c)
    <2> DEFINE t == <<"refresher", c>>
               r == [run[t] EXCEPT !.at = "read"]
    <2>1. PICK d \in Difficulty : difficulty' = [difficulty EXCEPT ![c] = d]
      BY <1>5 DEF RefreshClient
    <2>2. /\ run' = [run EXCEPT ![t] = r] /\ todo' = todo \ {c}
          /\ UNCHANGED <<nodeVars, loopVars, jobVars, connected, authorized, template,
                         lastDiff, lastJob, events, minerVars>>
      BY <1>5 DEF RefreshClient, Goto
    <2>3. r \in Progress /\ r.at = "read" /\ r.job = run[t].job
      BY <1>0, GoesOn DEF Step
    <2> HIDE DEF r
    <2>4. run' \in [Thread -> Progress] /\ MapOK' /\ HandOK' /\ ParentOK'
      BY <1>0, <2>2, <2>3, RunFrame DEF nodeVars, loopVars, jobVars
    <2>5. difficulty' \in [Client -> Difficulty] /\ todo' \subseteq Client
      BY <2>1, <2>2 DEF IInv, TypeOK
    <2>6. TypeOK'
      BY <2>2, <2>4, <2>5 DEF IInv, TypeOK, nodeVars, loopVars, jobVars, minerVars
    <2>7. SentJobsAreKnown' /\ NeverAheadOfPool'
      BY <2>2
         DEF IInv, SentJobsAreKnown, NeverAheadOfPool, KnownIn, loopVars, jobVars, minerVars
    <2> QED
      BY <2>4, <2>6, <2>7 DEF IInv
  <1> QED
    BY <1>1, <1>2, <1>3, <1>4, <1>5

\* A round of refreshLoop begins, or nothing happens.
LEMMA RestStep ==
    ASSUME IInv, Tick \/ UNCHANGED vars
    PROVE  IInv'
  <1> USE DEF vars, nodeVars, loopVars, jobVars, clientVars, minerVars
  <1>1. events' \in 0..MaxEvents /\ todo' \subseteq Client
    <2>1. events' \in 0..MaxEvents
      BY EventsType DEF IInv, Tick
    <2>2. todo' \subseteq Client
      BY DEF IInv, TypeOK, Tick, LoopClients
    <2> QED
      BY <2>1, <2>2
  <1>2. UNCHANGED <<nodeVars, loopVars, jobVars, clientVars, run, minerVars>>
    BY DEF Tick
  <1>3. TypeOK'
    BY <1>1, <1>2 DEF IInv, TypeOK
  <1>4. MapOK' /\ HandOK' /\ ParentOK'
    BY <1>2, Frame
  <1>5. SentJobsAreKnown' /\ NeverAheadOfPool'
    BY <1>2 DEF IInv, SentJobsAreKnown, NeverAheadOfPool, KnownIn
  <1> QED
    BY <1>3, <1>4, <1>5 DEF IInv

\* IInv holds in every reachable state.
THEOREM Invariance == Spec => []IInv
  <1>1. IInv /\ [Next]_vars => IInv'
    <2> SUFFICES ASSUME IInv, [Next]_vars PROVE IInv'
      OBVIOUS
    <2>1. CASE NodeMoves \/ NodeDown \/ NodeUp \/ Loop
      BY <2>1, LoopStep
    <2>2. ASSUME NEW t \in Thread, ThreadStep(t) PROVE IInv'
      BY <2>2, AssignStep, PublishStep DEF ThreadStep
    <2>3. ASSUME NEW c \in Client,
                 \/ \E d \in Difficulty : Authorize(c, d) \/ Retarget(c, d)
                 \/ AcceptShare(c) \/ Disconnect(c) \/ RefreshClient(c)
          PROVE  IInv'
      BY <2>3, ClientStep
    <2>4. CASE Tick \/ UNCHANGED vars
      BY <2>4, RestStep
    <2> QED
      BY <2>1, <2>2, <2>3, <2>4 DEF Next
  <1> QED
    BY <1>1, InitIInv, PTL DEF Spec

\* The variables of the job feed keep their types, the job map its size.
THEOREM TypeCorrect == Spec => []TypeOK
  BY Invariance, PTL DEF IInv

\* A job a miner was told of is recognised until as many jobs as the map holds
\* were entered after it, in whatever order threads take numbers, enter their
\* jobs in the map and send them.
THEOREM SentKnown == Spec => []SentJobsAreKnown
  BY Invariance, PTL DEF IInv

\* No connection is ahead of the pool's parent, however assignments, clearing
\* and the node's tip interleave.
THEOREM NotAhead == Spec => []NeverAheadOfPool
  BY Invariance, PTL DEF IInv
=============================================================================
