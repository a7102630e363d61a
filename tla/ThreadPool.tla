------------------------------ MODULE ThreadPool ------------------------------
(***************************************************************************)
(* thread_pool<Policy> of src/krb/thread_pool.hpp: the main (libevent)     *)
(* thread, which schedules jobs and runs thread_pool_catch, and one worker *)
(* thread per pooled thread_pool_worker.  The workers are the resources of *)
(* a resource_pool (module ResourcePool); held is the set of workers the   *)
(* main thread has fetched and not yet released.                          *)
(*                                                                         *)
(* A worker's job_mutex is only ever held inside one step of the model:   *)
(* run_job() locks, signals and unlocks it; the worker locks it before     *)
(* pthread_cond_wait, which releases it atomically, and re-acquires it on *)
(* wakeup only to unlock it again.  The condition variable is the worker's *)
(* pc "wait": a signal moves a waiting worker to "woken" and is lost on a *)
(* worker in any other state.  Spurious wakeups are allowed, never assumed.*)
(***************************************************************************)
EXTENDS Naturals, Sequences, SequencesExt, FiniteSets

CONSTANTS
    WmLow, WmHigh, Policy, GrowthSize, Null, Undefined,  \* of the worker pool
    Jobs    \* the jobs callers schedule, identified by their distinct priorities

ASSUME /\ Jobs \subseteq Nat /\ Null \notin Jobs
       /\ WmLow >= 1   \* with 0 the first fetch is undefined (ResourcePool)

VARIABLES
    pool, open, held,   \* the worker pool's lists, and the fetched workers
    todo,       \* thread_pool::todo, the scheduled jobs not yet handed out
    cur,        \* current_job of every worker (Null: none)
    wpc,        \* where every worker thread is in thread_pool_worker_thread
    done,       \* the completed queue: <<job, worker>> pairs
    pipe,       \* the pipe holds at least one unread byte
    mpc,        \* "catch": the main thread is between the pipe drain and the
                \* queue walk of thread_pool_catch
    scheduled,  \* the jobs schedule() has been called with
    runs,       \* how many times each job's run() has been executed
    called      \* the jobs whose callback() has been called

vars == <<pool, open, held, todo, cur, wpc, done, pipe, mpc, scheduled, runs, called>>

RP == INSTANCE ResourcePool WITH ret <- [op |-> "none", res |-> Null]

Workers == RP!Resources

\* thread states: "none" no thread; "start" created, not yet at its first
\* pthread_cond_wait; "wait" in pthread_cond_wait; "woken" returned from it
\* (re-acquiring job_mutex); "cwait" after `continue`, about to wait again
\* without the mutex; "run" running current_job
ThreadStates == {"none", "start", "wait", "woken", "cwait", "run"}

-----------------------------------------------------------------------------
(* The main thread's part.  run_some_jobs() and the queue walk touch only *)
(* state the main thread owns, apart from the current_job and the signal  *)
(* of a fetched worker, so each is one step.  They thread a record of the *)
(* main thread's view through RECURSIVE operators.                        *)

\* todo.top(): the comparator orders by priority, so the highest first
Top(t) == CHOOSE j \in t : \A k \in t : k <= j

\* threads started (init(): current_job = NULL, pthread_create) for the
\* workers a fetch added to the pool, and canceled and joined for those the
\* shrink loop erased
Threads(st, before) ==
    LET new  == ToSet(st.pool) \ ToSet(before)
        gone == ToSet(before) \ ToSet(st.pool)
    IN  [st EXCEPT !.wpc = [w \in Workers |-> IF w \in new THEN "start"
                                              ELSE IF w \in gone THEN "none"
                                              ELSE @[w]],
                   !.cur = [w \in Workers |-> IF w \in new \cup gone THEN Null ELSE @[w]]]

\* thread_pool_worker::run_job(job): refuse if the worker still has a job;
\* otherwise set current_job and signal job_cond
run_job(st, w, j) ==
    IF st.cur[w] # Null
    THEN [st EXCEPT !.ok = FALSE]
    ELSE [st EXCEPT !.cur[w] = j,
                    !.wpc[w] = IF @ = "wait" THEN "woken" ELSE @]

\* run_some_jobs(): while jobs wait, fetch a worker (stop at NULL), pop the
\* top job and hand it to the worker; a refused job is dropped and the loop
\* returns false
RECURSIVE run_some_jobs(_)
run_some_jobs(st) ==
    IF st.todo = {} THEN st
    ELSE LET f == RP!FetchStep(st.pool, st.open)
         IN  IF f.res = Null THEN st
             ELSE LET j  == Top(st.todo)
                      s1 == Threads([st EXCEPT !.pool = f.pool, !.open = f.open,
                                               !.held = @ \cup {f.res},
                                               !.todo = @ \ {j}], st.pool)
                      s2 == run_job(s1, f.res, j)
                  IN  IF s2.ok THEN run_some_jobs(s2) ELSE s2

\* the queue walk of thread_pool_catch: release each completed worker
\* into the pool and call its job's callback, front to back
RECURSIVE ReleaseCompleted(_)
ReleaseCompleted(st) ==
    IF st.done = <<>> THEN st
    ELSE LET jw == Head(st.done)
             r  == RP!ReleaseStep(st.pool, st.open, jw[2])
         IN  ReleaseCompleted(
               Threads([st EXCEPT !.pool = r.pool, !.open = r.open,
                                  !.held = @ \ {jw[2]}, !.done = Tail(@),
                                  !.called = @ \cup {jw[1]}], st.pool))

\* the main thread's view of the state, and its write-back
View == [pool |-> pool, open |-> open, held |-> held, todo |-> todo, cur |-> cur,
         wpc |-> wpc, done |-> done, called |-> called, ok |-> TRUE]

WriteBack(st) ==
    /\ pool' = st.pool /\ open' = st.open /\ held' = st.held /\ todo' = st.todo
    /\ cur' = st.cur /\ wpc' = st.wpc /\ done' = st.done /\ called' = st.called

Init ==
    /\ pool = <<>> /\ open = <<>> /\ held = {}
    /\ todo = {}
    /\ cur = [w \in Workers |-> Null]
    /\ wpc = [w \in Workers |-> "none"]
    /\ done = <<>>
    /\ pipe = FALSE
    /\ mpc = "idle"
    /\ scheduled = {}
    /\ runs = [j \in Jobs |-> 0]
    /\ called = {}

\* schedule(job), called from the main thread: push, then run_some_jobs()
Schedule(j) ==
    /\ mpc = "idle"
    /\ j \notin scheduled
    /\ scheduled' = scheduled \cup {j}
    /\ WriteBack(run_some_jobs([View EXCEPT !.todo = @ \cup {j}]))
    /\ UNCHANGED <<pipe, mpc, runs>>

\* thread_pool_catch, the libevent callback on the readable pipe: first
\* read the pipe until it is empty; then, under the completed queue's
\* mutex, release every completed worker and call its job's callback, and
\* finally run_some_jobs()
DrainPipe ==
    /\ mpc = "idle" /\ pipe
    /\ pipe' = FALSE /\ mpc' = "catch"
    /\ UNCHANGED <<pool, open, held, todo, cur, wpc, done, scheduled, runs, called>>

WalkQueue ==
    /\ mpc = "catch"
    /\ mpc' = "idle"
    /\ WriteBack(run_some_jobs(ReleaseCompleted(View)))
    /\ UNCHANGED <<pipe, scheduled, runs>>

\* mutant: the queue walked before the pipe is drained
CatchQueueFirst ==
    \/ /\ mpc = "idle" /\ pipe
       /\ mpc' = "catch"
       /\ WriteBack(run_some_jobs(ReleaseCompleted(View)))
       /\ UNCHANGED <<pipe, scheduled, runs>>
    \/ /\ mpc = "catch"
       /\ pipe' = FALSE /\ mpc' = "idle"
       /\ UNCHANGED <<pool, open, held, todo, cur, wpc, done, scheduled, runs, called>>

Catch == DrainPipe \/ WalkQueue

-----------------------------------------------------------------------------
(* The worker threads: thread_pool_worker_thread.                          *)

\* lock job_mutex and enter the first pthread_cond_wait (lines 321-326)
Start(w) ==
    /\ wpc[w] = "start"
    /\ wpc' = [wpc EXCEPT ![w] = "wait"]
    /\ UNCHANGED <<pool, open, held, todo, cur, done, pipe, mpc, scheduled, runs, called>>

\* a wakeup nobody signalled
Spurious(w) ==
    /\ wpc[w] = "wait"
    /\ wpc' = [wpc EXCEPT ![w] = "woken"]
    /\ UNCHANGED <<pool, open, held, todo, cur, done, pipe, mpc, scheduled, runs, called>>

\* mutant: no check for a missing job after the wakeup
WakeNoCheck(w) ==
    /\ wpc[w] = "woken"
    /\ wpc' = [wpc EXCEPT ![w] = "run"]
    /\ UNCHANGED <<pool, open, held, todo, cur, done, pipe, mpc, scheduled, runs, called>>

\* return from pthread_cond_wait, unlock, test for cancellation, and either
\* `continue` (no job) or go on to run the job
Wake(w) ==
    /\ wpc[w] = "woken"
    /\ wpc' = [wpc EXCEPT ![w] = IF cur[w] = Null THEN "cwait" ELSE "run"]
    /\ UNCHANGED <<pool, open, held, todo, cur, done, pipe, mpc, scheduled, runs, called>>

\* after `continue`: back to pthread_cond_wait, with job_mutex not held
CWait(w) ==
    /\ wpc[w] = "cwait"
    /\ wpc' = [wpc EXCEPT ![w] = "wait"]
    /\ UNCHANGED <<pool, open, held, todo, cur, done, pipe, mpc, scheduled, runs, called>>

\* mutant: current_job not cleared after the job completes
WorkNoReset(w) ==
    /\ wpc[w] = "run"
    /\ runs' = [runs EXCEPT ![cur[w]] = @ + 1]
    /\ done' = Append(done, <<cur[w], w>>)
    /\ pipe' = TRUE
    /\ wpc' = [wpc EXCEPT ![w] = "wait"]
    /\ UNCHANGED <<pool, open, held, todo, cur, mpc, scheduled, called>>

\* run the job; then, holding job_mutex and the completed queue's mutex,
\* push (job, worker), clear current_job and write a byte to the pipe; the
\* loop returns to pthread_cond_wait, releasing job_mutex
Work(w) ==
    /\ wpc[w] = "run"
    /\ runs' = [runs EXCEPT ![cur[w]] = @ + 1]
    /\ done' = Append(done, <<cur[w], w>>)
    /\ cur' = [cur EXCEPT ![w] = Null]
    /\ pipe' = TRUE
    /\ wpc' = [wpc EXCEPT ![w] = "wait"]
    /\ UNCHANGED <<pool, open, held, todo, mpc, scheduled, called>>

Next ==
    \/ \E j \in Jobs : Schedule(j)
    \/ Catch
    \/ \E w \in Workers : Start(w) \/ Spurious(w) \/ Wake(w) \/ CWait(w) \/ Work(w)

\* thread_pool_catch can take its next step: the pipe is readable while the
\* main thread waits in libevent, or the drain is done.  Both steps change
\* mpc, so this is ENABLED <<Catch>>_vars, stated directly because TLC
\* would otherwise evaluate the recursive queue walk for ENABLED.
CatchEnabled == (mpc = "idle" /\ pipe) \/ mpc = "catch"

\* The OS scheduler runs every runnable thread, and libevent calls
\* thread_pool_catch while the pipe is readable: weak fairness of every
\* step but a spurious wakeup and the callers' schedule().
Fairness ==
    /\ <>[]CatchEnabled => []<><<Catch>>_vars
    /\ \A w \in Workers : WF_vars(Start(w)) /\ WF_vars(Wake(w))
                          /\ WF_vars(CWait(w)) /\ WF_vars(Work(w))

Spec == Init /\ [][Next]_vars /\ Fairness

-----------------------------------------------------------------------------
(* Properties                                                              *)

TPTypeOK ==
    /\ pool \in Seq(Workers) /\ open \in Seq(Workers) /\ held \subseteq Workers
    /\ todo \subseteq Jobs /\ scheduled \subseteq Jobs /\ called \subseteq Jobs
    /\ cur \in [Workers -> Jobs \cup {Null}]
    /\ wpc \in [Workers -> ThreadStates]
    /\ done \in Seq(Jobs \X Workers)
    /\ pipe \in BOOLEAN /\ mpc \in {"idle", "catch"}
    /\ runs \in [Jobs -> Nat]

\* the stage every scheduled job is in
Assigned(j) == {w \in Workers : cur[w] = j}
Completed(j) == {i \in DOMAIN done : done[i][1] = j}

\* Every scheduled job is in exactly one stage: waiting in todo, the
\* current_job of exactly one worker, once on the completed queue, or
\* called back; its run() has executed once from the moment it leaves the
\* worker; and the workers the pool counts as fetched are exactly those
\* with a job or a completion waiting.  A job dropped by a refused run_job,
\* a job run twice, or a worker released while still busy breaks it.
JobConservation ==
    /\ \A j \in scheduled :
          /\ Cardinality(Assigned(j)) + Cardinality(Completed(j))
               + (IF j \in todo THEN 1 ELSE 0) + (IF j \in called THEN 1 ELSE 0) = 1
          /\ runs[j] = IF j \in called \/ Completed(j) # {} THEN 1 ELSE 0
    /\ held = {w \in Workers : cur[w] # Null} \cup {done[i][2] : i \in DOMAIN done}

\* The worker pool under the thread pool's load: every pooled worker is
\* either free (once on the free list) or fetched by run_some_jobs and not
\* yet released by the queue walk, and nothing else is on either list; so
\* the shrink loop of release() never cancels a thread that holds a job.
PoolConservation == RP!Conservation

\* Once the first job is scheduled (whose fetch allocates the low
\* watermark), the pool stays between its watermarks: fetch's growth cap,
\* and release's clamp of the policy's answer when several completions
\* are released in one queue walk.
PoolWithinWatermarks ==
    /\ Len(pool) <= WmHigh
    /\ scheduled # {} => Len(pool) >= WmLow

\* A scheduled job is left waiting in todo only when no worker could take
\* it: nothing is free and the pool is at its high watermark.  A fetch()
\* that returned NULL with a free worker, or a run_some_jobs() that
\* stopped early, strands the job until the next completion.
JobsWaitOnlyWhenExhausted ==
    todo # {} => open = <<>> /\ Len(pool) = WmHigh

\* Every job a worker has put on the completed queue eventually gets its
\* callback: the worker writes the pipe after pushing, and
\* thread_pool_catch drains the pipe before it walks the queue.
CompletionsCalledBack ==
    \A j \in Jobs : (Completed(j) # {}) ~> (j \in called)

\* Every scheduled job eventually runs and gets its callback.
JobsComplete ==
    \A j \in Jobs : (j \in scheduled) ~> (j \in called)

=============================================================================
