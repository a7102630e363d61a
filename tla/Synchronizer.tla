---------------------------- MODULE Synchronizer -----------------------------
(***************************************************************************)
(* synchronizer_t of src/krb/synchronizer.hpp: one writer thread and the  *)
(* reader (worker) threads Readers.  Every thread has a pc in spc.  The    *)
(* two pthread barriers are shared by the pcs: a thread waiting at the     *)
(* start or the end barrier has pc "start" or "end", and the arrival that *)
(* makes the count releases every waiter in the same step.  Both barriers *)
(* are initialised with the same count, bcount.                            *)
(*                                                                         *)
(* Readers not in Preset are started by the writer (the thread that       *)
(* creates the workers) after it calls add_thread() for them, the usage   *)
(* the header prescribes when acquire_sync() may come early; a reader     *)
(* whose add_thread() throws is never started ("rejected").               *)
(*                                                                         *)
(* The store do_wait = false of release_sync() has no fence after it (the *)
(* #ifdef __GNUC_ misspells the macro), but pthread_barrier_wait()        *)
(* synchronizes memory (POSIX XBD 4.12), so the store is visible to every *)
(* reader released by the end barrier: the store and the arrival are in   *)
(* that order in one step.                                                *)
(***************************************************************************)
EXTENDS Naturals, FiniteSets

CONSTANTS
    Readers,    \* the worker threads, which call wait_for_updates()
    Preset,     \* the readers counted by the constructor's thread_count
    Writer      \* the writing thread

ASSUME Preset \subseteq Readers /\ Writer \notin Readers

VARIABLES
    num_threads,
    do_wait,
    initialized,
    bcount,     \* the count both barriers were initialised with (0: not yet)
    spc         \* where every thread is

syvars == <<num_threads, do_wait, initialized, bcount, spc>>

Threads == Readers \cup {Writer}

\* reader pcs: "unstarted", "rejected" (add_thread threw), "top" (about to
\* call wait_for_updates), "work" (processing), "start", "between" (past
\* the start barrier), "end"; writer pcs: "idle", "start", "writing", "end"
ReaderStates == {"unstarted", "rejected", "top", "work", "start", "between", "end"}
WriterStates == {"idle", "start", "writing", "end"}

\* the threads blocked in pthread_barrier_wait on barrier b
Waiting(b) == {t \in Threads : spc[t] = b}

\* where a thread goes when barrier b releases it
Past(t, b) ==
    IF t = Writer THEN (IF b = "start" THEN "writing" ELSE "idle")
                  ELSE (IF b = "start" THEN "between" ELSE "top")

\* pthread_barrier_wait(b) by thread t on a barrier of count n: the
\* arrival that makes the count releases t and every waiter; any other
\* arrival blocks
ArriveAt(t, b, n) ==
    spc' = IF Cardinality(Waiting(b)) + 1 = n
             THEN [u \in Threads |-> IF u = t \/ spc[u] = b THEN Past(u, b) ELSE spc[u]]
             ELSE [spc EXCEPT ![t] = b]

Arrive(t, b) == ArriveAt(t, b, bcount)

-----------------------------------------------------------------------------

\* synchronizer_t(thread_count)
Init ==
    /\ num_threads = Cardinality(Preset)
    /\ do_wait = FALSE
    /\ initialized = FALSE
    /\ bcount = 0
    /\ spc = [t \in Threads |-> IF t = Writer THEN "idle"
                                ELSE IF t \in Preset THEN "top" ELSE "unstarted"]

\* add_thread() for reader r, then the thread is started; once the
\* synchronizer is initialised it throws and r is never started
AddThread(r) ==
    /\ spc[Writer] = "idle" /\ spc[r] = "unstarted"
    /\ IF initialized
         THEN /\ spc' = [spc EXCEPT ![r] = "rejected"]
              /\ UNCHANGED num_threads
         ELSE /\ num_threads' = num_threads + 1
              /\ spc' = [spc EXCEPT ![r] = "top"]
    /\ UNCHANGED <<do_wait, initialized, bcount>>

AcquireSync ==
    /\ spc[Writer] = "idle"
    /\ IF initialized THEN UNCHANGED <<bcount, initialized>>
                      ELSE bcount' = num_threads + 1 /\ initialized' = TRUE
    /\ do_wait' = TRUE
    /\ ArriveAt(Writer, "start", bcount')
    /\ UNCHANGED num_threads

\* mutant: release_sync() without the store to do_wait
ReleaseSyncKeepsWait ==
    /\ spc[Writer] = "writing"
    /\ Arrive(Writer, "end")
    /\ UNCHANGED <<num_threads, do_wait, initialized, bcount>>

\* release_sync(): clear do_wait, wait at the end barrier
ReleaseSync ==
    /\ spc[Writer] = "writing"
    /\ do_wait' = FALSE
    /\ Arrive(Writer, "end")
    /\ UNCHANGED <<num_threads, initialized, bcount>>

\* mutant: do_wait without volatile, its load hoisted out of the reader's
\* loop, so the reader keeps the false it read before the first sync
WaitForUpdatesHoisted(r) ==
    /\ spc[r] = "top"
    /\ spc' = [spc EXCEPT ![r] = "work"]
    /\ UNCHANGED <<num_threads, do_wait, initialized, bcount>>

\* wait_for_updates() at the top of a reader's loop: with do_wait set,
\* wait at the start barrier; otherwise go on to process
WaitForUpdates(r) ==
    /\ spc[r] = "top"
    /\ IF do_wait THEN Arrive(r, "start")
                  ELSE spc' = [spc EXCEPT ![r] = "work"]
    /\ UNCHANGED <<num_threads, do_wait, initialized, bcount>>

\* the second half of wait_for_updates(): wait at the end barrier
WaitEnd(r) ==
    /\ spc[r] = "between"
    /\ Arrive(r, "end")
    /\ UNCHANGED <<num_threads, do_wait, initialized, bcount>>

\* the reader's processing, back to the top of its loop
Work(r) ==
    /\ spc[r] = "work"
    /\ spc' = [spc EXCEPT ![r] = "top"]
    /\ UNCHANGED <<num_threads, do_wait, initialized, bcount>>

Next ==
    \/ AcquireSync
    \/ ReleaseSync
    \/ \E r \in Readers : AddThread(r) \/ WaitForUpdates(r) \/ WaitEnd(r) \/ Work(r)

\* The OS runs every runnable reader, a reader's processing ends, and the
\* writer calls release_sync() when its writing is done.  When the writer
\* syncs, and whether more threads are added, is the program's choice.
Fairness ==
    /\ WF_syvars(ReleaseSync)
    /\ \A r \in Readers : WF_syvars(WaitForUpdates(r)) /\ WF_syvars(WaitEnd(r))
                          /\ WF_syvars(Work(r))

Spec == Init /\ [][Next]_syvars /\ Fairness

-----------------------------------------------------------------------------
(* Properties                                                              *)

SyncTypeOK ==
    /\ num_threads \in 0 .. Cardinality(Readers)
    /\ do_wait \in BOOLEAN /\ initialized \in BOOLEAN
    /\ spc \in [Threads -> ReaderStates \cup WriterStates]

StartBarrierReleases ==
    \A r \in Readers : spc[r] = "start" ~> spc[r] = "between"

\* A sync round completes: once the writer calls acquire_sync(), both it
\* and its release_sync() return, however the readers counted by the
\* barriers are spread over their loop and whether further add_thread()
\* calls were refused.
SyncRoundCompletes ==
    spc[Writer] = "start" ~> spc[Writer] = "idle"

=============================================================================
