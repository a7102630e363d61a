------------------------------ MODULE CachedTime ------------------------------
(***************************************************************************)
(* cached_time of src/src/cached_time.cpp: a ticker thread that marks the *)
(* cached time values stale after every interval and then waits on        *)
(* renew_cond until a caller has refreshed one of them, and the callers'  *)
(* time() and gettimeofday(), which refresh a stale value and broadcast   *)
(* renew_cond without taking renew_mutex.  The time values themselves are *)
(* left out: what is checked is whether the values keep being renewed.   *)
(* renew_mutex is taken only by the ticker, around pthread_cond_wait, so  *)
(* locking it never blocks and is part of the ticker's step into the wait.*)
(***************************************************************************)

VARIABLES
    tpc,                  \* where the ticker thread is in cached_time_processor
    stale_time,           \* cached_time::stale_time
    stale_gettimeofday    \* cached_time::stale_gettimeofday

vars == <<tpc, stale_time, stale_gettimeofday>>

\* the constructor marks both values stale and starts the ticker, which
\* begins with its first sleep
Init ==
    /\ tpc = "sleep"
    /\ stale_time = TRUE
    /\ stale_gettimeofday = TRUE

\* pthread_cond_broadcast(&renew_cond): wakes the ticker if it is waiting,
\* and is lost otherwise
Broadcast == tpc' = IF tpc = "wait" THEN "woken" ELSE tpc

\* the ticker: testcancel, usleep(interval), stale_time = true
Sleep ==
    /\ tpc = "sleep"
    /\ tpc' = "mark" /\ stale_time' = TRUE
    /\ UNCHANGED stale_gettimeofday

\* stale_gettimeofday = true
Mark ==
    /\ tpc = "mark"
    /\ tpc' = "lock" /\ stale_gettimeofday' = TRUE
    /\ UNCHANGED stale_time

\* lock renew_mutex and enter pthread_cond_wait, which releases it
Lock ==
    /\ tpc = "lock"
    /\ tpc' = "wait"
    /\ UNCHANGED <<stale_time, stale_gettimeofday>>

\* a wakeup nobody broadcast
Spurious ==
    /\ tpc = "wait"
    /\ tpc' = "woken"
    /\ UNCHANGED <<stale_time, stale_gettimeofday>>

\* return from pthread_cond_wait, unlock renew_mutex and loop
Wake ==
    /\ tpc = "woken"
    /\ tpc' = "sleep"
    /\ UNCHANGED <<stale_time, stale_gettimeofday>>

\* time(): if stale, read the clock into c_time, clear the flag, broadcast
Time ==
    /\ IF stale_time
       THEN /\ stale_time' = FALSE
            /\ Broadcast
       ELSE UNCHANGED <<tpc, stale_time>>
    /\ UNCHANGED stale_gettimeofday

\* gettimeofday(tv): the same for c_gettimeofday and stale_gettimeofday
gettimeofday ==
    /\ IF stale_gettimeofday
       THEN /\ stale_gettimeofday' = FALSE
            /\ Broadcast
       ELSE UNCHANGED <<tpc, stale_gettimeofday>>
    /\ UNCHANGED stale_time

Next == Sleep \/ Mark \/ Lock \/ Spurious \/ Wake \/ Time \/ gettimeofday

\* The ticker thread is scheduled, and the application keeps calling
\* time() and gettimeofday(): weak fairness of every step but a spurious
\* wakeup (a call that finds its value fresh changes nothing).
Spec ==
    /\ Init /\ [][Next]_vars
    /\ WF_vars(Sleep) /\ WF_vars(Mark) /\ WF_vars(Lock) /\ WF_vars(Wake)
    /\ WF_vars(Time) /\ WF_vars(gettimeofday)

-----------------------------------------------------------------------------
(* Properties                                                              *)

\* The cached time keeps being renewed: the ticker marks it stale again
\* and again, so time() keeps reading the clock after every interval
\* (cached_time.hpp: "sleeps for a sub-second interval between calls to
\* time() and/or gettimeofday()").
TimeKeepsRenewing == []<>stale_time

=============================================================================
