------------------------------- MODULE Locker --------------------------------
(***************************************************************************)
(* The scoped lock objects of src/krb/locker.hpp: locker over a           *)
(* pthread_mutex_t, and write_locker, read_locker (with                   *)
(* upgrade_to_write), try_write_locker and try_read_locker over one       *)
(* pthread_rwlock_t.  Each thread of LThreads repeatedly opens a scope    *)
(* holding one such object, may write the data the lock guards, and      *)
(* leaves the scope, running the destructor.  lpc is where each thread    *)
(* is; a blocking lock call is a step enabled only when the lock can be   *)
(* granted.  The rwlock grants a read lock whenever no writer holds it    *)
(* (glibc's default reader preference).  intact is history the code does *)
(* not keep: no other thread has written the guarded data since the      *)
(* thread's current lock was granted.                                     *)
(*                                                                         *)
(* The error returns the wrappers throw on (EAGAIN for too many readers, *)
(* EDEADLK for a thread relocking) need more readers, or nested scopes,   *)
(* than the threads here have.                                            *)
(***************************************************************************)
EXTENDS Naturals

CONSTANTS LThreads, NoThread

VARIABLES lpc, mholder, wholder, rholders, intact

lkvars == <<lpc, mholder, wholder, rholders, intact>>

\* "idle": outside any scope; "m_in": in a locker scope; "w_in":
\* write_locker; "r_in": read_locker; "u_wait": in upgrade_to_write
\* between its unlock and its wrlock; "u_in": read_locker after the
\* upgrade; "tw_in"/"tr_in": try locker that got the lock, "tw_busy"/
\* "tr_busy": one that got EBUSY (ok = false)
LStates == {"idle", "m_in", "w_in", "r_in", "u_wait", "u_in",
            "tw_in", "tw_busy", "tr_in", "tr_busy"}

\* the lock a thread holds in each state
MutexStates == {"m_in"}
RWStates == {"w_in", "r_in", "u_in", "tw_in", "tr_in"}
WriteStates == {"m_in", "w_in", "u_in", "tw_in"}

RWFree == wholder = NoThread /\ rholders = {}

\* t is granted a lock it enters state s with
Grant(t, s) ==
    /\ lpc' = [lpc EXCEPT ![t] = s]
    /\ intact' = [intact EXCEPT ![t] = TRUE]

\* t leaves its scope
Leave(t) == lpc' = [lpc EXCEPT ![t] = "idle"]

-----------------------------------------------------------------------------

Init ==
    /\ lpc = [t \in LThreads |-> "idle"]
    /\ mholder = NoThread /\ wholder = NoThread /\ rholders = {}
    /\ intact = [t \in LThreads |-> TRUE]

\* locker(M): pthread_mutex_lock
MLock(t) ==
    /\ lpc[t] = "idle" /\ mholder = NoThread
    /\ mholder' = t
    /\ Grant(t, "m_in")
    /\ UNCHANGED <<wholder, rholders>>

\* ~locker(): pthread_mutex_unlock
MUnlock(t) ==
    /\ lpc[t] = "m_in"
    /\ mholder' = NoThread
    /\ Leave(t)
    /\ UNCHANGED <<wholder, rholders, intact>>

\* mutant: write_locker takes the lock with pthread_rwlock_rdlock
WLockShared(t) ==
    /\ lpc[t] = "idle" /\ wholder = NoThread
    /\ rholders' = rholders \cup {t}
    /\ Grant(t, "w_in")
    /\ UNCHANGED <<mholder, wholder>>

\* write_locker(L): pthread_rwlock_wrlock
WLock(t) ==
    /\ lpc[t] = "idle" /\ RWFree
    /\ wholder' = t
    /\ Grant(t, "w_in")
    /\ UNCHANGED <<mholder, rholders>>

\* read_locker(L): pthread_rwlock_rdlock
RLock(t) ==
    /\ lpc[t] = "idle" /\ wholder = NoThread
    /\ rholders' = rholders \cup {t}
    /\ Grant(t, "r_in")
    /\ UNCHANGED <<mholder, wholder>>

\* upgrade_to_write(), first half: pthread_rwlock_unlock of the read lock
UpgradeUnlock(t) ==
    /\ lpc[t] = "r_in"
    /\ rholders' = rholders \ {t}
    /\ lpc' = [lpc EXCEPT ![t] = "u_wait"]
    /\ UNCHANGED <<mholder, wholder, intact>>

\* upgrade_to_write(), second half: pthread_rwlock_wrlock
UpgradeLock(t) ==
    /\ lpc[t] = "u_wait" /\ RWFree
    /\ wholder' = t
    /\ Grant(t, "u_in")
    /\ UNCHANGED <<mholder, rholders>>

\* try_write_locker(L): pthread_rwlock_trywrlock, ok = (rv == 0)
TryWLock(t) ==
    /\ lpc[t] = "idle"
    /\ IF RWFree THEN wholder' = t /\ Grant(t, "tw_in")
                 ELSE lpc' = [lpc EXCEPT ![t] = "tw_busy"] /\ UNCHANGED <<wholder, intact>>
    /\ UNCHANGED <<mholder, rholders>>

\* try_read_locker(L): pthread_rwlock_tryrdlock, ok = (rv == 0)
TryRLock(t) ==
    /\ lpc[t] = "idle"
    /\ IF wholder = NoThread
         THEN rholders' = rholders \cup {t} /\ Grant(t, "tr_in")
         ELSE lpc' = [lpc EXCEPT ![t] = "tr_busy"] /\ UNCHANGED <<rholders, intact>>
    /\ UNCHANGED <<mholder, wholder>>

\* the destructors of the rwlock objects: pthread_rwlock_unlock, which
\* releases the write or the read lock the thread holds; a try locker
\* with ok = false unlocks nothing
RWUnlock(t) ==
    /\ lpc[t] \in RWStates \cup {"tw_busy", "tr_busy"}
    /\ wholder' = IF wholder = t THEN NoThread ELSE wholder
    /\ rholders' = rholders \ {t}
    /\ Leave(t)
    /\ UNCHANGED <<mholder, intact>>

\* t writes the data its write or mutex lock guards: every other thread
\* holding the same lock would see the write
WriteData(t) ==
    /\ lpc[t] \in WriteStates
    /\ LET same == IF lpc[t] \in MutexStates THEN MutexStates ELSE RWStates
       IN intact' = [u \in LThreads |-> intact[u] /\ ~(u # t /\ lpc[u] \in same)]
    /\ UNCHANGED <<lpc, mholder, wholder, rholders>>

Next ==
    \E t \in LThreads :
        \/ MLock(t) \/ MUnlock(t)
        \/ WLock(t) \/ RLock(t) \/ UpgradeUnlock(t) \/ UpgradeLock(t)
        \/ TryWLock(t) \/ TryRLock(t) \/ RWUnlock(t)
        \/ WriteData(t)

Spec == Init /\ [][Next]_lkvars

-----------------------------------------------------------------------------
(* Properties                                                              *)

\* Every thread holding a lock through one of the lock objects, shared or
\* exclusive, mutex or rwlock, try or blocking, upgraded or not, has seen
\* no write by another thread since its lock was granted: the objects
\* take the primitive their name promises, a try locker that got EBUSY
\* holds nothing, and its destructor releases nothing it does not hold.
HoldersSeeNoForeignWrite ==
    \A t \in LThreads : lpc[t] \in MutexStates \cup RWStates => intact[t]

=============================================================================
