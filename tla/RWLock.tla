------------------------------- MODULE RWLock -------------------------------
(***************************************************************************)
(* RWMutex, a bare pthread_rwlock_t: nothing ties an unlock() to a lock(), *)
(* and the callers ignore the error codes.  Some of them return without    *)
(* unlocking, so what the lock does for a thread that already holds it     *)
(* matters.                                                                *)
(*                                                                         *)
(* In glibc rdlock() and wrlock() fail at once for the thread that holds   *)
(* the write lock (EDEADLK): the caller goes on, still the only one in.    *)
(* unlock() by that thread releases the write lock, by any other thread a  *)
(* read lock.  Readers do not wait for waiting writers.                    *)
(***************************************************************************)
CONSTANT NoThread

VARIABLES
  writer,   \* the thread that holds the write lock
  readers,  \* threads with a read lock they are going to release
  leaked    \* a read lock was taken that nobody releases any more

lockVars == <<writer, readers, leaked>>

LockInit == writer = NoThread /\ readers = {} /\ leaked = FALSE

rdlock(t) ==
  /\ writer \in {NoThread, t}
  /\ readers' = IF writer = t THEN readers ELSE readers \cup {t}
  /\ UNCHANGED <<writer, leaked>>

wrlock(t) ==
  /\ \/ writer = t
     \/ writer = NoThread /\ readers = {} /\ ~leaked
  /\ writer' = t
  /\ UNCHANGED <<readers, leaked>>

unlock(t) ==
  /\ writer' = IF writer = t THEN NoThread ELSE writer
  /\ readers' = IF writer = t THEN readers ELSE readers \ {t}
  /\ UNCHANGED leaked

\* The caller returns without unlock(): a write lock stays with its thread, a
\* read lock with nobody.
Abandon(t) ==
  /\ leaked' = (leaked \/ t \in readers)
  /\ readers' = readers \ {t}
  /\ UNCHANGED writer

=============================================================================
