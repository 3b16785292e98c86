------------------------------ MODULE UThreads ------------------------------
(***************************************************************************)
(* The user-level thread library of src/mp1/r13922165/threads.c: a         *)
(* circular doubly linked run queue through next/previous, the thread that *)
(* runs (current_thread), cooperative switching by setjmp/longjmp in      *)
(* thread_yield and dispatch, and the part-2 signals (thread_kill,        *)
(* thread_register_handler) and suspension.                               *)
(*                                                                         *)
(* One process runs it, so there is no interleaving beyond the order in   *)
(* which the running code calls the library.  at says where control is:   *)
(* in main before thread_start_threading, inside dispatch, in the current *)
(* thread's function or signal handler, spinning in schedule with every   *)
(* thread suspended, or back in main after the last thread_exit.  Of the   *)
(* saved contexts only what they resume is kept: whether env holds the    *)
(* function (buf_set), and whether handler_env holds the handler or, when *)
(* the function yielded with a signal pending, the function.              *)
(***************************************************************************)
EXTENDS Integers, FiniteSets

CONSTANTS
    Threads,        \* the struct threads thread_create can return
    Signals,        \* signal numbers: indices of sig_handler
    Handlers,       \* handler functions a thread may register
    NULL,           \* the null thread pointer
    NULL_FUNC       \* the null handler

ASSUME NULL \notin Threads /\ NULL_FUNC \notin Handlers

VARIABLES
    live,           \* threads on the run queue
    next,           \* t->next
    previous,       \* t->previous
    current,        \* current_thread
    at,             \* "main", "dispatch", "fn", "handler", "spin" or "done"
    suspended,      \* t->suspended
    signo,          \* t->signo, -1 when no signal is pending
    sig_handler,    \* t->sig_handler
    buf_set,        \* t->buf_set: t's function has started
    handler_buf_set,\* t->handler_buf_set
    handler_env     \* what longjmp(t->handler_env) resumes: "handler" or "fn"

vars == <<live, next, previous, current, at, suspended, signo, sig_handler,
          buf_set, handler_buf_set, handler_env>>

Running == at \in {"fn", "handler"}

(* A struct thread as thread_create (lines 19-40) leaves it: the fields    *)
(* are reset on the thread's first (and only) run-queue entry.             *)
Init ==
    /\ live = {} /\ current = NULL /\ at = "main"
    /\ next = [t \in Threads |-> NULL] /\ previous = [t \in Threads |-> NULL]
    /\ suspended = [t \in Threads |-> FALSE]
    /\ signo = [t \in Threads |-> -1]
    /\ sig_handler = [t \in Threads |-> [s \in Signals |-> NULL_FUNC]]
    /\ buf_set = [t \in Threads |-> FALSE]
    /\ handler_buf_set = [t \in Threads |-> FALSE]
    /\ handler_env = [t \in Threads |-> "handler"]

Fresh == {t \in Threads : next[t] = NULL}

-----------------------------------------------------------------------------
(* The first thread of the ring from t on (t included) that is not         *)
(* suspended, looking at most k threads far; NULL if there is none.        *)
(* susp gives the suspended flags.                                        *)
RECURSIVE Seek(_, _, _)
Seek(t, k, susp) == IF k = 0 THEN NULL
                    ELSE IF ~susp[t] THEN t ELSE Seek(next[t], k - 1, susp)

(* Mutant: schedule that keeps the current thread when it may run.         *)
ScheduleKeep(c, susp) == Seek(c, Cardinality(live), susp)

(* schedule (lines 112-122): current_thread moves to the next thread and   *)
(* on past suspended ones; NULL stands for the loop that never ends when  *)
(* every thread is suspended.                                              *)
Schedule(c, susp) == Seek(next[c], Cardinality(live), susp)

(* thread_add_runqueue (lines 43-57) of a thread fresh from thread_create: *)
(* the first one becomes current_thread alone on the ring; a later one is  *)
(* linked in before current_thread and takes its signal handlers.          *)
ThreadAddRunqueue(t) ==
    /\ t \in Fresh
    /\ live' = live \cup {t}
    /\ IF current = NULL
       THEN /\ current' = t
            /\ next' = [next EXCEPT ![t] = t]
            /\ previous' = [previous EXCEPT ![t] = t]
            /\ UNCHANGED sig_handler
       ELSE /\ sig_handler' = [sig_handler EXCEPT ![t] = sig_handler[current]]
            /\ next' = [next EXCEPT ![t] = current, ![previous[current]] = t]
            /\ previous' = [previous EXCEPT ![t] = previous[current], ![current] = t]
            /\ UNCHANGED current
    /\ UNCHANGED <<at, suspended, signo, buf_set, handler_buf_set, handler_env>>

(* main adds threads to the run queue before it starts threading.          *)
MainAdd == at = "main" /\ \E t \in Threads : ThreadAddRunqueue(t)

(* thread_start_threading (lines 148-152): dispatch the first thread.      *)
StartThreading ==
    /\ at = "main" /\ current # NULL
    /\ at' = "dispatch"
    /\ UNCHANGED <<live, next, previous, current, suspended, signo, sig_handler,
                   buf_set, handler_buf_set, handler_env>>

(* Mutant: thread_exit that does not relink the next thread's previous.   *)
ThreadExitKeepPrevious ==
    LET c == current IN
    /\ live' = live \ {c}
    /\ IF next[c] # c
       THEN /\ next' = [next EXCEPT ![previous[c]] = next[c]]
            /\ current' = next[c]
            /\ at' = "dispatch"
            /\ UNCHANGED previous
       ELSE at' = "done" /\ UNCHANGED <<next, previous, current>>
    /\ UNCHANGED <<suspended, signo, sig_handler, buf_set, handler_buf_set,
                   handler_env>>

(* thread_exit (lines 124-147) of the current thread: unlink it, make the  *)
(* thread after it current and dispatch that one; the last thread returns *)
(* to thread_start_threading.                                              *)
ThreadExit ==
    LET c == current IN
    /\ live' = live \ {c}
    /\ IF next[c] # c
       THEN /\ next' = [next EXCEPT ![previous[c]] = next[c]]
            /\ previous' = [previous EXCEPT ![next[c]] = previous[c]]
            /\ current' = next[c]
            /\ at' = "dispatch"
       ELSE at' = "done" /\ UNCHANGED <<next, previous, current>>
    /\ UNCHANGED <<suspended, signo, sig_handler, buf_set, handler_buf_set,
                   handler_env>>

(* dispatch (lines 73-109) of current_thread: a pending signal with a     *)
(* handler enters the handler the first time (handler_buf_set is never   *)
(* cleared) and later resumes whatever handler_env holds; with no handler *)
(* it exits the thread; with no signal the function starts or resumes.   *)
Dispatch ==
    LET c == current
        h == IF signo[c] = -1 THEN NULL_FUNC ELSE sig_handler[c][signo[c]]
    IN
    /\ at = "dispatch"
    /\ \/ /\ signo[c] # -1 /\ h # NULL_FUNC /\ ~handler_buf_set[c]
          /\ handler_buf_set' = [handler_buf_set EXCEPT ![c] = TRUE]
          /\ handler_env' = [handler_env EXCEPT ![c] = "handler"]
          /\ at' = "handler"
          /\ UNCHANGED <<live, next, previous, current, suspended, signo,
                         sig_handler, buf_set>>
       \/ /\ signo[c] # -1 /\ h # NULL_FUNC /\ handler_buf_set[c]
          /\ at' = handler_env[c]
          /\ UNCHANGED <<live, next, previous, current, suspended, signo,
                         sig_handler, buf_set, handler_buf_set, handler_env>>
       \/ /\ signo[c] # -1 /\ h = NULL_FUNC
          /\ ThreadExit
       \/ /\ signo[c] = -1
          /\ buf_set' = [buf_set EXCEPT ![c] = TRUE]
          /\ at' = "fn"
          /\ UNCHANGED <<live, next, previous, current, suspended, signo,
                         sig_handler, handler_buf_set, handler_env>>

(* thread_yield (lines 58-71) with the suspended flags susp: the context  *)
(* is saved in handler_env while a signal is pending, else in env; then   *)
(* schedule and dispatch.                                                  *)
Yield(susp) ==
    /\ handler_env' = IF signo[current] # -1
                      THEN [handler_env EXCEPT ![current] = at] ELSE handler_env
    /\ \E n \in {Schedule(current, susp)} :
         IF n = NULL THEN at' = "spin" /\ UNCHANGED current
         ELSE current' = n /\ at' = "dispatch"

ThreadYield ==
    /\ Running /\ Yield(suspended)
    /\ UNCHANGED <<live, next, previous, suspended, signo, sig_handler,
                   buf_set, handler_buf_set>>

(* thread_suspend (lines 166-173) of a thread on the ring; the current     *)
(* thread suspending itself yields.                                        *)
ThreadSuspend(t) ==
    /\ Running /\ t \in live
    /\ suspended' = [suspended EXCEPT ![t] = TRUE]
    /\ IF t = current THEN Yield(suspended')
       ELSE UNCHANGED <<current, at, handler_env>>
    /\ UNCHANGED <<live, next, previous, signo, sig_handler, buf_set,
                   handler_buf_set>>

(* thread_resume (lines 175-179).                                          *)
ThreadResume(t) ==
    /\ Running /\ t \in live
    /\ suspended' = [suspended EXCEPT ![t] = FALSE]
    /\ UNCHANGED <<live, next, previous, current, at, signo, sig_handler,
                   buf_set, handler_buf_set, handler_env>>

(* thread_kill (lines 159-164): the signal is only recorded.               *)
ThreadKill(t, s) ==
    /\ Running /\ t \in live
    /\ signo' = [signo EXCEPT ![t] = s]
    /\ UNCHANGED <<live, next, previous, current, at, suspended, sig_handler,
                   buf_set, handler_buf_set, handler_env>>

(* thread_register_handler (lines 155-157), for the current thread.        *)
ThreadRegisterHandler(s, h) ==
    /\ Running
    /\ sig_handler' = [sig_handler EXCEPT ![current][s] = h]
    /\ UNCHANGED <<live, next, previous, current, at, suspended, signo,
                   buf_set, handler_buf_set, handler_env>>

(* The running code returns: a handler's return clears signo and dispatch  *)
(* goes on to the function (lines 86-88, 98-107); a function's return     *)
(* exits the thread (line 107).                                            *)
Return ==
    \/ /\ at = "handler"
       /\ signo' = [signo EXCEPT ![current] = -1]
       /\ buf_set' = [buf_set EXCEPT ![current] = TRUE]
       /\ at' = "fn"
       /\ UNCHANGED <<live, next, previous, current, suspended, sig_handler,
                      handler_buf_set, handler_env>>
    \/ at = "fn" /\ ThreadExit

Next ==
    \/ MainAdd
    \/ StartThreading
    \/ Dispatch
    \/ Running /\ \E t \in Threads : ThreadAddRunqueue(t)
    \/ ThreadYield
    \/ \E t \in Threads : ThreadSuspend(t) \/ ThreadResume(t)
    \/ \E t \in Threads, s \in Signals : ThreadKill(t, s)
    \/ \E s \in Signals, h \in Handlers : ThreadRegisterHandler(s, h)
    \/ Return

(* Cooperative scheduling: the running code eventually yields, suspends   *)
(* itself or returns (the thread functions of mp1 loop around             *)
(* thread_yield), main eventually starts threading, and dispatch, being   *)
(* plain code, proceeds.                                                   *)
Fairness ==
    /\ WF_vars(StartThreading) /\ WF_vars(Dispatch)
    /\ WF_vars(ThreadYield \/ ThreadSuspend(current) \/ Return)

Spec == Init /\ [][Next]_vars /\ Fairness

-----------------------------------------------------------------------------
(* The threads met following next from t, k steps at most.                 *)
RECURSIVE Around(_, _)
Around(t, k) == IF k = 0 THEN {} ELSE {t} \cup Around(next[t], k - 1)

(* Through every thread_add_runqueue and thread_exit, the threads on the   *)
(* run queue form one circular list through next with previous its        *)
(* inverse, current_thread on it, and no exited thread reachable.          *)
RingIntact ==
    /\ at # "done" /\ current # NULL => current \in live
    /\ \A t \in live : next[t] \in live /\ previous[next[t]] = t
    /\ live # {} => Around(current, Cardinality(live)) = live

(* Under cooperative scheduling, schedule's round robin lets every thread  *)
(* on the run queue that is not suspended be dispatched, unless it is     *)
(* suspended or exits first.                                               *)
EveryRunnableRuns ==
    \A t \in Threads :
        (t \in live /\ ~suspended[t] /\ at # "main")
            ~> (current = t /\ at = "dispatch") \/ t \notin live \/ suspended[t]

=============================================================================
