-------------------------------- MODULE Sched --------------------------------
(***************************************************************************)
(* The scheduling functions of src/mp3/xv6/user/threads_sched.c.  Each is  *)
(* one call that the thread library (threads.c, not part of this          *)
(* repository) makes with the run queue, the release queue and the time,  *)
(* and that returns the thread to run and the ticks it may run for.  The  *)
(* functions are operators over the queues; schedule_priority_rr and      *)
(* schedule_dm also move threads between and within the queues, and the  *)
(* operators return the queues they leave.                                 *)
(*                                                                         *)
(* A thread is a record of the struct thread fields the functions read; a *)
(* release-queue entry a record [thrd, release_time].  The result's       *)
(* thread is NULL when the code returns the list head args.run_queue.     *)
(*                                                                         *)
(* The state machine below is the caller's side: threads arrive on the    *)
(* run queue, periodic jobs wait on the release queue, threads leave, time *)
(* passes, and the compiled-in scheduler is called.  One run covers every *)
(* scheduler: which one is compiled in is chosen in Init and kept.        *)
(***************************************************************************)
EXTENDS Integers, Sequences, SequencesExt

CONSTANTS
    IDs,            \* thread IDs
    NULL,           \* no thread: the result is the list head itself
    Bursts,         \* processing_time of a new thread
    Prios,          \* priority of a non-real-time thread
    Deadlines,      \* relative deadline of a real-time thread
    Quantum,        \* args.time_quantum
    MaxTime,        \* the last tick the caller reaches
    MaxQueue        \* threads on the two queues at most

INT_MAX == 2147483647       \* __INT_MAX__

(* list_for_each_entry over a queue, folding the loop body.                *)
Scan(body(_, _), init, q) == FoldLeft(body, init, q)

-----------------------------------------------------------------------------
(* schedule_default (lines 11-30): the thread with the smallest ID, run    *)
(* for its remaining time.                                                 *)
DefaultStep(sel, th) == IF sel = NULL \/ th.ID < sel.ID THEN th ELSE sel

ScheduleDefault(rq) ==
    LET sel == Scan(DefaultStep, NULL, rq)
    IN IF sel # NULL THEN [thread |-> sel, alloc |-> sel.remaining_time]
                     ELSE [thread |-> NULL, alloc |-> 1]

(* Mutant: equal response ratios keep the thread seen first.               *)
HrrnBetterNoTie(th, sel, now) ==
    LET w1 == now - th.arrival_time     b1 == th.processing_time
        w2 == now - sel.arrival_time    b2 == sel.processing_time
    IN (w1 + b1) * b2 > (w2 + b2) * b1

(* Lines 57-64: th has a higher response ratio (w + b) / b than sel, by    *)
(* cross-multiplication, or the same ratio and a smaller ID.               *)
HrrnBetter(th, sel, now) ==
    LET w1 == now - th.arrival_time     b1 == th.processing_time
        w2 == now - sel.arrival_time    b2 == sel.processing_time
    IN \/ (w1 + b1) * b2 > (w2 + b2) * b1
       \/ (w1 + b1) * b2 = (w2 + b2) * b1 /\ th.ID < sel.ID

(* schedule_hrrn (lines 37-80): real-time threads and threads with no      *)
(* burst are skipped; the best of the rest runs for its remaining time.   *)
ScheduleHrrn(rq, now) ==
    LET step(sel, th) ==
            IF th.is_real_time \/ th.processing_time <= 0 THEN sel
            ELSE IF sel = NULL THEN th
            ELSE IF HrrnBetter(th, sel, now) THEN th ELSE sel
        sel == Scan(step, NULL, rq)
    IN IF sel # NULL THEN [thread |-> sel, alloc |-> sel.remaining_time]
                     ELSE [thread |-> NULL, alloc |-> 1]

(* schedule_priority_rr, first pass (lines 88-104): the smallest priority  *)
(* among non-real-time threads, starting from 5, and how many have it.    *)
PrioGroupStep(g, th) ==
    IF th.is_real_time THEN g
    ELSE IF th.priority < g.highest THEN [highest |-> th.priority, count |-> 1]
    ELSE IF th.priority = g.highest THEN [g EXCEPT !.count = @ + 1]
    ELSE g

(* Mutant: the selected thread is rotated even when it will finish.        *)
PriorityRRAlwaysRotate(rq, quantum) ==
    LET g == Scan(PrioGroupStep, [highest |-> 5, count |-> 0], rq)
        i == SelectInSeq(rq, LAMBDA th : ~th.is_real_time /\ th.priority = g.highest)
    IN IF i = 0 THEN [thread |-> NULL, alloc |-> 1, rq |-> rq]
       ELSE IF g.count = 1
            THEN [thread |-> rq[i], alloc |-> rq[i].remaining_time, rq |-> rq]
            ELSE [thread |-> rq[i], alloc |-> quantum,
                  rq |-> Append(RemoveAt(rq, i), rq[i])]

(* schedule_priority_rr (lines 85-139): the first thread of that priority  *)
(* in queue order (second pass, lines 107-114) runs to completion if it is *)
(* alone in its group or needs no more than a quantum; otherwise it runs a *)
(* quantum and moves to the tail of the run queue (lines 127-128).        *)
SchedulePriorityRR(rq, quantum) ==
    LET g == Scan(PrioGroupStep, [highest |-> 5, count |-> 0], rq)
        i == SelectInSeq(rq, LAMBDA th : ~th.is_real_time /\ th.priority = g.highest)
    IN IF i = 0 THEN [thread |-> NULL, alloc |-> 1, rq |-> rq]
       ELSE IF g.count = 1 \/ rq[i].remaining_time <= quantum
            THEN [thread |-> rq[i], alloc |-> rq[i].remaining_time, rq |-> rq]
            ELSE [thread |-> rq[i], alloc |-> quantum,
                  rq |-> Append(RemoveAt(rq, i), rq[i])]

(* __check_deadline_miss (lines 145-158): of the threads whose current     *)
(* deadline has come, the one with the smallest ID.                        *)
CheckDeadlineMiss(rq, now) ==
    LET step(m, th) ==
            IF th.current_deadline <= now /\ (m = NULL \/ th.ID < m.ID) THEN th ELSE m
    IN Scan(step, NULL, rq)

(* Mutant: the comparison ignores the ID when the deadlines are equal.     *)
DmThreadCmpNoId(a, b) == a.deadline - b.deadline

(* __dm_thread_cmp (lines 163-169): by relative deadline, then by ID.      *)
DmThreadCmp(a, b) == IF a.deadline # b.deadline THEN a.deadline - b.deadline ELSE a.ID - b.ID

(* The earliest release time of a release queue, INT_MAX when it is empty. *)
EarliestRelease(relq) ==
    Scan(LAMBDA m, e : IF e.release_time < m THEN e.release_time ELSE m, INT_MAX, relq)

(* Mutant: the allocation is not cut at the next release.                  *)
DmAllocNoPreempt(sel, relq, now) ==
    LET safe == IF sel.current_deadline - now < sel.remaining_time
                THEN sel.current_deadline - now ELSE sel.remaining_time
    IN IF safe <= 0 THEN 0 ELSE safe

(* Lines 228-248: the selected thread's remaining time, cut at its current *)
(* deadline and at the next release; 0 if that is not positive.           *)
DmAlloc(sel, relq, now) ==
    LET a1 == sel.remaining_time
        a2 == IF sel.current_deadline - now < a1 THEN sel.current_deadline - now ELSE a1
        a3 == IF EarliestRelease(relq) - now < a2 THEN EarliestRelease(relq) - now ELSE a2
    IN IF a3 <= 0 THEN 0 ELSE a3

(* schedule_dm (lines 171-251).  Entries whose release time has come move  *)
(* to the run queue tail in release-queue order (lines 178-187); a thread *)
(* past its current deadline is returned with 0 ticks; an empty run queue *)
(* waits for the closest release; otherwise the real-time thread first by *)
(* __dm_thread_cmp runs for DmAlloc ticks, and with only non-real-time     *)
(* threads the head is returned with 0 ticks.                              *)
ScheduleDm(rq, relq, now) ==
    LET due  == SelectSeq(relq, LAMBDA e : e.release_time <= now)
        pend == SelectSeq(relq, LAMBDA e : e.release_time > now)
        rq1  == rq \o [k \in 1 .. Len(due) |-> due[k].thrd]
        missed == CheckDeadlineMiss(rq1, now)
        step(sel, th) ==
            IF ~th.is_real_time THEN sel
            ELSE IF sel = NULL \/ DmThreadCmp(th, sel) < 0 THEN th ELSE sel
        sel == Scan(step, NULL, rq1)
        res(t, a) == [thread |-> t, alloc |-> a, rq |-> rq1, relq |-> pend]
    IN IF missed # NULL THEN res(missed, 0)
       ELSE IF rq1 = <<>> THEN res(NULL, EarliestRelease(pend) - now)
       ELSE IF sel = NULL THEN res(NULL, 0)
       ELSE res(sel, DmAlloc(sel, pend, now))

-----------------------------------------------------------------------------
(* The caller: threads.c of mp3, which is not in this repository.  Only    *)
(* what the functions read of it is kept: the queues and the time.         *)
VARIABLES
    policy,     \* the scheduler compiled in: THREAD_SCHEDULER_...
    now,        \* args.current_time
    rq,         \* args.run_queue, head first
    relq,       \* args.release_queue
    res         \* the last call's result, NoCall after any other step

vars == <<policy, now, rq, relq, res>>

NoCall == [thread |-> NULL, alloc |-> -1]

Policies == {"default", "hrrn", "priority_rr", "dm"}

Present == {th.ID : th \in ToSet(rq)} \cup {e.thrd.ID : e \in ToSet(relq)}

(* A thread whose job arrives at time t: its whole burst remains and its   *)
(* current deadline is t plus its relative deadline.                       *)
Job(id, rt, b, p, d, t) ==
    [ID |-> id, is_real_time |-> rt, arrival_time |-> t, processing_time |-> b,
     remaining_time |-> b, priority |-> p, deadline |-> d, current_deadline |-> t + d]

(* The fields a scheduler does not read are held at one value.             *)
PriosOf(p) == IF p = "priority_rr" THEN Prios ELSE {Min(Prios)}
DeadlinesOf(p) == IF p = "dm" THEN Deadlines ELSE {Min(Deadlines)}

Init ==
    /\ policy \in Policies
    /\ now = 0 /\ rq = <<>> /\ relq = <<>> /\ res = NoCall

(* A thread joins the run queue tail.                                      *)
Arrive ==
    /\ Len(rq) + Len(relq) < MaxQueue
    /\ \E id \in IDs \ Present, rt \in BOOLEAN, b \in Bursts,
          p \in PriosOf(policy), d \in DeadlinesOf(policy) :
         rq' = Append(rq, Job(id, rt, b, p, d, now))
    /\ res' = NoCall
    /\ UNCHANGED <<policy, now, relq>>

(* A periodic real-time job waits on the release queue for a later tick.   *)
Defer ==
    /\ policy = "dm" /\ Len(rq) + Len(relq) < MaxQueue
    /\ \E id \in IDs \ Present, b \in Bursts, d \in Deadlines, t \in now + 1 .. MaxTime :
         relq' = Append(relq, [thrd |-> Job(id, TRUE, b, Min(Prios), d, t), release_time |-> t])
    /\ res' = NoCall
    /\ UNCHANGED <<policy, now, rq>>

(* A thread leaves the run queue: it finished, or was scheduled to a miss. *)
Leave ==
    /\ \E i \in 1 .. Len(rq) : rq' = RemoveAt(rq, i)
    /\ res' = NoCall
    /\ UNCHANGED <<policy, now, relq>>

Tick ==
    /\ now < MaxTime /\ now' = now + 1
    /\ res' = NoCall
    /\ UNCHANGED <<policy, rq, relq>>

CallDefault ==
    /\ policy = "default" /\ res' = ScheduleDefault(rq)
    /\ UNCHANGED <<policy, now, rq, relq>>

CallHrrn ==
    /\ policy = "hrrn" /\ res' = ScheduleHrrn(rq, now)
    /\ UNCHANGED <<policy, now, rq, relq>>

CallPriorityRR ==
    /\ policy = "priority_rr"
    /\ \E r \in {SchedulePriorityRR(rq, Quantum)} :
         res' = [thread |-> r.thread, alloc |-> r.alloc] /\ rq' = r.rq
    /\ UNCHANGED <<policy, now, relq>>

CallDm ==
    /\ policy = "dm"
    /\ \E r \in {ScheduleDm(rq, relq, now)} :
         /\ res' = [thread |-> r.thread, alloc |-> r.alloc]
         /\ rq' = r.rq /\ relq' = r.relq
    /\ UNCHANGED <<policy, now>>

Next ==
    \/ Arrive \/ Defer \/ Leave \/ Tick
    \/ CallDefault \/ CallHrrn \/ CallPriorityRR \/ CallDm

Spec == Init /\ [][Next]_vars

-----------------------------------------------------------------------------
(* A call step: every other step resets res.                               *)
Called == res' # NoCall

Threads(q) == ToSet(q)

(* Response ratios compared exactly, as (w + b) / b at the current time.   *)
RatioLess(a, b) ==
    (now - a.arrival_time + a.processing_time) * b.processing_time
        < (now - b.arrival_time + b.processing_time) * a.processing_time

(* schedule_hrrn picks, of the non-real-time threads on the run queue, one *)
(* whose response ratio no other thread exceeds, the smallest ID among     *)
(* those, and lets it run for all its remaining time; with none it returns *)
(* the list head for one tick.  The code gets there by a pairwise scan in  *)
(* queue order, which is right only if its comparison is a strict order.   *)
HrrnHighestResponseRatio ==
    [][policy = "hrrn" /\ Called =>
        LET C == {th \in Threads(rq) : ~th.is_real_time /\ th.processing_time > 0}
        IN IF C = {} THEN res' = [thread |-> NULL, alloc |-> 1]
           ELSE /\ res'.thread \in C
                /\ \A u \in C \ {res'.thread} :
                      /\ ~RatioLess(res'.thread, u)
                      /\ ~RatioLess(u, res'.thread) => res'.thread.ID < u.ID
                /\ res'.alloc = res'.thread.remaining_time]_vars

(* schedule_priority_rr serves the best (smallest) priority group of the   *)
(* non-real-time threads in round robin: it picks the group's thread       *)
(* nearest the head; a thread that will need the CPU again after its       *)
(* quantum goes behind every other thread, and otherwise the queue order   *)
(* is kept and the thread runs to its end.  A real-time thread is never    *)
(* picked.                                                                 *)
PriorityRRRoundRobin ==
    [][policy = "priority_rr" /\ Called =>
        LET C == {th \in Threads(rq) : ~th.is_real_time}
            G == {th \in C : \A u \in C : th.priority <= u.priority}
        IN IF C = {} THEN res' = [thread |-> NULL, alloc |-> 1] /\ rq' = rq
           ELSE LET i == CHOOSE i \in 1 .. Len(rq) :
                            rq[i] \in G /\ \A j \in 1 .. i - 1 : rq[j] \notin G
                IN /\ res'.thread = rq[i]
                   /\ IF Cardinality(G) > 1 /\ rq[i].remaining_time > Quantum
                      THEN res'.alloc = Quantum /\ rq' = Remove(rq, rq[i]) \o <<rq[i]>>
                      ELSE res'.alloc = rq[i].remaining_time /\ rq' = rq]_vars

(* schedule_dm releases exactly the due jobs onto the run queue and keeps  *)
(* the rest waiting in order; it returns a thread past its current         *)
(* deadline (the smallest ID) with no time, else the real-time thread of   *)
(* the shortest relative deadline (then smallest ID), for as long as it    *)
(* can run without passing its current deadline, the next release or its  *)
(* remaining time; with an empty run queue it sleeps until the next        *)
(* release.                                                                *)
DmSafeAllocation ==
    [][policy = "dm" /\ Called =>
        LET Due  == {e \in ToSet(relq) : e.release_time <= now}
            Miss == {th \in Threads(rq') : th.current_deadline <= now}
            RT   == {th \in Threads(rq') : th.is_real_time}
            Rel  == {e.release_time : e \in ToSet(relq')} \cup {INT_MAX}
            t    == res'.thread
        IN /\ IsPrefix(rq, rq')
           /\ Threads(rq') = Threads(rq) \cup {e.thrd : e \in Due}
           /\ relq' = SelectSeq(relq, LAMBDA e : e.release_time > now)
           /\ CASE Miss # {} -> t \in Miss /\ \A u \in Miss : t.ID <= u.ID
                                /\ res'.alloc = 0
                [] rq' = <<>> -> t = NULL /\ res'.alloc = Min(Rel) - now
                [] RT = {}    -> t = NULL /\ res'.alloc = 0
                [] OTHER ->
                     /\ t \in RT
                     /\ \A u \in RT : \/ t.deadline < u.deadline
                                      \/ t.deadline = u.deadline /\ t.ID <= u.ID
                     /\ res'.alloc = Max({0, Min({t.remaining_time,
                                                 t.current_deadline - now,
                                                 Min(Rel) - now})})]_vars

(* schedule_default, schedule_hrrn and schedule_dm choose the same thread  *)
(* and time whatever the order of the run queue: each scan breaks every    *)
(* tie by thread ID, so the list order the library happens to keep cannot  *)
(* decide who runs.                                                        *)
SelectionIgnoresQueueOrder ==
    \A q \in SetToSeqs(Threads(rq)) :
        CASE policy = "default" -> ScheduleDefault(q) = ScheduleDefault(rq)
          [] policy = "hrrn"    -> ScheduleHrrn(q, now) = ScheduleHrrn(rq, now)
          [] policy = "dm"      ->
               LET a == ScheduleDm(q, relq, now)  b == ScheduleDm(rq, relq, now)
               IN a.thread = b.thread /\ a.alloc = b.alloc
          [] OTHER -> TRUE

=============================================================================
