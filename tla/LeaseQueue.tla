------------------------------ MODULE LeaseQueue ------------------------------
(***************************************************************************)
(* What the durable queue promises, without its tables, statements, keys   *)
(* and clocks: a job is leased to one worker at a time, a lease ends in    *)
(* completion or in the job's return, every charged return counts once     *)
(* towards the cap and the cap ends the job, only waiting jobs can be      *)
(* withdrawn, and an ended job never moves again.  A lease whose worker    *)
(* is lost is not taken over: that is the queue's documented limit.        *)
(***************************************************************************)
EXTENDS Naturals, Sequences

CONSTANTS
    Bodies,    \* what a job carries
    Workers,
    Cap        \* charged returns that end a job

VARIABLES
    jobs,      \* in the order of their submission
    lease      \* the job each worker has, 0 for none

lvars == <<jobs, lease>>

\* A job: [body, state, charges], where state is one of waiting, leased, done,
\* spent and withdrawn.
Init == jobs = << >> /\ lease = [w \in Workers |-> 0]

Submit(b) ==
    /\ jobs' = Append(jobs, [body |-> b, state |-> "waiting", charges |-> 0])
    /\ UNCHANGED lease

Take(w, i) ==
    /\ lease[w] = 0 /\ jobs[i].state = "waiting"
    /\ jobs' = [jobs EXCEPT ![i].state = "leased"]
    /\ lease' = [lease EXCEPT ![w] = i]

\* The end of worker w's lease leaves its job as j.
Release(w, j) ==
    /\ lease[w] # 0 /\ jobs[lease[w]].state = "leased"
    /\ jobs' = [jobs EXCEPT ![lease[w]] = j]
    /\ lease' = [lease EXCEPT ![w] = 0]

Complete(w) == Release(w, [jobs[lease[w]] EXCEPT !.state = "done"])
Return(w)   == Release(w, [jobs[lease[w]] EXCEPT !.state = "waiting"])
Charge(w)   ==
    Release(w, [jobs[lease[w]] EXCEPT
                    !.charges = @ + 1,
                    !.state = IF jobs[lease[w]].charges + 1 = Cap THEN "spent" ELSE "waiting"])

Withdraw ==
    /\ \E S \in SUBSET {i \in DOMAIN jobs : jobs[i].state = "waiting"} :
         jobs' = [i \in DOMAIN jobs |->
                     IF i \in S THEN [jobs[i] EXCEPT !.state = "withdrawn"] ELSE jobs[i]]
    /\ UNCHANGED lease

\* Workers are lost, and with them their leases.
Lose ==
    /\ \E W \in SUBSET Workers : lease' = [w \in Workers |-> IF w \in W THEN 0 ELSE lease[w]]
    /\ UNCHANGED jobs

Next ==
    \/ \E b \in Bodies : Submit(b)
    \/ \E w \in Workers, i \in DOMAIN jobs : Take(w, i)
    \/ \E w \in Workers : Complete(w) \/ Return(w) \/ Charge(w)
    \/ Withdraw \/ Lose

Spec == Init /\ [][Next]_lvars
=============================================================================
