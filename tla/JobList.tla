------------------------------- MODULE JobList -------------------------------
(***************************************************************************)
(* The lists of jobs of GatewayScheduler (app/asr_gateway_scheduler.py):   *)
(* what its comprehensions, its queue.remove loops and its sums of         *)
(* sample_count make of a queue or a batch.  A job is a record with the    *)
(* absolute sample range start .. end among its fields.                    *)
(***************************************************************************)
EXTENDS Integers, Sequences, Functions

\* InferenceJob.sample_count
Size(j) == j.end - j.start

\* The jobs of q at the positions P, in their order.
Only(q, P) ==
    LET prefix[i \in 0 .. Len(q)] ==
          IF i = 0 THEN <<>>
          ELSE IF i \in P THEN Append(prefix[i - 1], q[i]) ELSE prefix[i - 1]
    IN  prefix[Len(q)]

\* sum(job.sample_count for job in q)
SumSizes(q) ==
    LET sum[i \in 0 .. Len(q)] == IF i = 0 THEN 0 ELSE sum[i - 1] + Size(q[i])
    IN  sum[Len(q)]
=============================================================================
