------------------------------- MODULE Broker -------------------------------
(***************************************************************************)
(* The Celery broker and the pool of worker processes, as far as the task  *)
(* bodies in apps/worker/tasks.py can tell.                                *)
(*                                                                         *)
(* A message is put on the queue by the beat schedule or by an API         *)
(* endpoint.  A free worker process takes it off the queue and, because    *)
(* celery_app.py leaves task_acks_late at its default, acknowledges it     *)
(* before the task body runs: a worker that dies takes the message with    *)
(* it.  A task body that raises re-publishes the same message through      *)
(* self.retry until max_retries is used up.  The countdown of a retry and  *)
(* the period of a schedule are abstracted to "some time later".           *)
(*                                                                         *)
(* The module has no specification of its own: the modules that model a    *)
(* task body extend it and conjoin its actions with theirs.                *)
(***************************************************************************)
EXTENDS Naturals

CONSTANTS
  Workers,      \* worker processes (docker compose runs --concurrency=2)
  Msgs,         \* messages that may be outstanding at the same time
  MaxRetries,   \* max_retries of the task
  NoMsg         \* the job of an idle worker

ASSUME BrokerAssumption == MaxRetries \in Nat /\ NoMsg \notin Msgs

VARIABLES
  queue,        \* messages waiting in Redis
  tries,        \* tries[m]: retries of m so far (0 when m is not outstanding)
  job           \* job[w]: the message worker w is executing

brokerVars == <<queue, tries, job>>

BrokerTypeOK ==
  /\ queue \in SUBSET Msgs
  /\ tries \in [Msgs -> 0..MaxRetries]
  /\ job \in [Workers -> Msgs \cup {NoMsg}]

BrokerInit ==
  /\ queue = {}
  /\ tries = [m \in Msgs |-> 0]
  /\ job = [w \in Workers |-> NoMsg]

-----------------------------------------------------------------------------

Idle(w) == job[w] = NoMsg

\* The beat schedule fires, or an operator calls POST .../run.
Trigger(m) ==
  /\ m \notin queue
  /\ \A w \in Workers : job[w] # m
  /\ queue' = queue \cup {m}
  /\ UNCHANGED <<tries, job>>

\* A free worker takes m and acknowledges it before running the task body.
Take(w, m) ==
  /\ Idle(w)
  /\ m \in queue
  /\ queue' = queue \ {m}
  /\ job' = [job EXCEPT ![w] = m]
  /\ UNCHANGED tries

\* The message leaves the system: the task returned, was given up, or died.
Release(w) ==
  /\ queue' = queue
  /\ tries' = [tries EXCEPT ![job[w]] = 0]
  /\ job' = [job EXCEPT ![w] = NoMsg]

Succeed(w) == ~Idle(w) /\ Release(w)

\* Mutated form: one retry too many.
RetryOnceMore(w) ==
  /\ tries[job[w]] <= MaxRetries
  /\ queue' = queue \cup {job[w]}
  /\ tries' = [tries EXCEPT ![job[w]] = @ + 1]
  /\ job' = [job EXCEPT ![w] = NoMsg]

\* "except Exception as exc: raise self.retry(exc=exc, ...)".
Retry(w) ==
  /\ tries[job[w]] < MaxRetries
  /\ queue' = queue \cup {job[w]}
  /\ tries' = [tries EXCEPT ![job[w]] = @ + 1]
  /\ job' = [job EXCEPT ![w] = NoMsg]

GiveUp(w) == tries[job[w]] = MaxRetries /\ Release(w)

Raise(w) == ~Idle(w) /\ (Retry(w) \/ GiveUp(w))

\* The worker process dies in mid-task; the message was acknowledged already.
Die(w) == ~Idle(w) /\ Release(w)

\* No message is executed by two workers, or executed while still queued.
SingleHolder ==
  /\ \A w \in Workers : job[w] \notin queue
  /\ \A w, v \in Workers : job[w] = job[v] /\ ~Idle(w) => w = v
=============================================================================
