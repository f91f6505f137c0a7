# A TLA+ verification of Orion Queue

Orion Queue is a distributed task queue: an HTTP API accepts jobs, worker
processes take them from Redis and run them, failed jobs are retried with a
delay or given up, and two layers of recovery bring back what crashed. This
directory holds a specification of that system in TLA+, the TLC configurations
that check it on small instances, and proofs about it that TLAPS checks for
instances of every size.

`file.py:line` refers to the program; everything else to a module here.

## 1. The system

### Components

| Component | State | Operations | Talks to |
|---|---|---|---|
| `priority_queue.py` | four Redis keys: the sorted set of waiting entries; for each leased job its deadline, its payload and its score | `push`, `pop`, `take` (acknowledge and pop), `ack`, `requeue`, `renew`, `reap_expired`, `clear`; each is one Redis command or Lua script | called by everybody below |
| `worker.py`, `retry_manager.py` | per thread: where it is, the Job object in hand, the acknowledgement it owes, `_running` | the loop: take, save, run, decide, record, save, acknowledge with the next take | queue, delayed queue, dead letters, job records |
| `worker_pool.py` | the list of workers, the monitor thread | `check_once` (find a stalled worker, requeue its job, replace it), `renew_leases`, `scale_up`, `scale_down` | the queue; writes to the Job object and the flags of the worker threads |
| `worker_main.py` | one pool | start, drain on SIGTERM, exit | the pool |
| `delayed_queue.py` | a Redis sorted set of retries; the poll thread | `add`; `poll`: read what is due, push each to the queue, remove it | queue |
| `dead_letter_queue.py` | a Redis list | `add` | - |
| `job_store.py` | one Redis key per job with a TTL | `save`, which swallows every exception | - |
| `lease_reaper.py` | what a pass has taken back so far | `reap_once`, in batches, for ever | queue |
| `scheduler_main.py` | the poll thread and the reaper | start, exit | - |
| `api.py` | - | `/submit`: save the record, then push. The other endpoints read | records, queue |
| `config.py` | - | `redis_client`: one attempt with a timeout; the durations | - |
| `metrics.py` | counters, two of them about leases | counting | - |
| `probes.py`, `tasks.py`, `task_registry.py`, `benchmark.py`, `main.py`, `api_main.py` | a registry | probing, wiring | - |

Everything is shared through Redis, except for what the monitor and a worker
thread of one process share: the Job object in hand (`worker.current_job`), the
`_running` flag and the list of workers, none of them under a lock.

### What is hard

* A worker can die at any point between taking a job and acknowledging it. The
  lease and the reaper are there for that.
* A Redis call can fail without having been applied, or be applied and its
  answer lost; both raise the same exception.
* The acknowledgement of a job travels with the *next* `take()`. It can be
  arbitrarily late, and names the job only, not the lease.
* The reaper, the monitor, the thread found stalled, and the next worker all
  act on the same job; the monitor and the thread on the same Python object.
* `poll` and `handle_failure` move a job between keys in several steps.
* A process that drains still has its monitor.
* Leases, renewals, heartbeats and the reaper run on different periods, and each
  of them can be late or fail.
* The order of jobs is kept in a double, which rounds.
* Liveness: nothing may stay behind in Redis for ever, whoever died.

`PROJECT.json` lists these hazards with their lines and the properties that
cover each.

### What makes it correct

* *Queue.* A pushed job is waiting or leased until somebody acknowledges it;
  the three keys of a lease never disagree; renewals create no lease; a job
  keeps its place whatever happens to it.
* *Worker.* It acknowledges only what is recorded; a failure uses up exactly one
  attempt, and only a failure does; what it says of the end of a job is true.
* *Pool.* Replacing a thread that is still running loses and corrupts nothing.
* *Delayed queue.* A retry is at all times on one of the two queues.
* *API.* A submission never overwrites a later state of the job.
* *Time.* A running task keeps its lease; a crashed one is back, and a wedged
  thread replaced, within the time the documents give.
* *Together.* An accepted job is never lost, and ends done or dead.

## 2. The modules

| Module | Models | Uses |
|---|---|---|
| `AtLeastOnceQueue` | the promise of the queue, without Redis: what is owed, what is in hand, and which acknowledgements are on their way | |
| `JobLife` | the life of a job, without queues and threads: submitted, tried, reported, done or buried | |
| `PriorityQueue` | `priority_queue.py`: the four keys and every script | |
| `QueueClient` | `QueueSpec`, the queue under a client that calls anything at any time; it keeps what acknowledgements it has sent | extends `PriorityQueue`, `AtLeastOnceQueue` through INSTANCE |
| `JobRecords` | delayed queue, dead letters, status records; what may become of a Redis call (`Replies`) | extends `PriorityQueue` |
| `Worker` | a worker thread with `RetryManager.handle_failure` | extends `JobRecords` |
| `WorkerPool` | the monitor, the renewals, scaling, drain, exit and crash of a process | extends `Worker` |
| `OrionQueue` | the API, the poll threads, the reaper, the clock, and the whole system | extends `WorkerPool`, `JobLife` and `AtLeastOnceQueue` through INSTANCE |
| `PriorityOrder` | `score`: a priority and a time in one double | extends `QueueClient` |
| `LeaseTiming` | the same queue against the clock: renewals, heartbeats, the batch loop of `reap_once`, the two lease counters | extends `PriorityQueue` |
| `MCPriorityQueue`, `MCOrionQueue`, `MCLeaseTiming` | the values of the constants for TLC | |
| `PriorityQueueProofs` (lemmas about the scripts), `QueueClientProofs`, `OrionQueueProofs`, `OutcomeProofs`, `CustodyProofs`, `CopiesProofs`, `JobLifeProofs`, `LeaseTimingProofs` | the theorems of section 5 | |

`OrionQueue` and `LeaseTiming` are two views of one program over one queue.
`OrionQueue` has every step of every thread and leaves time open: what it shows
holds however long anything takes. `LeaseTiming` has the durations, and of the
threads only what takes time.

Operators whose comment starts with "Mutant of" are deliberate bugs. No
specification uses them; each one was put in the place of the definition it
names, and TLC then found the property listed with it in `PROJECT.json`
violated. They show that the properties can fail.

### How the state corresponds to the program

* An **entry** is a Job, in memory or as JSON. Of its ten fields, those that
  change after submission are kept: `attempt`, `status`, and `next_retry_time`,
  which appears as `stamp`, the ordinal of the failure that caused the retry (two
  retries of a job never share a `next_retry_time`, which is what makes their
  JSON different members of the delayed queue). The name, payload, priority and
  time of submission are determined by `id`. `error` changes as well, with
  each failure; no decision reads it. A failure that leads to a retry has a stamp of
  its own, so a different `error` there is a different entry already. The failure that
  uses up the attempts has none: two copies of a job that differ in the text of
  that last failure only are one entry here, as they are in the program when the
  task fails twice in the same way.
* `queue` is the sorted set, a set of members with scores. `ZADD` of a member
  that is there already replaces its score; two copies of a job that differ in
  attempt, status or stamp are two members, as they are in Redis.
* `processing[j]` is the deadline of a lease as the number of ticks left, `Nil`
  when there is none. A tick ages all leases alike, and 0 means expired.
* `Score` is any function from jobs to integers. `PriorityOrder` computes it: the
  exact score in units of submit time (`Exact`), rounded to a multiple of `Grid`,
  the distance between doubles of that size (`Nearest`).
* `Unreadable` are entries that `Job.from_dict` rejects, `Opaque` those that
  carry no id `cjson` could lease them under.
* `pc[w]` is where the thread of `w` is between two Redis calls. A step of a
  thread is one Redis call or one task execution, with the local statements
  around it; local statements of one thread that others could observe (the
  status of the Job object, `current_job`) are changed in the same steps as in
  the program.
* `monitor[p]` is where `check_once` is; `object` is the Job object the monitor
  keeps when the thread lets go of it, so that the two go on sharing it exactly
  as long as the program does.
* `scheduler[s]` is where `poll` is; `alive` turns false when an exception
  leaves the loop, which has no handler.
* `owner`, `stolen`, `done` and `failures` are history: who each lease was
  delivered to, which jobs lost a lease to an acknowledgement by someone else,
  which tasks succeeded, and how often each failed. Only properties read them;
  `failures` also numbers the stamps and is bounded by `MaxFailures`.

In `LeaseTiming`:

* `hand[w]` and `owes[w]` are `current_job` and `pending[0]`; `rest[w]` is what is
  left of the sleep after a failed `take()`.
* `beat[w]` is the age of `last_heartbeat`. Between jobs it is written at every
  round, so it is 0 there.
* `monitor[p]` has the time to the next pass (negative when the pass is late),
  the time since `last_renew`, and whether the last renewal failed; `reaper[q]`
  has the time to the next pass and `total`.
* `replaced[p]` are the threads `check_once` has taken out of the list and that
  have not come back.
* `Second` is the passing of time. It waits for what is due now (`Urgent`): a
  task that has run for `MaxTask`, a thread that is about to call `take()`, a
  reaper whose sleep is over, a monitor as late as `MaxLate`.
* `excused`, `unheld`, `expiries`, `takenBack`, `unanswered` and `setback` are
  history. `excused` is set by what `LeasesAreKept` cannot hold through: a second
  missed renewal of a process in a row, a second failed `take()` in a row of a
  thread that owes an acknowledgement, and the return of a replaced thread, whose
  acknowledgement takes the lease of its successor. All three stay possible, any
  number of times; the property then claims nothing.

In `QueueClient` and `OrionQueue`, `asked` are the acknowledgements on their way.
A caller of `QueueClient` sends one (`Send`) before Redis applies it or the call
fails (`Answer`); in `OrionQueue` they are the `pending` jobs of the threads whose next
call is `take()` or the `ack()` of `_release` (`Asked`). They are what distinguishes
an acknowledgement from everything else that ends a lease.

### What is abstracted

* *Heartbeats in `OrionQueue`.* `last_heartbeat` is written between jobs and after
  failed calls only, so it is stale whenever a task takes longer than ten seconds
  or the process is paused. The monitor may therefore find any thread stalled at
  any time.
* *Time in `LeaseTiming`.* A Redis call takes none, a failed one the `Backoff`. The
  reaper is never late, and all processes have one clock. A `requeue` of the monitor that is applied and
  not answered, retries, drains and scaling are left to `OrionQueue`: a job of
  this model ends when its outcome is recorded.
* *Retry delays.* Any delayed entry may be due at any time.
* *Replies.* `"ok"`, `"refused"` (raised, not applied) and `"lost"` (raised,
  applied). The reaper needs none: its thread survives every exception, a
  refused pass is no step, and a lost answer makes no difference to it. The
  same holds for the renewals, which the monitor sends again and again.
* *Renewals.* Reading the current jobs and the renewal call are one step. A
  renewal is `ZADD XX` of ids, and one that arrives later renews leases
  the pool no longer has a hand in; the general client of `QueueSpec` does that.
* *The reaper's loop in `OrionQueue`.* One `reap_expired` call is a step, repeated
  for ever; `LeaseTiming` has the loop.
* *Finding a stalled worker.* `FindStalled` reads `current_job` and writes its status
  in one step; a thread that clears `current_job` in between changes nothing that
  is read later, so the outcomes are those of its being found a moment before or
  after.
* *Exit.* A draining process may end at any point, whether or not its threads
  have been joined: more behaviours than the program has, among them those where
  `SHUTDOWN_GRACE_SECONDS` runs out.
* *Rounding.* A score is rounded once; the program also rounds the quotient, to a
  grid finer by some nine digits.

## 3. What is checked

Passing runs:

| Run | Instance | Shows |
|---|---|---|
| `queue_any_client` | 3 jobs, two of them with the same score, and an entry without an id; leases of 2 ticks, batches of 1 | `LeaseKeysAgree`, `KeepsItsPlace`, `LeasesComeFromThePop`, `PopsInOrder` and the refinement `KeepsThePromise` (nothing but an acknowledgement that was sent, or `clear()`, settles a job), for *every* sequence of calls |
| `two_pods` | 1 job, 2 processes, 2 failures, 1 disruption, lapsing leases | `LostOnlyByStaleAck`, `AckedOnlyWhenRecorded`, `BurialsAreEarned`, `EndsReallyHappened`, `SubmitOverwritesNothing`, and two refinements: the system implements `JobLife` (`LivesAsPromised`) and `AtLeastOnceQueue` (`KeepsThePromise`) |
| `monitor` | 1 job, 1 process with a thread and a spare, 1 failure, 1 disruption, lapsing leases | the same custody, types, and `OneCopy` (recovery puts no second copy in circulation) while the monitor acts at any moment on a job whose thread goes on |
| `calm` | 2 jobs, 2 processes, 2 failures each, no lapses, no disruptions, fair | `EachAttemptRunsOnce`, `EveryJobSettles`, `QueueDrains` |
| `recovery` | 1 job, 3 workers in 2 processes, 2 disruptions, lapsing leases, fair | `EveryJobSettles`: whatever two disruptions hit, an accepted job comes back and is done while a thread is left to run it |
| `lease_timing` | 2 jobs, 2 processes, 1 reaper with batches of 1, leases of 6 ticks renewed every 2, tasks of up to 6, 2 faults | `LeasesAreKept`, `CrashedJobsComeBack`, `WedgedThreadsAreReplaced`, and what the two lease counters count: `ExpiriesAreCounted`, `LateAcksAreExplained` |

A *disruption* is a call that fails or loses its answer, a task that ends its
thread, a SIGTERM, a scale-down, or the death of a worker process or scheduler;
`MaxDisruptions` bounds how many happen in one behaviour. A *fault* of
`lease_timing` is a crash, a hanging task, an outcome that cannot be recorded, or
a call that fails or loses its answer; `MaxFaults` bounds them.

### Why these bounds

* **Jobs.** Jobs meet only in the queue's order and in the `take()` that
  acknowledges one and leases another. The latter needs two, which
  `queue_any_client`, `calm` and `lease_timing` have. All custody properties speak of one job,
  and its hazards come from several threads holding copies of it.
* **Workers.** The interesting thing is a thread with an outdated copy while
  another has the job; two threads do that, in two processes or, with the
  monitor, in one.
  `recovery` needs a third: each of its two disruptions may end a thread for
  good, and only the monitor, of which no fairness is assumed, replaces one. With
  two threads and two disruptions TLC finds that nobody is left.
* **Failures.** `max_retries` is 2 in the passing runs, so two failures reach the
  dead letter queue and one retry passes through the delayed queue. `monitor`
  has one failure, and with it a second attempt.
* **Leases.** One tick makes a lease that lapses at any moment; `queue_any_client`
  uses two so that a renewal differs from a fresh lease.
* **Symmetry.** The two processes of `two_pods` with a worker each are alike;
  `PodsAlike` exchanges them together with their workers, and every property of
  that run treats them alike. Runs with liveness use no symmetry.
* **Disruptions.** The safety of custody depends on a disruption at each single
  point, which one gives; the proofs of section 5 remove every one of these bounds.

* **Durations.** A lease of 6 ticks and renewals every 2 are the program's thirds,
  with a pass of the monitor every tick and none late: the tightest lease that
  satisfies `DurationsFit`. A task can take as long as a lease, so that only renewals
  keep it. (With the program's defaults they hardly matter: a task that is not
  replaced after ten seconds never comes near the end of a lease of thirty.) Two
  faults are what it takes for a failed pass of the
  reaper to meet a crash, or for a late acknowledgement to be sent twice.
* **Scores.** `Grid` is 4 against a `Scale` of 16, so that two of three jobs share
  a score and may leave in either order, and the third may not.

TLC explores 75 thousand states for `queue_any_client`, between 46 thousand
(`calm`) and 1.9 million (`monitor`) for the whole system, and 1.7 million for
`lease_timing`.

### Fairness

`FairSpec` assumes weak fairness of each worker thread (the operating system runs
it, its tasks return), of the exit of a process that drains (the `join` is
bounded by `SHUTDOWN_GRACE_SECONDS`), of each poll thread that is alive, of the
reaper, and of the clock. It assumes nothing of submitters, of the
monitor, of renewals, of scaling, nor that a poll thread that has died is ever
started again. A drain, scale-down or failed call is never assumed to happen.
`MaxFailures` ends the failures of a job; a job then succeeds, or it has used up
its attempts.

`EveryJobSettles` is checked without failures where leases lapse (`recovery`) and
without lapses where tasks fail (`calm`): with both, the stale acknowledgement of
section 4 and a dead poll thread refute it.

## 4. Where the program differs from what it says

Each of these runs checks one sentence of a comment or document, and TLC finds a
behaviour that contradicts it.

| Run | Sentence | What happens |
|---|---|---|
| `stale_ack_loses_job` | "Duplicated at worst, never lost" (`worker_main.py:105`) | A worker records a failure and is slow to acknowledge. The retry is promoted and leased again; the late acknowledgement removes that lease, since it names only the job. The answer to the second `take` is lost (or that worker dies), and the job is in no key. The script returns 1 to the late worker, as if it "still held the lease" (`priority_queue.py:76-77`). `LostOnlyByStaleAck` shows that this is the *only* way to lose one |
| `monitor_takes_from_other` | "does nothing if the reaper already got there first" (`worker_pool.py:86-87`) | The job the reaper put back has been leased by another worker; the monitor releases that lease |
| `poll_thread_dies` | "polls ... every 500ms and moves due jobs back" (`README.md:73`) | One failed call ends the thread for good |
| `drain_refills` | "Stop pulling new jobs" (`worker_main.py:79`) | The monitor replaces a stopped worker by one that nobody stops |
| `long_task_loses_lease` | "a live worker never loses its lease" (`config.py:58-60`) | The heartbeat is written between jobs only. A healthy task longer than `HEARTBEAT_TIMEOUT` is taken for a wedged thread; its lease is taken away and another worker runs the job at the same time. No fault is needed, and no length of the lease helps: `DurationsFit` says what does |
| `status_left_pending` | "so /status/{id} reflects reality" (`worker.py:40`) | The status of a retry is saved late, over the "done" of the worker that ran it |

Five more sentences say more than the program does. No run of their own refutes
them; the properties named here say what does hold.

* `README.md:320`, "jobs are processed FIFO" within a priority: `PopsInOrder` holds up
  to `Grid`, 4 ms for CRITICAL and two minutes for a priority of a million.
* `worker_pool.py:124-125`, after a missed renewal "there are two more before the
  lease runs out": renewals come every third of a lease, so the third of them
  comes when it has run out. `LeasesAreKept` survives one missed renewal and is
  excused from the second in a row.
* `README.md:89`, "every expiry is counted": a pass of the reaper that raises forgets
  the batches it had reaped. `ExpiriesAreCounted` is exact while no pass has failed,
  and never counts too many.
* `metrics.py:133`, each late acknowledgement "is a duplicate execution": one that was
  applied without an answer is sent again, finds no lease and is counted too.
  `LateAcksAreExplained` allows for it.
* `priority_queue.py:198-200`, an unreadable entry "has been removed from the queue":
  if it has an id it has a lease as well, and the reaper puts it back, each time.

And `/status` can say "dead" of a job that will run again: `handle_failure` sets
the status before `dlq.add`, and it is saved when that fails (`worker.py:169`). The
attempts of the job are spent then, which is all that `EndsReallyHappened` claims;
what matters is that the job is not acknowledged (`AckedOnlyWhenRecorded`).

## 5. What is proved

All theorems hold for every finite or infinite set of workers, processes and
schedulers, every lease length, batch size and `max_retries`, and every bound on
failures, disruptions and faults; sets of jobs may be infinite but in
`LeaseTiming`, which counts them. They rest on `QueueAssumption`,
`JobRecordsAssumption`, `WorkerAssumption`, `WorkerPoolAssumption`,
`OrionAssumption`, `ClientAssumption` and `TimingAssumption`, which say what type each constant has
and that `Nil` is no worker, entry or number, and on `OrderAssumption`, which defines
`Score` and says that submit times stay clear of the next priority. TLC
evaluates each of them in the runs of its module.

**`PriorityQueueProofs`: the scripts.** Lemmas only. `QueueInv` is the conjunction of
the type, `LeaseKeysAgree` and `KeepsItsPlace`. The three need each other: the
reaper puts back the payload at the saved score, so both must be there and
belong to the job. `Calls` is a call of any script with any entry and with at most
one job to acknowledge; it keeps `QueueInv` (`CallsKeepInv`). The general client makes
no other calls (`ClientCalls`), and neither does the program (`SystemCalls`), so both
get these facts. `PopEffect`, `AckEffect`, `PushEffect` and `ReturnEffect` say what the
scripts do to what is owed, and `NothingLost` that a requeue, a renewal, a reap or
a tick takes nothing from it.

**`QueueClientProofs`: the queue under any client.**

* `QueueTypeCorrect`, `LeasesAreRecoverable`, `PlaceIsKept`
* `OnlyPopsLease`: an action property; each script but the pops only shrinks
  `Leased`.
* `QueueKeepsThePromise`: `QueueSpec` implements `AtLeastOnceQueue`. There a job ceases
  to be owed in two ways only: a caller that has asked for it by name settles it
  while it is in hand, which uses the request up, or a caller that has asked for
  that clears everything. A pop delivers, a push accepts, a requeue or a reap gives
  back, a renewal or a tick stutters.
* `JobsArePoppedInOrder`: rounding moves a score by at most half a `Grid`
  (`NearestIsNear`), so the order of two scores says which priority is higher and,
  if they are equal, which time is earlier up to a `Grid` (`ScoresOrder`). Pops take
  the highest score, and by `KeepsItsPlace` the score of an entry is that of its job,
  whatever brought it there.

**`OrionQueueProofs`: the whole system's types.** `TypeInv` adds to the types what
they depend on: a thread has a Job object exactly while it is busy
(`BusyHasJob`), and a monitor about to save or requeue has one, its own or the
thread's, in its own process (`MonitorHasJob`). Without them a `None` could reach
`save` or `requeue`.

* `TypeCorrect`
* `SystemLeasesAreRecoverable`: the program's calls keep `QueueInv` too.
* `SystemLeasesComeFromThePop`, `SystemKeepsPlaces`: whatever threads, monitors,
  schedulers and the reaper do to the queue is a `Calls` step (`SystemCalls`), so the
  whole system resurrects no lease and keeps every job in its place.
* `SystemKeepsThePromise`: the whole system implements `AtLeastOnceQueue` with its
  threads as callers and `Asked` as their requests. Each `take()` or `ack()` of a
  thread settles at most the one job it owes the acknowledgement of, and nothing
  else any thread, monitor, scheduler or reaper does drops a job. (Whose lease
  that acknowledgement releases is the subject of `CustodyProofs`.)

**`OutcomeProofs`: what is recorded is true.** `OutcomeInv` says of every copy of
a job, on whichever queue, under a lease, in a thread, with a monitor or in a poll
thread, that it is `Truthful`: it counts no more failed attempts than there were,
its stamp is not from the future, and "done" or "dead" has happened. Steps move
copies around or change a status to one that claims nothing; only the end of a
task raises a claim, in the same step as the history.

* `DeathIsEarned`: no crash, lapse, requeue or duplicate uses up an attempt.
* `RecordedEndsAreTrue`: also when saves arrive late or recording failed.

**`CustodyProofs`: no accepted job is lost.** `LostOnlyByStaleAck` is not inductive:
an acknowledgement could take the last lease. `CustodyInv` therefore says of a
worker that is going to acknowledge a lease *delivered to it* that its job is
`Safe`, that is queued, waiting for its retry, dead or done (`Vouched`). That
holds while the lease is its own because whoever pops the job takes the lease
over. Two more facts close it. A retry that a poll thread has pushed and is
about to remove does not count as waiting (`Promoted`). And a retry about to be
recorded is different from all that are recorded, read or pushed
(`FreshRetries`), so that no removal under way can hit it; this follows from the
stamps being `Truthful`.

* `NeverLostButByStaleAck`: for any number of crashes, shutdowns, stalls,
  lapses, failures and calls with unknown outcome.
* `AcksComeAfterRecords`

**`CopiesProofs`: a job is in one place.** `CopiesInv` has three parts: what is not
submitted yet is known to nobody (`Unknown`), a job whose task has not failed is
`Single`, queued once or leased and not both, and no retry of it exists anywhere
(`NoRetry`), without which a promotion could push a second copy.

* `JobsAreNotMultiplied`: for any interleaving of monitor, reaper and threads.
* `SubmissionsComeFirst`: `/submit` saves before it pushes, so that its record
  overwrites nothing.

The second part of the module is about the retry path by itself, when nothing
fails around it. `Calm` says what that means: no disruptions, no lapses, no
replacement of threads, and not more than one scheduler, which is what the
deployment runs and `scheduler_main.py:6-8` asks for. The run `calm` is such an
instance. Tasks may still fail, any number of times, and there may be any number
of jobs and threads. `AttemptInv` says that an attempt of a job is in `OnePlace`
(queued, in the hands of a thread, or waiting in the delayed queue and not
pushed yet) and that it is the `NextAttempt`, numbered by the failures so far. What
`poll` has pushed and not yet removed is still in the delayed queue, but not
`Awaited`; that the removal hits just this entry is `Quiet`, with the leases all
fresh.

* `AttemptsAreNotRepeated`: `Calm` implies `Spec => []EachAttemptRunsOnce`. TLC finds it
  violated when any one of the four hypotheses is dropped: delivery is at
  least once, by design.

**`JobLifeProofs`: what a submitter is promised.** `SystemLivesAsPromised`:
`OrionQueue` implements `JobLife`. A job is submitted when `/submit` has ended,
whatever it answered, and buried when it is in the dead letter queue; the
report is its record. Each step of the system is one event of one job or
changes nothing `JobLife` sees; the save of a record, by the worker or by the
monitor, may be a report repeated or late. No new invariant is needed:
`CopiesInv` says that nobody has a job before it is submitted, and
`OutcomeInv` that no copy of it claims what has not happened.

**`LeaseTimingProofs`: what the durations achieve.** Five invariants, one per
promise.

* `PunctualInv`: a heartbeat is at most `HEARTBEAT_TIMEOUT` old at the end of a pass
  (`OnWatch`), and the next pass is at most `MonitorSleep + MaxLate` away. Hence
  `WedgedThreadsAreReplacedInTime`.
* `LostInv`: the time a lease has been in nobody's hands and the time it has to
  live add up to one lease, and a lease that has lapsed is taken back by the
  pass that comes next, since a pass goes on until a batch is not full. Hence
  `CrashedJobsComeBackInTime`.
* `ClaimInv`: what a thread runs or owes is its `Claim`; claims of different
  threads are apart, each is `Single`, and the lease of each is at most two gaps
  between renewals old, and for an owed one the time slept as well. It holds
  until `excused` is set: a second missed renewal in a row would make it three
  gaps, a second failed `take()` two waits. Hence
  `LeasesAreKeptInTime`, under `DurationsFit`: tasks no longer than
  `HEARTBEAT_TIMEOUT`, and `2 * Gap + Backoff` less than the lease. With the defaults
  (a lease of 30 s, renewals every 10, a monitor that sleeps 1 s, a wait of 1 s
  after a call that may take 5) that is `2 * (10 + MaxLate) + 6 < 30`: the claim holds for
  passes less than two seconds late.
* `LateInv`: a `Claim` without a lease will be counted as late, so each must be paid
  for. `ClaimsArePaidFor` adds what is counted already, the claims of the threads
  and those of threads that gave up or died, and finds them no more than the
  leases taken back, the acknowledgements applied without an answer, and the
  claims that have a lease. Several claims may share one job: the inequality is
  between cardinalities of sets of claims and of jobs. Hence
  `LateAcksAlwaysExplained`.
* `CountInv`: what has been taken back is counted, or in the `total` of a pass under
  way, unless a pass failed. There is one `total` per reaper; `Uncounted` has one
  element for each lease in any of them, so that its cardinality is their sum.
  Hence `ExpiriesAlwaysCounted`, for any number of reapers.

TLC finds `QueueInv`, `TypeInv`'s parts, `CustodyInv`, `CopiesInv`, `AttemptInv`,
`PunctualInv`, `LostInv`, `ClaimInv`, `LateInv` and `CountInv` true on the instances
above.

**Only model-checked:** `EveryJobSettles` and `QueueDrains`. They need fairness, and
liveness under fairness is beyond the prover, as is `ENABLED`. Every other
property of a passing run is stated by a theorem. The instances TLC checks have
one scheduler; that several lose no retry is a consequence of
`NeverLostButByStaleAck`, which assumes nothing of their number.

## 6. Not modelled

* *The TTL of the job records.* No part of the program but `/status` reads one, and
  no document says what should hold of a job that outlives its record.
* *The other metrics, the gauges, the probes and the read-only endpoints.* They
  read, count, and decide nothing.
* *Clock skew.* Deadlines are computed by workers and compared by schedulers.
* *Reading the environment, task lookup, wiring, the benchmark, tests and
  deployment.*

What would come next is retries and drains in `LeaseTiming`.
