----------------------------- MODULE ThreadPool -----------------------------
(***************************************************************************)
(* stdlib/threadpool.sss: worker threads take requests from one queue, run *)
(* them and put the results into another; the thread that owns the pool    *)
(* gives requests, waits for a result or takes any, and closes the pool by *)
(* cancelling and joining one worker after the other.                      *)
(* The queues are those of MutexQueue.tla, of which only the promise of    *)
(* Channel.tla is used: what is dequeued is any enqueued item.             *)
(***************************************************************************)
EXTENDS Integers, Sequences

CONSTANTS
  NumWorkers,
  MaxRequests,  \* bound: the requests that are given
  None

Workers == 1..NumWorkers
Ids == 0..MaxRequests - 1

ASSUME ThreadPoolAssumption ==
  /\ NumWorkers \in Nat /\ MaxRequests \in Nat
  /\ None \notin Ids

VARIABLES
  input, output,    \* the ids of queued requests and of queued results
  worker,           \* what every worker is doing
  request,          \* the id it works on, or None
  cancelled,        \* the workers that pthread_cancel was called on
  next_request_id,
  completed,        \* the ids of the results kept for later
  caller,           \* what the owner of the pool is doing
  awaited,          \* the id that its `run' waits for, or None
  closing,          \* the worker that its `close' has come to
  delivered         \* history: the ids whose results the owner got, in order

queues == <<input, output>>
workers == <<worker, request>>
owner == <<caller, awaited, closing>>
vars == <<queues, workers, cancelled, next_request_id, completed, owner, delivered>>

Init ==
  /\ input = {} /\ output = {}
  /\ worker = [w \in Workers |-> "try"] /\ request = [w \in Workers |-> None]
  /\ cancelled = {}
  /\ next_request_id = 0 /\ completed = {}
  /\ caller = "idle" /\ awaited = None /\ closing = 1
  /\ delivered = <<>>

-----------------------------------------------------------------------------
(* main_loop of worker w *)

Does(w, from, to) == worker[w] = from /\ worker' = [worker EXCEPT ![w] = to]

TakeRequest(w) ==
  /\ Does(w, "try", "run")
  /\ \E id \in input : input' = input \ {id} /\ request' = [request EXCEPT ![w] = id]
  /\ UNCHANGED <<output, cancelled, next_request_id, completed, owner, delivered>>

Sleep(w) ==
  /\ input = {} /\ Does(w, "try", "sleep")
  /\ UNCHANGED <<queues, request, cancelled, next_request_id, completed, owner, delivered>>

WakeUp(w) ==
  /\ w \notin cancelled /\ Does(w, "sleep", "try")
  /\ UNCHANGED <<queues, request, cancelled, next_request_id, completed, owner, delivered>>

(* request.fn returns. *)
Finish(w) ==
  /\ Does(w, "run", "enqueue")
  /\ UNCHANGED <<queues, request, cancelled, next_request_id, completed, owner, delivered>>

(* Bug: the request goes back to the queue as well. *)
BugPutResult(w) ==
  /\ Does(w, "enqueue", "try")
  /\ output' = output \cup {request[w]} /\ input' = input \cup {request[w]}
  /\ request' = [request EXCEPT ![w] = None]
  /\ UNCHANGED <<cancelled, next_request_id, completed, owner, delivered>>

PutResult(w) ==
  /\ Does(w, "enqueue", "try")
  /\ output' = output \cup {request[w]}
  /\ request' = [request EXCEPT ![w] = None]
  /\ UNCHANGED <<input, cancelled, next_request_id, completed, owner, delivered>>

(* pthread_setcanceltype(0): a cancelled worker goes on to the next call   *)
(* that can be cancelled: usleep, or one that request.fn makes.  The       *)
(* request it was running is gone.                                         *)
End(w) ==
  /\ w \in cancelled
  /\ Does(w, "sleep", "ended") \/ Does(w, "run", "ended")
  /\ request' = [request EXCEPT ![w] = None]
  /\ UNCHANGED <<queues, cancelled, next_request_id, completed, owner, delivered>>

Step(w) == TakeRequest(w) \/ Sleep(w) \/ WakeUp(w) \/ Finish(w) \/ PutResult(w) \/ End(w)

-----------------------------------------------------------------------------
(* The owner of the pool.  Nothing else reads next_request_id or           *)
(* completed, which no mutex protects.                                     *)

Request(id) ==
  /\ id = next_request_id /\ next_request_id' = id + 1
  /\ input' = input \cup {id}

Give ==
  /\ caller = "idle"
  /\ \E id \in Ids : Request(id)
  /\ UNCHANGED <<output, workers, cancelled, completed, owner, delivered>>

Run ==
  /\ caller = "idle" /\ caller' = "run"
  /\ \E id \in Ids : Request(id) /\ awaited' = id
  /\ UNCHANGED <<output, workers, cancelled, completed, closing, delivered>>

Receives(id) == delivered' = Append(delivered, id)

Keep(ids) == completed' = ids

Return(id) == Receives(id) /\ caller' = "idle" /\ awaited' = None

(* run gets the result of request id; keeps it when it waits for another,  *)
(* and looks whether its own has been kept, too.                           *)
AwaitResult ==
  /\ caller = "run"
  /\ \E id \in output :
       LET kept == completed \cup {id}
       IN  /\ output' = output \ {id}
           /\ IF id = awaited THEN Keep(completed) /\ Return(id)
              ELSE IF awaited \in kept THEN Keep(kept \ {awaited}) /\ Return(awaited)
              ELSE Keep(kept) /\ UNCHANGED <<caller, awaited, delivered>>
  /\ UNCHANGED <<input, workers, cancelled, next_request_id, closing>>

(* take: a queued result, else one that was kept, else Empty. *)
TakeQueued ==
  /\ caller = "idle"
  /\ \E id \in output : output' = output \ {id} /\ Receives(id)
  /\ UNCHANGED <<input, workers, cancelled, next_request_id, completed, owner>>

(* Bug: the result that was kept stays in the table. *)
BugTakeKept ==
  /\ caller = "idle" /\ output = {}
  /\ \E id \in completed : Receives(id)
  /\ UNCHANGED <<queues, workers, cancelled, next_request_id, completed, owner>>

TakeKept ==
  /\ caller = "idle" /\ output = {}
  /\ \E id \in completed : completed' = completed \ {id} /\ Receives(id)
  /\ UNCHANGED <<queues, workers, cancelled, next_request_id, owner>>

TakeNothing ==
  /\ caller = "idle" /\ output = {} /\ completed = {}
  /\ UNCHANGED vars

-----------------------------------------------------------------------------
(* close: cancel and join the workers one by one. *)

Close ==
  /\ caller = "idle" /\ caller' = IF Workers = {} THEN "closed" ELSE "cancel"
  /\ UNCHANGED <<queues, workers, cancelled, next_request_id, completed, awaited, closing, delivered>>

(* Bug: one worker less is cancelled. *)
BugCancel ==
  /\ caller = "cancel" /\ caller' = "join"
  /\ cancelled' = cancelled \cup {closing - 1}
  /\ UNCHANGED <<queues, workers, next_request_id, completed, awaited, closing, delivered>>

Cancel ==
  /\ caller = "cancel" /\ caller' = "join"
  /\ cancelled' = cancelled \cup {closing}
  /\ UNCHANGED <<queues, workers, next_request_id, completed, awaited, closing, delivered>>

(* Bug: cancelled is taken for ended. *)
BugJoin ==
  /\ caller = "join" /\ closing \in cancelled
  /\ closing' = closing + 1
  /\ caller' = IF closing = NumWorkers THEN "closed" ELSE "cancel"
  /\ UNCHANGED <<queues, workers, cancelled, next_request_id, completed, awaited, delivered>>

Join ==
  /\ caller = "join" /\ worker[closing] = "ended"
  /\ closing' = closing + 1
  /\ caller' = IF closing = NumWorkers THEN "closed" ELSE "cancel"
  /\ UNCHANGED <<queues, workers, cancelled, next_request_id, completed, awaited, delivered>>

(* A closed pool is not used again. *)
Closed == caller = "closed" /\ UNCHANGED vars

-----------------------------------------------------------------------------
Take == TakeQueued \/ TakeKept \/ TakeNothing
Owner == Give \/ Run \/ AwaitResult \/ Take \/ Close \/ Cancel \/ Join \/ Closed

Next == Owner \/ \E w \in Workers : Step(w)

Spec == Init /\ [][Next]_vars

(* Threads are scheduled, the functions of the requests return, and a      *)
(* thread that is inside of run or close goes on.                          *)
Fairness ==
  /\ \A w \in Workers : WF_vars(Step(w))
  /\ WF_vars(AwaitResult \/ Cancel \/ Join)

FairSpec == Spec /\ Fairness

-----------------------------------------------------------------------------
TypeOK ==
  /\ input \subseteq Ids /\ output \subseteq Ids /\ completed \subseteq Ids
  /\ worker \in [Workers -> {"try", "sleep", "run", "enqueue", "ended"}]
  /\ request \in [Workers -> Ids \cup {None}]
  /\ cancelled \subseteq Workers
  /\ next_request_id \in 0..MaxRequests
  /\ caller \in {"idle", "run", "cancel", "join", "closed"}
  /\ awaited \in Ids \cup {None}
  /\ closing \in 1..NumWorkers + 1
  /\ delivered \in Seq(Ids)

Running == {id \in Ids : \E w \in Workers : request[w] = id}
Delivered == {delivered[i] : i \in DOMAIN delivered}

(* A request is in one place at a time: in a queue, with one worker, in    *)
(* the table, or with the owner; so it is run once, and its result is      *)
(* handed over once.                                                       *)
OnePlace ==
  /\ input \cap (Running \cup output \cup completed \cup Delivered) = {}
  /\ Running \cap (output \cup completed \cup Delivered) = {}
  /\ output \cap (completed \cup Delivered) = {}
  /\ completed \cap Delivered = {}
  /\ \A v, w \in Workers : v # w /\ request[v] # None => request[v] # request[w]
  /\ \A i, j \in DOMAIN delivered : delivered[i] = delivered[j] => i = j

(* A request that is in none of them was lost with a worker that `close'   *)
(* cancelled; before, and as long as run waits, none is lost.              *)
NothingLost ==
  \/ 0..next_request_id - 1 = input \cup Running \cup output \cup completed \cup Delivered
  \/ \E w \in cancelled : worker[w] = "ended"

(* run finds its result in the queue; no result it waits for is ever kept  *)
(* in the table, where it would not look before the next one arrives.      *)
AwaitedNotKept == caller = "run" => awaited \notin completed \cup Delivered

(* A request goes through the pool once, and to the one who waits for it.  *)
RequestsKept == TypeOK /\ OnePlace /\ NothingLost /\ AwaitedNotKept

(* Every call of run, and of close, returns. *)
CallsReturn == /\ caller = "run" ~> caller # "run"
               /\ caller = "cancel" ~> caller = "closed"

(* Nobody outlives the pool. *)
AllEnded == caller = "closed" => \A w \in Workers : worker[w] = "ended"

(* The pool is a channel: requests go in, their results come out. *)
Abstract == INSTANCE Channel WITH
  Values <- Ids, sent <- 0..next_request_id - 1, received <- delivered
ImplementsChannel == Abstract!Spec
=============================================================================
