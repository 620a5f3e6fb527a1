--------------------------- MODULE ThreadPoolProof ---------------------------
(***************************************************************************)
(* For any number of workers and requests: a request of ThreadPool is in   *)
(* one place at a time and is lost only with a worker that was cancelled,  *)
(* `close' leaves no worker behind, and the pool implements Channel.  The  *)
(* invariant below adds to the properties that only ids that were given    *)
(* out are anywhere, which workers have one, and how far `close' has come. *)
(***************************************************************************)
EXTENDS ThreadPool, FiniteSetTheorems, TLAPS

Issued == 0..next_request_id - 1

PlacesIssued == input \cup Running \cup output \cup completed \cup Delivered \subseteq Issued

RequestsMatch ==
  \A w \in Workers : request[w] # None <=> worker[w] \in {"run", "enqueue"}

AwaitedIssued == caller = "run" => awaited \in Issued

(* The workers before `closing' have ended. *)
ClosingMatches ==
  /\ \A w \in Workers : w < closing => worker[w] = "ended"
  /\ caller \in {"idle", "run"} => closing = 1
  /\ caller \in {"cancel", "join"} => closing \in Workers
  /\ caller = "closed" => closing = NumWorkers + 1

IInv == RequestsKept /\ PlacesIssued /\ RequestsMatch /\ AwaitedIssued /\ ClosingMatches

-----------------------------------------------------------------------------
(* Facts about the history, and about who runs what.                       *)

Injective(s) == \A i, j \in DOMAIN s : s[i] = s[j] => i = j
Elements(s) == {s[i] : i \in DOMAIN s}

LEMMA Appended ==
  ASSUME NEW S, NEW s \in Seq(S), NEW v \in S
  PROVE  /\ Append(s, v) \in Seq(S)
         /\ Elements(Append(s, v)) = Elements(s) \cup {v}
         /\ Injective(s) /\ v \notin Elements(s) => Injective(Append(s, v))
<1>1. /\ Append(s, v) \in Seq(S) /\ DOMAIN s = 1..Len(s) /\ Len(s) \in Nat
      /\ DOMAIN Append(s, v) = 1..Len(s) + 1
      /\ \A i \in 1..Len(s) : Append(s, v)[i] = s[i]
      /\ Append(s, v)[Len(s) + 1] = v
  OBVIOUS
<1>2. 1..Len(s) + 1 = (1..Len(s)) \cup {Len(s) + 1}
  BY <1>1
<1>3. Elements(Append(s, v)) = Elements(s) \cup {v}
  BY <1>1, <1>2 DEF Elements
<1>4. Injective(s) /\ v \notin Elements(s) => Injective(Append(s, v))
  BY <1>1, <1>2 DEF Elements, Injective
<1> QED BY <1>1, <1>3, <1>4

(* Where the requests are, as a fact about sets. *)
Apart(in, run, out, done, gone) ==
  /\ in \cap (run \cup out \cup done \cup gone) = {}
  /\ run \cap (out \cup done \cup gone) = {}
  /\ out \cap (done \cup gone) = {}
  /\ done \cap gone = {}

Everywhere(in, run, out, done, gone) == in \cup run \cup out \cup done \cup gone

Unshared == \A v, w \in Workers : v # w /\ request[v] # None => request[v] # request[w]
SomeEnded == \E w \in cancelled : worker[w] = "ended"

LEMMA OnePlaceSays ==
  /\ OnePlace <=> /\ Apart(input, Running, output, completed, Delivered)
                  /\ Unshared /\ Injective(delivered)
  /\ OnePlace' <=> /\ Apart(input', Running', output', completed', Delivered')
                   /\ Unshared' /\ Injective(delivered')
BY DEF OnePlace, Apart, Unshared, Injective

LEMMA PlacesSay ==
  /\ NothingLost <=> Issued = Everywhere(input, Running, output, completed, Delivered) \/ SomeEnded
  /\ NothingLost' <=> Issued' = Everywhere(input', Running', output', completed', Delivered') \/ SomeEnded'
  /\ PlacesIssued <=> Everywhere(input, Running, output, completed, Delivered) \subseteq Issued
  /\ PlacesIssued' <=> Everywhere(input', Running', output', completed', Delivered') \subseteq Issued'
BY DEF NothingLost, PlacesIssued, Everywhere, Issued, SomeEnded

(* What the requests that run become when a worker takes one or none. *)
LEMMA RunningAfter ==
  ASSUME TypeOK, Unshared, NEW w \in Workers, NEW id \in Ids \cup {None},
         request' = [request EXCEPT ![w] = id],
         request[w] = None \/ id = None
  PROVE  /\ Running' = (Running \ {request[w]}) \cup (IF id = None THEN {} ELSE {id})
         /\ (id = None \/ id \notin Running) => Unshared'
<1>1. \A v \in Workers : request'[v] = IF v = w THEN id ELSE request[v]
  BY DEF TypeOK
<1>2. None \notin Ids
  BY ThreadPoolAssumption
<1>3. \A v \in Workers \ {w} : request[v] # None => request[v] # request[w]
  BY DEF Unshared
<1>4. Running' = (Running \ {request[w]}) \cup (IF id = None THEN {} ELSE {id})
  <2>1. ASSUME NEW r \in Ids
        PROVE  r \in Running' <=> r \in (Running \ {request[w]}) \cup (IF id = None THEN {} ELSE {id})
    <3>1. r \in Running' <=> \E v \in Workers : request'[v] = r
      BY DEF Running, Ids
    <3>2. r \in Running <=> \E v \in Workers : request[v] = r
      BY DEF Running
    <3> QED BY <1>1, <1>2, <1>3, <2>1, <3>1, <3>2
  <2>2. Running \subseteq Ids /\ Running' \subseteq Ids
    BY DEF Running, Ids
  <2> QED BY <2>1, <2>2
<1>5. ASSUME id = None \/ id \notin Running
      PROVE  Unshared'
  <2> SUFFICES ASSUME NEW u \in Workers, NEW v \in Workers, u # v, request'[u] # None
               PROVE  request'[u] # request'[v]
    BY DEF Unshared, Workers
  <2>1. \A x \in Workers : request[x] \in Ids => request[x] \in Running
    BY DEF Running
  <2>2. \A x \in Workers : request[x] \in Ids \cup {None}
    BY DEF TypeOK
  <2> QED BY <1>1, <1>2, <1>5, <2>1, <2>2 DEF Unshared
<1> QED BY <1>4, <1>5

-----------------------------------------------------------------------------
LEMMA InitInv == Init => IInv
<1> SUFFICES ASSUME Init PROVE IInv
  OBVIOUS
<1> USE DEF Init
<1>1. NumWorkers \in Nat /\ MaxRequests \in Nat /\ None \notin Ids
  BY ThreadPoolAssumption
<1>2. TypeOK
  BY <1>1 DEF TypeOK
<1>3. Running = {} /\ Delivered = {} /\ Issued = {}
  BY <1>1 DEF Running, Delivered, Issued, Ids
<1>4. OnePlace /\ NothingLost /\ PlacesIssued
  BY <1>3 DEF OnePlace, NothingLost, PlacesIssued, Issued
<1>5. AwaitedNotKept /\ RequestsMatch /\ AwaitedIssued
  BY DEF AwaitedNotKept, RequestsMatch, AwaitedIssued
<1>6. ClosingMatches
  BY <1>1 DEF ClosingMatches, Workers
<1> QED BY <1>2, <1>4, <1>5, <1>6 DEF IInv, RequestsKept

-----------------------------------------------------------------------------
(* The steps of a worker. *)

LEMMA WorkerTypes ==
  ASSUME TypeOK, RequestsMatch, NEW w \in Workers, Step(w)
  PROVE  TypeOK'
<1> USE DEF TypeOK, Does, queues, owner
<1>1. CASE TakeRequest(w)
  BY <1>1 DEF TakeRequest
<1>2. CASE Sleep(w) \/ WakeUp(w) \/ Finish(w)
  BY <1>2 DEF Sleep, WakeUp, Finish
<1>3. CASE PutResult(w)
  <2>1. request[w] \in Ids
    BY <1>3 DEF PutResult, RequestsMatch
  <2> QED BY <1>3, <2>1 DEF PutResult
<1>4. CASE End(w)
  BY <1>4 DEF End
<1> QED BY <1>1, <1>2, <1>3, <1>4 DEF Step

(* What the others do not see of it. *)
LEMMA WorkerKeeps ==
  ASSUME IInv, NEW w \in Workers, Step(w)
  PROVE  /\ UNCHANGED <<cancelled, next_request_id, completed, caller, awaited, closing, delivered>>
         /\ Delivered' = Delivered /\ Issued' = Issued
         /\ \A v \in Workers \ {w} : worker'[v] = worker[v] /\ request'[v] = request[v]
         /\ worker[w] # "ended"
         /\ SomeEnded => SomeEnded'
         /\ RequestsMatch'
<1>1. UNCHANGED <<cancelled, next_request_id, completed, caller, awaited, closing, delivered>>
  BY DEF Step, TakeRequest, Sleep, WakeUp, Finish, PutResult, End, owner, queues
<1>2. /\ worker \in [Workers -> {"try", "sleep", "run", "enqueue", "ended"}]
      /\ request \in [Workers -> Ids \cup {None}] /\ cancelled \subseteq Workers
      /\ None \notin Ids /\ input \subseteq Ids
  BY ThreadPoolAssumption DEF IInv, RequestsKept, TypeOK
<1>3. /\ worker' = [worker EXCEPT ![w] = worker'[w]] /\ request' = [request EXCEPT ![w] = request'[w]]
      /\ request'[w] # None <=> worker'[w] \in {"run", "enqueue"}
  <2> USE DEF Does, IInv, RequestsMatch
  <2>1. CASE TakeRequest(w)
    BY <1>2, <2>1 DEF TakeRequest
  <2>2. CASE PutResult(w) \/ End(w)
    BY <1>2, <2>2 DEF PutResult, End
  <2>3. CASE Sleep(w) \/ WakeUp(w) \/ Finish(w)
    BY <1>2, <2>3 DEF Sleep, WakeUp, Finish
  <2> QED BY <2>1, <2>2, <2>3 DEF Step
<1>4. \A v \in Workers \ {w} : worker'[v] = worker[v] /\ request'[v] = request[v]
  BY <1>2, <1>3
<1>5. worker[w] # "ended"
  BY DEF Step, Does, TakeRequest, Sleep, WakeUp, Finish, PutResult, End
<1>6. SomeEnded => SomeEnded'
  BY <1>1, <1>2, <1>4, <1>5 DEF SomeEnded
<1>7. RequestsMatch'
  BY <1>3, <1>4 DEF IInv, RequestsMatch, Workers
<1> QED BY <1>1, <1>4, <1>5, <1>6, <1>7 DEF Delivered, Issued

(* Where the requests are after it. *)
LEMMA WorkerMoves ==
  ASSUME IInv, NEW w \in Workers, Step(w)
  PROVE  OnePlace' /\ NothingLost' /\ PlacesIssued'
<1> USE OnePlaceSays, PlacesSay DEF Apart, Everywhere
<1>1. /\ UNCHANGED <<cancelled, completed, delivered>> /\ Delivered' = Delivered /\ Issued' = Issued
      /\ SomeEnded => SomeEnded'
  BY WorkerKeeps
<1>2. /\ OnePlace /\ NothingLost /\ PlacesIssued /\ TypeOK
      /\ None \notin Ids /\ Running \subseteq Ids /\ input \subseteq Ids
  BY ThreadPoolAssumption DEF IInv, RequestsKept, Running, TypeOK
<1>3. Injective(delivered)'
  BY <1>1, <1>2 DEF Injective
<1>4. CASE TakeRequest(w)
  <2>1. PICK id \in input : /\ input' = input \ {id} /\ request' = [request EXCEPT ![w] = id]
                            /\ request[w] = None /\ output' = output
    BY <1>4 DEF TakeRequest, Does, IInv, RequestsMatch
  <2>2. id \notin Running /\ id # None /\ id \in Ids
    BY <1>2, <2>1
  <2>3. Running' = Running \cup {id} /\ Unshared'
    <3>1. Running' = (Running \ {None}) \cup {id} /\ Unshared'
      BY <1>2, <2>1, <2>2, RunningAfter
    <3> QED BY <1>2, <3>1
  <2> QED BY <1>1, <1>2, <1>3, <2>1, <2>3 DEF Injective
<1>5. CASE PutResult(w)
  <2>1. /\ input' = input /\ output' = output \cup {request[w]}
        /\ request' = [request EXCEPT ![w] = None] /\ request[w] # None
    BY <1>5 DEF PutResult, Does, IInv, RequestsMatch
  <2>2. request[w] \in Running
    BY <1>2, <2>1 DEF Running, TypeOK
  <2>3. Running' = Running \ {request[w]} /\ Unshared'
    BY <1>2, <2>1, RunningAfter
  <2> QED BY <1>1, <1>2, <1>3, <2>1, <2>2, <2>3 DEF Injective
<1>6. CASE End(w)
  <2>1. /\ input' = input /\ output' = output /\ request' = [request EXCEPT ![w] = None]
        /\ w \in cancelled /\ worker' = [worker EXCEPT ![w] = "ended"]
    BY <1>6 DEF End, Does, queues
  <2>2. Running' = Running \ {request[w]} /\ Unshared'
    BY ZenonT(30), <1>2, <2>1, RunningAfter
  <2>3. SomeEnded'
    BY <1>1, <1>2, <2>1 DEF SomeEnded, TypeOK
  <2> QED BY <1>1, <1>2, <1>3, <2>1, <2>2, <2>3 DEF Injective
<1>7. CASE Sleep(w) \/ WakeUp(w) \/ Finish(w)
  <2>1. UNCHANGED <<input, output, request>>
    BY <1>7 DEF Sleep, WakeUp, Finish, queues
  <2>2. Running' = Running /\ (Unshared => Unshared')
    BY <2>1 DEF Running, Unshared, Ids, Workers
  <2> QED BY <1>1, <1>2, <1>3, <2>1, <2>2 DEF Injective
<1> QED BY <1>4, <1>5, <1>6, <1>7 DEF Step

LEMMA WorkerInv ==
  ASSUME IInv, NEW w \in Workers, Step(w)
  PROVE  IInv'
<1>1. /\ UNCHANGED <<cancelled, completed, caller, awaited, closing>>
      /\ Delivered' = Delivered /\ Issued' = Issued
      /\ \A v \in Workers \ {w} : worker'[v] = worker[v]
      /\ worker[w] # "ended" /\ RequestsMatch'
  BY WorkerKeeps
<1>2. TypeOK'
  BY WorkerTypes DEF IInv, RequestsKept
<1>3. OnePlace' /\ NothingLost' /\ PlacesIssued'
  BY WorkerMoves
<1>4. AwaitedNotKept' /\ AwaitedIssued'
  BY <1>1 DEF IInv, RequestsKept, AwaitedNotKept, AwaitedIssued
<1>5. ClosingMatches'
  BY <1>1 DEF IInv, ClosingMatches, Workers
<1> QED BY <1>1, <1>2, <1>3, <1>4, <1>5 DEF IInv, RequestsKept

-----------------------------------------------------------------------------
(* The steps of the owner.                                                 *)

(* A new id is nowhere yet. *)
LEMMA Requested ==
  ASSUME TypeOK, NEW id \in Ids, Request(id)
  PROVE  /\ id \notin Issued /\ Issued' = Issued \cup {id}
         /\ input' = input \cup {id} /\ next_request_id' \in 0..MaxRequests
<1>1. /\ id = next_request_id /\ next_request_id' = id + 1 /\ input' = input \cup {id}
      /\ next_request_id \in Nat /\ id \in 0..MaxRequests - 1 /\ MaxRequests \in Nat
  BY ThreadPoolAssumption DEF Request, TypeOK, Ids
<1> QED BY <1>1 DEF Issued

LEMMA RequestInv ==
  ASSUME IInv, Give \/ Run
  PROVE  IInv'
<1> USE OnePlaceSays, PlacesSay DEF Apart, Everywhere
<1>1. PICK id \in Ids : /\ Request(id) /\ caller = "idle"
                        /\ \/ caller' = caller /\ awaited' = awaited
                           \/ caller' = "run" /\ awaited' = id
  BY DEF Give, Run, owner
<1>2. UNCHANGED <<output, worker, request, cancelled, completed, closing, delivered>>
  BY DEF Give, Run, owner, workers
<1>3. /\ id \notin Issued /\ Issued' = Issued \cup {id}
      /\ input' = input \cup {id} /\ next_request_id' \in 0..MaxRequests
  BY <1>1, Requested DEF IInv, RequestsKept
<1>4. Running' = Running /\ Delivered' = Delivered /\ SomeEnded' = SomeEnded
  BY <1>2 DEF Running, Delivered, SomeEnded, Ids, Workers
<1>5. TypeOK'
  BY <1>1, <1>2, <1>3 DEF IInv, RequestsKept, TypeOK
<1>6. OnePlace'
  <2>1. Injective(delivered)' /\ Unshared'
    BY <1>2 DEF IInv, RequestsKept, Injective, Unshared
  <2>2. id \notin Running \cup output \cup completed \cup Delivered
    BY <1>3 DEF IInv
  <2> QED BY <1>2, <1>3, <1>4, <2>1, <2>2 DEF IInv, RequestsKept, Injective
<1>7. NothingLost' /\ PlacesIssued'
  BY <1>2, <1>3, <1>4 DEF IInv, RequestsKept
<1>8. AwaitedNotKept' /\ AwaitedIssued'
  <2>1. id \notin completed \cup Delivered
    BY <1>3 DEF IInv
  <2> QED BY <1>1, <1>2, <1>3, <1>4, <2>1 DEF AwaitedNotKept, AwaitedIssued
<1>9. RequestsMatch' /\ ClosingMatches'
  BY <1>1, <1>2 DEF IInv, RequestsMatch, ClosingMatches, Workers
<1> QED BY <1>5, <1>6, <1>7, <1>8, <1>9 DEF IInv, RequestsKept

(* The owner receives a result that was queued or kept. *)
LEMMA ReceiveInv ==
  ASSUME IInv, NEW id, Receives(id),
         \/ id \in output /\ output' = output \ {id} /\ completed' = completed
         \/ id \in completed /\ completed' = completed \ {id} /\ output' = output,
         caller' = "idle", caller \in {"idle", "run"},
         UNCHANGED <<input, worker, request, cancelled, next_request_id, closing>>,
         awaited' = awaited \/ awaited' = None
  PROVE  IInv'
<1> USE OnePlaceSays, PlacesSay DEF Apart, Everywhere
<1>1. /\ OnePlace /\ NothingLost /\ PlacesIssued /\ TypeOK
      /\ output \subseteq Ids /\ completed \subseteq Ids /\ delivered \in Seq(Ids)
  BY DEF IInv, RequestsKept, TypeOK
<1>2. id \in Ids /\ id \notin Delivered
  BY <1>1
<1>3. /\ delivered' \in Seq(Ids) /\ Delivered' = Delivered \cup {id}
      /\ Injective(delivered')
  BY <1>1, <1>2, Appended DEF Receives, Delivered, Elements
<1>4. Running' = Running /\ Issued' = Issued /\ SomeEnded' = SomeEnded /\ (Unshared => Unshared')
  BY DEF Running, Issued, SomeEnded, Ids, Workers, Unshared
<1>5. TypeOK'
  BY <1>1, <1>3 DEF TypeOK
<1>6. OnePlace' /\ NothingLost' /\ PlacesIssued'
  BY <1>1, <1>2, <1>3, <1>4
<1>7. AwaitedNotKept' /\ AwaitedIssued' /\ RequestsMatch'
  BY DEF IInv, AwaitedNotKept, AwaitedIssued, RequestsMatch, Workers
<1>8. ClosingMatches'
  BY DEF IInv, ClosingMatches, Workers
<1> QED BY <1>5, <1>6, <1>7, <1>8 DEF IInv, RequestsKept

(* What run does with the result that it gets: it hands it over or keeps   *)
(* it.  The result that it waits for is never one that was kept.           *)
LEMMA AwaitEffect ==
  ASSUME IInv, AwaitResult
  PROVE  \E id \in output :
           /\ output' = output \ {id}
           /\ \/ id = awaited /\ completed' = completed /\ Return(id)
              \/ /\ id # awaited /\ completed' = completed \cup {id}
                 /\ UNCHANGED <<caller, awaited, delivered>>
<1>1. awaited \notin completed
  BY DEF AwaitResult, IInv, RequestsKept, AwaitedNotKept
<1> QED BY <1>1 DEF AwaitResult, Keep

LEMMA AwaitInv ==
  ASSUME IInv, AwaitResult
  PROVE  IInv'
<1>1. PICK id \in output :
        /\ output' = output \ {id}
        /\ \/ id = awaited /\ completed' = completed /\ Return(id)
           \/ /\ id # awaited /\ completed' = completed \cup {id}
              /\ UNCHANGED <<caller, awaited, delivered>>
  BY AwaitEffect
<1>2. UNCHANGED <<input, worker, request, cancelled, next_request_id, closing>> /\ caller = "run"
  BY DEF AwaitResult, workers
<1>3. CASE id = awaited
  <2>1. completed' = completed /\ Receives(id) /\ caller' = "idle" /\ awaited' = None
    BY <1>1, <1>3 DEF Return
  <2> QED BY <1>1, <1>2, <2>1, ReceiveInv
<1>4. CASE id # awaited
  <2> USE OnePlaceSays, PlacesSay DEF Apart, Everywhere
  <2>1. /\ id # awaited /\ completed' = completed \cup {id}
        /\ UNCHANGED <<caller, awaited, delivered>>
    BY <1>1, <1>4
  <2>2. /\ Running' = Running /\ Issued' = Issued /\ SomeEnded' = SomeEnded
        /\ Delivered' = Delivered /\ (Unshared => Unshared')
        /\ Injective(delivered) => Injective(delivered')
    BY <1>2, <2>1 DEF Running, Issued, SomeEnded, Ids, Workers, Unshared, Delivered, Injective
  <2>3. TypeOK'
    BY <1>1, <1>2, <2>1 DEF IInv, RequestsKept, TypeOK
  <2>4. OnePlace' /\ NothingLost' /\ PlacesIssued'
    BY <1>1, <1>2, <2>1, <2>2 DEF IInv, RequestsKept
  <2>5. AwaitedNotKept' /\ AwaitedIssued' /\ RequestsMatch' /\ ClosingMatches'
    BY <1>2, <2>1, <2>2 DEF IInv, RequestsKept, AwaitedNotKept, AwaitedIssued, RequestsMatch,
                            ClosingMatches, Workers
  <2> QED BY <2>3, <2>4, <2>5 DEF IInv, RequestsKept
<1> QED BY <1>3, <1>4

LEMMA TakeInv ==
  ASSUME IInv, TakeQueued \/ TakeKept
  PROVE  IInv'
<1>1. /\ UNCHANGED <<input, worker, request, cancelled, next_request_id, closing, caller, awaited>>
      /\ caller = "idle"
  BY DEF TakeQueued, TakeKept, workers, owner, queues
<1>2. PICK id : /\ Receives(id)
                /\ \/ id \in output /\ output' = output \ {id} /\ completed' = completed
                   \/ id \in completed /\ completed' = completed \ {id} /\ output' = output
  BY DEF TakeQueued, TakeKept, queues
<1>3. \/ id \in output /\ output' = output \ {id} /\ completed' = completed
      \/ id \in completed /\ completed' = completed \ {id} /\ output' = output
  BY <1>2
<1> QED BY <1>1, <1>2, <1>3, ReceiveInv

(* Neither closing the pool nor cancelling moves a request; the next       *)
(* worker is cancelled when the one before has ended.                      *)
LEMMA CloseInv ==
  ASSUME IInv, Close \/ Cancel \/ Join
  PROVE  IInv'
<1> USE OnePlaceSays, PlacesSay DEF Apart, Everywhere
<1>1. UNCHANGED <<queues, workers, next_request_id, completed, awaited, delivered>>
  BY DEF Close, Cancel, Join
<1>2. /\ Running' = Running /\ Issued' = Issued /\ Delivered' = Delivered /\ (Unshared => Unshared')
      /\ Injective(delivered) => Injective(delivered')
  BY <1>1 DEF Running, Issued, Ids, Workers, Unshared, Delivered, Injective, workers
<1>3. NumWorkers \in Nat /\ closing \in 1..NumWorkers + 1 /\ cancelled \subseteq Workers
  BY ThreadPoolAssumption DEF IInv, RequestsKept, TypeOK
<1>4. /\ caller' \in {"cancel", "join", "closed"}
      /\ cancelled \subseteq cancelled' /\ cancelled' \subseteq Workers
      /\ closing' \in 1..NumWorkers + 1
  <2>1. CASE Close
    BY <1>3, <2>1 DEF Close
  <2>2. CASE Cancel
    BY <1>3, <2>2 DEF Cancel, IInv, ClosingMatches
  <2>3. CASE Join
    BY <1>3, <2>3 DEF Join, IInv, ClosingMatches, Workers
  <2> QED BY <2>1, <2>2, <2>3
<1>5. SomeEnded => SomeEnded'
  BY <1>1, <1>4 DEF SomeEnded, workers
<1>6. TypeOK'
  BY <1>1, <1>4 DEF IInv, RequestsKept, TypeOK, queues, workers
<1>7. OnePlace' /\ NothingLost' /\ PlacesIssued'
  BY <1>1, <1>2, <1>5 DEF IInv, RequestsKept, queues
<1>8. AwaitedNotKept' /\ AwaitedIssued' /\ RequestsMatch'
  BY <1>1, <1>4 DEF IInv, AwaitedNotKept, AwaitedIssued, RequestsMatch, Workers, workers
<1>9. ClosingMatches'
  <2>0. worker' = worker /\ Workers' = Workers
    BY <1>1 DEF workers, Workers
  <2>1. CASE Close
    BY <1>3, <2>0, <2>1 DEF Close, IInv, ClosingMatches, Workers
  <2>2. CASE Cancel
    BY <1>3, <2>0, <2>2 DEF Cancel, IInv, ClosingMatches, Workers
  <2>3. CASE Join
    BY <1>3, <2>0, <2>3 DEF Join, IInv, ClosingMatches, Workers
  <2> QED BY <2>1, <2>2, <2>3
<1> QED BY <1>6, <1>7, <1>8, <1>9 DEF IInv, RequestsKept

-----------------------------------------------------------------------------
LEMMA StepInv == IInv /\ [Next]_vars => IInv'
<1> SUFFICES ASSUME IInv, [Next]_vars PROVE IInv'
  OBVIOUS
<1>1. ASSUME NEW w \in Workers, Step(w) PROVE IInv'
  BY <1>1, WorkerInv
<1>2. CASE Give \/ Run
  BY <1>2, RequestInv
<1>3. CASE AwaitResult
  BY <1>3, AwaitInv
<1>4. CASE TakeQueued \/ TakeKept
  BY <1>4, TakeInv
<1>5. CASE Close \/ Cancel \/ Join
  BY <1>5, CloseInv
<1>6. CASE UNCHANGED vars
  <2>1. /\ UNCHANGED <<input, output, worker, request, cancelled, next_request_id, completed>>
        /\ UNCHANGED <<caller, awaited, closing, delivered>>
    BY <1>6 DEF vars, queues, workers, owner
  <2>2. TypeOK' /\ OnePlace' /\ NothingLost' /\ AwaitedNotKept'
    BY <2>1 DEF IInv, RequestsKept, TypeOK, OnePlace, NothingLost, AwaitedNotKept, Running, Delivered,
                Workers, Ids
  <2>3. PlacesIssued' /\ RequestsMatch' /\ AwaitedIssued' /\ ClosingMatches'
    BY <2>1 DEF IInv, PlacesIssued, Issued, RequestsMatch, AwaitedIssued, ClosingMatches, Running,
                Delivered, Workers, Ids
  <2> QED BY <2>2, <2>3 DEF IInv, RequestsKept
<1> QED BY <1>1, <1>2, <1>3, <1>4, <1>5, <1>6 DEF Next, Owner, Take, TakeNothing, Closed

LEMMA Invariance == Spec => []IInv
BY InitInv, StepInv, PTL DEF Spec

(* A request is in one place at a time, is lost only with a worker that    *)
(* `close' cancelled, and its result never waits in the table while run    *)
(* waits for it.                                                           *)
THEOREM PoolKeepsRequests == Spec => []RequestsKept
<1>1. IInv => RequestsKept
  BY DEF IInv
<1> QED BY <1>1, Invariance, PTL

(* `close' comes back only when every worker has ended, however the        *)
(* cancelled workers and the other threads are scheduled.                  *)
THEOREM CloseEndsAll == Spec => []AllEnded
<1>1. IInv => AllEnded
  BY ThreadPoolAssumption DEF IInv, ClosingMatches, AllEnded, Workers
<1> QED BY <1>1, Invariance, PTL

(* The pool implements Channel: giving a request sends it, and handing its *)
(* result over receives it.                                                *)
LEMMA StepSendsOrReceives ==
  ASSUME IInv, [Next]_vars
  PROVE  [Abstract!Next]_<<Issued, delivered>>
<1>1. ASSUME NEW id \in output \cup completed, Receives(id), Issued' = Issued
      PROVE  Abstract!Next
  <2>1. id \in Ids /\ id \in Issued /\ id \notin Delivered
    BY OnePlaceSays, PlacesSay DEF IInv, RequestsKept, TypeOK, Apart, Everywhere
  <2>2. Abstract!Receive(id)
    BY <1>1, <2>1 DEF Abstract!Receive, Receives, Delivered, Issued
  <2> QED BY <2>1, <2>2 DEF Abstract!Next
<1>2. CASE Give \/ Run
  <2>1. PICK id \in Ids : Request(id) /\ delivered' = delivered
    BY <1>2 DEF Give, Run
  <2>2. id \notin Issued /\ Issued' = Issued \cup {id}
    BY <2>1, Requested DEF IInv, RequestsKept
  <2>3. Abstract!Send(id)
    BY <2>1, <2>2 DEF Abstract!Send, Issued
  <2> QED BY <2>3 DEF Abstract!Next
<1>3. CASE AwaitResult
  <2>1. PICK id \in output : Return(id) \/ delivered' = delivered
    BY <1>3, AwaitEffect
  <2>2. Issued' = Issued
    BY <1>3 DEF AwaitResult, Issued
  <2> QED BY <1>1, <2>1, <2>2 DEF Return
<1>4. CASE TakeQueued \/ TakeKept
  <2>1. PICK id \in output \cup completed : Receives(id)
    BY <1>4 DEF TakeQueued, TakeKept
  <2>2. Issued' = Issued
    BY <1>4 DEF TakeQueued, TakeKept, Issued
  <2> QED BY <1>1, <2>1, <2>2
<1>5. CASE Close \/ Cancel \/ Join
  BY <1>5 DEF Close, Cancel, Join, Issued
<1>6. ASSUME NEW w \in Workers, Step(w)
      PROVE  UNCHANGED <<Issued, delivered>>
  BY <1>6, WorkerKeeps
<1>7. CASE UNCHANGED vars
  BY <1>7 DEF vars, Issued
<1> QED BY <1>2, <1>3, <1>4, <1>5, <1>6, <1>7 DEF Next, Owner, Take, TakeNothing, Closed

(* The pool, seen from the thread that owns it, is an unordered channel:   *)
(* `give' and `run' send a request, and every result that comes back is    *)
(* one of a request that was sent and not answered yet                     *)
(* (stdlib/threadpool.sss).                                                *)
THEOREM PoolIsChannel == Spec => ImplementsChannel
<1>1. Init => Abstract!Init
  BY DEF Init, Abstract!Init
<1>2. IInv /\ [Next]_vars => [Abstract!Next]_<<0..next_request_id - 1, delivered>>
  BY StepSendsOrReceives DEF Issued
<1> QED BY <1>1, <1>2, Invariance, PTL DEF Spec, ImplementsChannel, Abstract!Spec
-----------------------------------------------------------------------------
(* What `run' and `close' wait for.                                        *)

(* Workers are cancelled by close only, and before they are joined. *)
CancelledMatches ==
  /\ caller \in {"idle", "run"} => cancelled = {}
  /\ caller = "join" => closing \in cancelled

LEMMA CancelledKept == IInv /\ CancelledMatches /\ [Next]_vars => CancelledMatches'
<1> SUFFICES ASSUME CancelledMatches, [Next]_vars PROVE CancelledMatches'
  OBVIOUS
<1> USE DEF CancelledMatches
<1>1. ASSUME NEW w \in Workers, Step(w) PROVE CancelledMatches'
  <2>1. UNCHANGED <<cancelled, caller, closing>>
    BY <1>1 DEF Step, TakeRequest, Sleep, WakeUp, Finish, PutResult, End, owner
  <2> QED BY <2>1
<1>2. CASE Give \/ Run \/ AwaitResult \/ TakeQueued \/ TakeKept
  <2>1. cancelled' = cancelled /\ caller \in {"idle", "run"} /\ caller' # "join"
    BY <1>2 DEF Give, Run, AwaitResult, TakeQueued, TakeKept, owner, Return
  <2> QED BY <2>1
<1>3. CASE Close \/ Cancel \/ Join
  BY <1>3 DEF Close, Cancel, Join
<1>4. CASE UNCHANGED vars
  BY <1>4 DEF vars, owner
<1> QED BY <1>1, <1>2, <1>3, <1>4 DEF Next, Owner, Take, TakeNothing, Closed

LEMMA CancelledInvariance == Spec => []CancelledMatches
<1>1. Init => CancelledMatches
  BY DEF Init, CancelledMatches
<1> QED BY <1>1, CancelledKept, Invariance, PTL DEF Spec

ResultOnItsWay == caller = "run" => awaited \in input \cup Running \cup output

LEMMA OnItsWay ==
  ASSUME IInv, CancelledMatches
  PROVE  ResultOnItsWay
<1> SUFFICES ASSUME caller = "run" PROVE awaited \in input \cup Running \cup output
  BY DEF ResultOnItsWay
<1>1. cancelled = {}
  BY DEF CancelledMatches
<1>2. 0..next_request_id - 1 = input \cup Running \cup output \cup completed \cup Delivered
  BY <1>1 DEF IInv, RequestsKept, NothingLost
<1>3. awaited \in 0..next_request_id - 1 /\ awaited \notin completed \cup Delivered
  BY DEF IInv, RequestsKept, AwaitedNotKept, AwaitedIssued, Issued
<1> QED BY <1>2, <1>3

(* While run waits, its request is queued, or a worker has it, or its      *)
(* result is queued: no worker can have taken it along, since none is      *)
(* cancelled yet, and no other call took its result.                       *)
THEOREM RunWaitsForItsOwn == Spec => []ResultOnItsWay
BY OnItsWay, Invariance, CancelledInvariance, PTL

-----------------------------------------------------------------------------
(* How far run still is from its result, in steps that are not naps.       *)

At(label) == {w \in Workers : worker[w] = label}

Work ==
  4 * Cardinality(input) + 3 * Cardinality(At("run")) + 2 * Cardinality(At("enqueue"))
    + Cardinality(output)

Naps == \E w \in Workers : Sleep(w) \/ WakeUp(w)

RunComesCloser ==
  [][caller = "run" =>
       /\ Work \in Nat \ {0}
       /\ IF Naps THEN Work' = Work ELSE Work' < Work]_vars

LEMMA AllFinite ==
  ASSUME TypeOK
  PROVE  /\ IsFiniteSet(input) /\ Cardinality(input) \in Nat
         /\ IsFiniteSet(output) /\ Cardinality(output) \in Nat
         /\ \A label : IsFiniteSet(At(label)) /\ Cardinality(At(label)) \in Nat
<1>1. NumWorkers \in Nat /\ MaxRequests \in Nat
  BY ThreadPoolAssumption
<1>2. IsFiniteSet(Ids) /\ IsFiniteSet(Workers)
  BY <1>1, FS_Interval DEF Ids, Workers
<1>3. /\ input \subseteq Ids /\ output \subseteq Ids
      /\ \A label : At(label) \subseteq Workers
  BY DEF TypeOK, At
<1>4. IsFiniteSet(input) /\ IsFiniteSet(output) /\ \A label : IsFiniteSet(At(label))
  BY <1>2, <1>3, FS_Subset
<1> QED BY <1>4, FS_CardinalityType

(* A worker goes from one label to another. *)
LEMMA WorkerCounts ==
  ASSUME TypeOK, NEW w \in Workers, NEW from, NEW to, from # to, Does(w, from, to)
  PROVE  /\ Cardinality(At(from)') = Cardinality(At(from)) - 1
         /\ Cardinality(At(to)') = Cardinality(At(to)) + 1
         /\ \A label : label # from /\ label # to => At(label)' = At(label)
<1>1. \A v \in Workers : worker'[v] = IF v = w THEN to ELSE worker[v]
  BY DEF Does, TypeOK
<1>2. worker[w] = from
  BY DEF Does
<1>3. Workers' = Workers
  BY DEF Workers
<1>4. At(from)' = At(from) \ {w} /\ w \in At(from)
  BY <1>1, <1>2, <1>3 DEF At
<1>5. At(to)' = At(to) \cup {w} /\ w \notin At(to)
  BY <1>1, <1>2, <1>3 DEF At
<1>6. \A label : label # from /\ label # to => At(label)' = At(label)
  BY <1>1, <1>2, <1>3 DEF At
<1>7. IsFiniteSet(At(from)) /\ IsFiniteSet(At(to))
  BY AllFinite
<1>8. Cardinality(At(from) \ {w}) = Cardinality(At(from)) - 1
  BY <1>4, <1>7, FS_RemoveElement
<1>9. Cardinality(At(to) \cup {w}) = Cardinality(At(to)) + 1
  BY <1>5, <1>7, FS_AddElement
<1> QED BY <1>4, <1>5, <1>6, <1>8, <1>9

LEMMA WorkIsLeft ==
  ASSUME IInv, CancelledMatches, caller = "run"
  PROVE  Work \in Nat \ {0}
<1>1. TypeOK
  BY DEF IInv, RequestsKept
<1>2. /\ IsFiniteSet(input) /\ Cardinality(input) \in Nat
      /\ IsFiniteSet(output) /\ Cardinality(output) \in Nat
      /\ IsFiniteSet(At("run")) /\ Cardinality(At("run")) \in Nat
      /\ IsFiniteSet(At("enqueue")) /\ Cardinality(At("enqueue")) \in Nat
  BY <1>1, AllFinite
<1>3. input # {} \/ output # {} \/ At("run") # {} \/ At("enqueue") # {}
  <2>1. awaited \in input \cup Running \cup output
    BY OnItsWay DEF ResultOnItsWay
  <2>2. CASE awaited \in Running
    <3>1. PICK w \in Workers : request[w] = awaited /\ awaited \in Ids
      BY <2>2 DEF Running
    <3>2. worker[w] \in {"run", "enqueue"}
      BY <3>1, ThreadPoolAssumption DEF IInv, RequestsMatch
    <3> QED BY <3>2 DEF At
  <2> QED BY <2>1, <2>2
<1>4. \/ Cardinality(input) # 0 \/ Cardinality(output) # 0
      \/ Cardinality(At("run")) # 0 \/ Cardinality(At("enqueue")) # 0
  BY <1>2, <1>3, FS_EmptySet
<1> DEFINE in == Cardinality(input)
           out == Cardinality(output)
           run == Cardinality(At("run"))
           enq == Cardinality(At("enqueue"))
<1>5. Work = 4 * in + 3 * run + 2 * enq + out
  BY DEF Work
<1>6. in \in Nat /\ out \in Nat /\ run \in Nat /\ enq \in Nat
  BY <1>2
<1>7. in # 0 \/ out # 0 \/ run # 0 \/ enq # 0
  BY <1>4
<1> HIDE DEF in, out, run, enq
<1> QED BY <1>5, <1>6, <1>7

LEMMA Weighed ==
  ASSUME NEW a \in Nat, NEW b \in Nat, NEW c \in Nat, NEW d \in Nat
  PROVE  /\ 4 * (a - 1) + 3 * (b + 1) + 2 * c + d < 4 * a + 3 * b + 2 * c + d
         /\ 4 * a + 3 * (b - 1) + 2 * (c + 1) + d < 4 * a + 3 * b + 2 * c + d
         /\ 4 * a + 3 * b + 2 * (c - 1) + d < 4 * a + 3 * b + 2 * c + d
         /\ 4 * a + 3 * b + 2 * (c - 1) + (d + 1) < 4 * a + 3 * b + 2 * c + d
         /\ 4 * a + 3 * b + 2 * c + (d - 1) < 4 * a + 3 * b + 2 * c + d
OBVIOUS

LEMMA WorkGetsLess ==
  ASSUME IInv, CancelledMatches, caller = "run", [Next]_vars, ~UNCHANGED vars
  PROVE  IF Naps THEN Work' = Work ELSE Work' < Work
<1>t. TypeOK
  BY DEF IInv, RequestsKept
<1> DEFINE in == Cardinality(input)
           out == Cardinality(output)
           run == Cardinality(At("run"))
           enq == Cardinality(At("enqueue"))
<1>c. in \in Nat /\ out \in Nat /\ run \in Nat /\ enq \in Nat
  BY <1>t, AllFinite
<1>f. IsFiniteSet(input) /\ IsFiniteSet(output)
  BY <1>t, AllFinite
<1>w. Work = 4 * in + 3 * run + 2 * enq + out
  BY DEF Work
<1>x. Work' = 4 * in' + 3 * run' + 2 * enq' + out'
  BY DEF Work
<1> HIDE DEF in, out, run, enq
<1>1. ASSUME NEW w \in Workers, Sleep(w) \/ WakeUp(w)
      PROVE  Work' = Work
  <2>1. UNCHANGED <<input, output>> /\ (Does(w, "try", "sleep") \/ Does(w, "sleep", "try"))
    BY <1>1 DEF Sleep, WakeUp, queues
  <2>2. At("run")' = At("run") /\ At("enqueue")' = At("enqueue")
    BY <1>t, <2>1, WorkerCounts
  <2> QED BY <2>1, <2>2 DEF Work
<1>2. ASSUME NEW w \in Workers, TakeRequest(w)
      PROVE  Work' < Work
  <2>1. PICK id \in input : input' = input \ {id}
    BY <1>2 DEF TakeRequest
  <2>2. output' = output /\ Does(w, "try", "run")
    BY <1>2 DEF TakeRequest
  <2>3. in' = in - 1 /\ out' = out
    BY <1>f, <2>1, <2>2, FS_RemoveElement DEF in, out
  <2>4. run' = run + 1 /\ enq' = enq
    BY <1>t, <2>2, WorkerCounts DEF run, enq
  <2>5. Work' = 4 * (in - 1) + 3 * (run + 1) + 2 * enq + out
    BY <1>x, <2>3, <2>4
  <2> QED BY <1>c, <1>w, <2>5, Weighed
<1>3. ASSUME NEW w \in Workers, Finish(w)
      PROVE  Work' < Work
  <2>1. UNCHANGED <<input, output>> /\ Does(w, "run", "enqueue")
    BY <1>3 DEF Finish, queues
  <2>2. in' = in /\ out' = out
    BY <2>1 DEF in, out
  <2>3. run' = run - 1 /\ enq' = enq + 1
    BY <1>t, <2>1, WorkerCounts DEF run, enq
  <2>4. Work' = 4 * in + 3 * (run - 1) + 2 * (enq + 1) + out
    BY <1>x, <2>2, <2>3
  <2> QED BY <1>c, <1>w, <2>4, Weighed
<1>4. ASSUME NEW w \in Workers, PutResult(w)
      PROVE  Work' < Work
  <2>1. input' = input /\ output' = output \cup {request[w]} /\ Does(w, "enqueue", "try")
    BY <1>4 DEF PutResult
  <2>2. in' = in /\ out' \in {out, out + 1}
    BY <1>f, <2>1, FS_AddElement DEF in, out
  <2>3. run' = run /\ enq' = enq - 1
    BY <1>t, <2>1, WorkerCounts DEF run, enq
  <2>4. Work' = 4 * in + 3 * run + 2 * (enq - 1) + out'
    BY <1>x, <2>2, <2>3
  <2>5. \/ Work' = 4 * in + 3 * run + 2 * (enq - 1) + out
        \/ Work' = 4 * in + 3 * run + 2 * (enq - 1) + (out + 1)
    BY <2>2, <2>4
  <2> QED BY <1>c, <1>w, <2>5, Weighed
<1>5. ASSUME AwaitResult
      PROVE  Work' < Work
  <2>1. PICK id \in output : output' = output \ {id}
    BY <1>5 DEF AwaitResult
  <2>2. UNCHANGED <<input, worker>>
    BY <1>5 DEF AwaitResult, workers
  <2>3. in' = in /\ out' = out - 1
    BY <1>f, <2>1, <2>2, FS_RemoveElement DEF in, out
  <2>4. run' = run /\ enq' = enq
    BY <2>2 DEF run, enq, At, Workers
  <2>5. Work' = 4 * in + 3 * run + 2 * enq + (out - 1)
    BY <1>x, <2>3, <2>4
  <2> QED BY <1>c, <1>w, <2>5, Weighed
<1>6. \A w \in Workers : ~End(w)
  BY DEF End, CancelledMatches
<1>7. ~(Give \/ Run \/ Take \/ Close \/ Cancel \/ Join \/ Closed)
  BY DEF Give, Run, Take, TakeQueued, TakeKept, TakeNothing, Close, Cancel, Join, Closed
<1>8. CASE Naps
  BY <1>1, <1>8 DEF Naps
<1>9. CASE ~Naps
  <2>1. AwaitResult \/ \E w \in Workers : TakeRequest(w) \/ Finish(w) \/ PutResult(w)
    BY <1>6, <1>7, <1>9 DEF Next, Owner, Step, Naps
  <2> QED BY <1>2, <1>3, <1>4, <1>5, <1>9, <2>1
<1> QED BY <1>8, <1>9

(* `run' comes back: until it has its result, every step of the pool       *)
(* except a worker's falling asleep and waking up brings it nearer, for a  *)
(* natural number gets less.  Nobody but the owner gives requests, so none *)
(* come in while it waits (run and main_loop of stdlib/threadpool.sss).    *)
THEOREM RunEnds == Spec => RunComesCloser
<1>1. IInv /\ CancelledMatches /\ [Next]_vars =>
        [caller = "run" => /\ Work \in Nat \ {0}
                           /\ IF Naps THEN Work' = Work ELSE Work' < Work]_vars
  BY WorkIsLeft, WorkGetsLess
<1> QED BY <1>1, Invariance, CancelledInvariance, PTL DEF Spec, RunComesCloser

-----------------------------------------------------------------------------
(* How far close still is from its end.                                    *)

Rank(label) ==
  CASE label = "ended" -> 0 [] label = "sleep" -> 1 [] label = "try" -> 2
    [] label = "enqueue" -> 3 [] label = "run" -> 4

(* The steps of a cancelled worker until it has ended, at most, *)
StepsOf(w) == 4 * Cardinality(input) + Rank(worker[w])

(* and those of the owner until close comes back. *)
StepsOfClose == 2 * (NumWorkers + 1 - closing) - (IF caller = "join" THEN 1 ELSE 0)

InClose == caller \in {"cancel", "join"}

CloseComesCloser ==
  [][InClose =>
       /\ StepsOfClose \in Nat \ {0}
       /\ IF Cancel \/ Join THEN StepsOfClose' = StepsOfClose - 1
          ELSE /\ UNCHANGED owner
               /\ caller = "join" =>
                    /\ StepsOf(closing) \in Nat /\ closing \in cancelled
                    /\ IF worker'[closing] = worker[closing]
                       THEN StepsOf(closing)' <= StepsOf(closing)
                       ELSE StepsOf(closing)' < StepsOf(closing)]_vars

LEMMA CancelledWorker ==
  ASSUME IInv, CancelledMatches, caller = "join", NEW w \in Workers, Step(w)
  PROVE  IF worker'[closing] = worker[closing]
         THEN StepsOf(closing)' <= StepsOf(closing)
         ELSE StepsOf(closing)' < StepsOf(closing)
<1> DEFINE c == closing
           in == Cardinality(input)
<1>t. TypeOK
  BY DEF IInv, RequestsKept
<1>c. /\ c \in Workers /\ c \in cancelled /\ closing' = c
      /\ worker[c] \in {"try", "sleep", "run", "enqueue", "ended"}
  BY <1>t, WorkerKeeps DEF IInv, ClosingMatches, CancelledMatches, TypeOK
<1>f. IsFiniteSet(input) /\ in \in Nat
  BY <1>t, AllFinite
<1>s. /\ StepsOf(closing) = 4 * in + Rank(worker[c])
      /\ StepsOf(closing)' = 4 * in' + Rank(worker'[c])
  BY <1>c DEF StepsOf, Rank
<1>r. /\ Rank("ended") = 0 /\ Rank("sleep") = 1 /\ Rank("try") = 2
      /\ Rank("enqueue") = 3 /\ Rank("run") = 4
  BY DEF Rank
<1>n. in' = in \/ (TakeRequest(w) /\ in' = in - 1)
  <2>1. CASE TakeRequest(w)
    <3>1. PICK id \in input : input' = input \ {id}
      BY <2>1 DEF TakeRequest
    <3> QED BY <1>f, <2>1, <3>1, FS_RemoveElement
  <2>2. CASE ~TakeRequest(w)
    BY <2>2 DEF Step, Sleep, WakeUp, Finish, PutResult, End, queues
  <2> QED BY <2>1, <2>2
<1>m. \/ w # c /\ worker'[c] = worker[c]
      \/ w = c /\ worker[c] = "try" /\ worker'[c] = "run" /\ in' = in - 1
      \/ w = c /\ worker[c] = "try" /\ worker'[c] = "sleep" /\ in' = in
      \/ w = c /\ worker[c] = "run" /\ worker'[c] = "enqueue" /\ in' = in
      \/ w = c /\ worker[c] = "enqueue" /\ worker'[c] = "try" /\ in' = in
      \/ w = c /\ worker[c] \in {"sleep", "run"} /\ worker'[c] = "ended" /\ in' = in
  <2>1. CASE w # c
    BY <1>c, <2>1, WorkerKeeps
  <2>2. CASE w = c
    <3>1. \A to : worker' = [worker EXCEPT ![w] = to] => worker'[w] = to
      BY <1>t DEF TypeOK
    <3>2. CASE TakeRequest(w)
      <4>1. PICK id \in input : input' = input \ {id}
        BY <3>2 DEF TakeRequest
      <4>2. in' = in - 1
        BY <1>f, <4>1, FS_RemoveElement
      <4> QED BY <2>2, <3>1, <3>2, <4>2 DEF TakeRequest, Does
    <3>3. ~WakeUp(w)
      BY <1>c, <2>2 DEF WakeUp
    <3>4. CASE Sleep(w) \/ Finish(w) \/ PutResult(w) \/ End(w)
      BY <2>2, <3>1, <3>4 DEF Sleep, Finish, PutResult, End, Does, queues
    <3> QED BY <3>2, <3>3, <3>4 DEF Step
  <2> QED BY <2>1, <2>2
<1> HIDE DEF c, in
<1>5. ASSUME worker'[c] = worker[c]
      PROVE  StepsOf(closing)' <= StepsOf(closing)
  <2>1. in' = in \/ in' = in - 1
    BY <1>n
  <2>2. Rank(worker[c]) \in Nat
    BY <1>c, <1>r
  <2> QED BY <1>f, <1>s, <1>5, <2>1, <2>2
<1>6. ASSUME worker'[c] # worker[c]
      PROVE  StepsOf(closing)' < StepsOf(closing)
  BY <1>f, <1>s, <1>r, <1>m, <1>6
<1> QED BY <1>5, <1>6 DEF c

(* `close' comes back: every step of its own brings it nearer its end, and *)
(* while it joins a worker, every step of that worker brings the worker    *)
(* nearer its own.  A cancelled worker runs the queued requests until      *)
(* there are none, but none come in, since the owner is in close; then it  *)
(* sleeps, and ends.                                                       *)
THEOREM CloseEnds == Spec => CloseComesCloser
<1> DEFINE Closer ==
      InClose =>
        /\ StepsOfClose \in Nat \ {0}
        /\ IF Cancel \/ Join THEN StepsOfClose' = StepsOfClose - 1
           ELSE /\ UNCHANGED owner
                /\ caller = "join" =>
                     /\ StepsOf(closing) \in Nat /\ closing \in cancelled
                     /\ IF worker'[closing] = worker[closing]
                        THEN StepsOf(closing)' <= StepsOf(closing)
                        ELSE StepsOf(closing)' < StepsOf(closing)
<1>1. IInv /\ CancelledMatches /\ [Next]_vars => [Closer]_vars
  <2> SUFFICES ASSUME IInv, CancelledMatches, Next, caller \in {"cancel", "join"}
               PROVE  Closer
    BY DEF Closer, InClose
  <2>1. NumWorkers \in Nat /\ closing \in 1..NumWorkers
    BY ThreadPoolAssumption DEF IInv, ClosingMatches, Workers
  <2>2. StepsOfClose \in Nat \ {0}
    BY <2>1 DEF StepsOfClose
  <2>3. CASE Cancel
    <3>1. caller = "cancel" /\ caller' = "join" /\ closing' = closing
      BY <2>3 DEF Cancel
    <3>2. StepsOfClose' = StepsOfClose - 1
      BY <2>1, <3>1 DEF StepsOfClose
    <3> QED BY <2>2, <2>3, <3>2
  <2>4. CASE Join
    <3>1. caller = "join" /\ caller' # "join" /\ closing' = closing + 1
      BY <2>4 DEF Join
    <3>2. StepsOfClose' = StepsOfClose - 1
      BY <2>1, <3>1 DEF StepsOfClose
    <3> QED BY <2>2, <2>4, <3>2
  <2>5. CASE ~Cancel /\ ~Join
    <3>1. PICK w \in Workers : Step(w)
      BY <2>5 DEF Next, Owner, Give, Run, AwaitResult, Take, TakeQueued, TakeKept, TakeNothing,
                  Close, Closed
    <3>2. UNCHANGED owner
      BY <3>1, WorkerKeeps DEF owner
    <3>3. caller = "join" => StepsOf(closing) \in Nat /\ closing \in cancelled
      <4>1. Cardinality(input) \in Nat
        BY AllFinite DEF IInv, RequestsKept
      <4>2. worker[closing] \in {"try", "sleep", "run", "enqueue", "ended"}
        BY <2>1 DEF IInv, RequestsKept, TypeOK, Workers
      <4>3. Rank(worker[closing]) \in {0, 1, 2, 3, 4}
        BY <4>2 DEF Rank
      <4> QED BY <4>1, <4>3 DEF StepsOf, CancelledMatches
    <3> QED BY <2>2, <2>5, <3>1, <3>2, <3>3, CancelledWorker
  <2> QED BY <2>3, <2>4, <2>5
<1> QED BY <1>1, Invariance, CancelledInvariance, PTL DEF Spec, CloseComesCloser
=============================================================================
