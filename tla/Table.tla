-------------------------------- MODULE Table --------------------------------
(***************************************************************************)
(* What an SSS table promises to the program that uses it: a finite map    *)
(* from keys to values, with a fallback table that answers for the keys    *)
(* the table does not hold and a default value when neither holds the key. *)
(* HashMap.tla is shown to implement this specification.                   *)
(***************************************************************************)
CONSTANTS
  Keys,          \* the keys a program may use
  Values,        \* the values a program may store
  NoValue,       \* "no value": the NULL that a failed lookup returns
  Zero,          \* the value of zeroed memory
  Default,       \* the table's default value, or NoValue
  FallbackKeys   \* the keys the fallback tables may hold

VARIABLES
  table,     \* the value stored for every key, or NoValue
  fallback,  \* what the chain of fallback tables answers for every key
  answer,    \* what the last lookup returned
  call       \* the call that has not taken effect yet, or NoCall

vars == <<table, fallback, answer, call>>

NoCall == [kind |-> "none"]

Maybe == Values \cup {NoValue}

(* The first of the two that is a value. *)
Or(v, w) == IF v = NoValue THEN w ELSE v

(* The value a lookup of k finds: own entry, fallback, default, in this order. *)
Lookup(k) == Or(table[k], Or(fallback[k], Default))

Init ==
  /\ table = [k \in Keys |-> NoValue]
  /\ fallback = [k \in Keys |-> NoValue]
  /\ answer = NoValue
  /\ call = NoCall

Begin(c) ==
  /\ call = NoCall /\ call' = c
  /\ UNCHANGED <<table, fallback, answer>>

(* The effect of call c, which takes place once. *)
Does(c) == call = c /\ call' = NoCall

(* A lookup in a table without storage is answered at once. *)
Get(k) ==
  /\ Does(NoCall) \/ Does([kind |-> "get", key |-> k])
  /\ answer' = Lookup(k)
  /\ UNCHANGED <<table, fallback>>

Put(k, v) ==
  /\ Does([kind |-> "set", key |-> k, value |-> v])
  /\ table' = [table EXCEPT ![k] = v]
  /\ UNCHANGED <<fallback, answer>>

(* "t[k] += 1": a missing key is first given the value a lookup shows. *)
Create(k) ==
  /\ Does([kind |-> "set", key |-> k, value |-> NoValue])
  /\ table' = [table EXCEPT ![k] = Or(table[k], Or(Lookup(k), Zero))]
  /\ UNCHANGED <<fallback, answer>>

Remove(k) ==
  /\ Does([kind |-> "remove", key |-> k])
  /\ table' = [table EXCEPT ![k] = NoValue]
  /\ UNCHANGED <<fallback, answer>>

(* The program changes a fallback table: this table does not change. *)
ChangeFallback(k, v) ==
  /\ fallback' = [fallback EXCEPT ![k] = v]
  /\ UNCHANGED <<table, answer, call>>

Calls ==
  [kind : {"get", "remove"}, key : Keys] \cup [kind : {"set"}, key : Keys, value : Maybe]

Next ==
  \/ \E c \in Calls : Begin(c)
  \/ \E k \in Keys : Get(k) \/ Create(k) \/ Remove(k)
  \/ \E k \in Keys, v \in Values : Put(k, v)
  \/ \E k \in FallbackKeys, v \in Maybe : ChangeFallback(k, v)

Spec == Init /\ [][Next]_vars
=============================================================================
