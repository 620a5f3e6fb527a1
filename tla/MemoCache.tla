------------------------------- MODULE MemoCache -------------------------------
(***************************************************************************)
(* A function with a cache of its results, `; cached' or `; cache_size=N'  *)
(* (compile/functions.c, add_cache), that calls itself: the wrapper that   *)
(* looks up, makes room, runs the function and stores the result.  The     *)
(* cache is a hash map as Table specifies it, one for every thread (it is  *)
(* thread-local), so that one thread is all there is to see.               *)
(*                                                                         *)
(* A result is a piece of memory: an array or a table that the cache and   *)
(* the caller then both refer to.                                          *)
(***************************************************************************)
EXTENDS Naturals, Sequences, FiniteSets

CONSTANTS
  Args,      \* the arguments
  Calls,     \* for each, the arguments that the body calls the function with
  Depth,     \* and a measure that the recursion descends
  MaxDepth,
  Limits,    \* the sizes that the cache may be given
  Unlimited, \* one of them: no size
  Blocks,    \* the pieces of memory
  NoArg, NoBlock,
  Writes     \* bound: whether the program changes results that the cache has, too

ASSUME MemoAssumption ==
  /\ Calls \in [Args -> Seq(Args)]
  /\ MaxDepth \in Nat /\ Depth \in [Args -> 1..MaxDepth]
  /\ \A a \in Args : \A i \in DOMAIN Calls[a] : Depth[Calls[a][i]] < Depth[a]
  /\ Limits \subseteq Nat \cup {Unlimited} /\ Unlimited \notin Nat
  /\ IsFiniteSet(Args) /\ NoArg \notin Args /\ NoBlock \notin Blocks

VARIABLES
  limit,    \* max_cache_size
  cached,   \* the arguments with an entry
  result,   \* and the memory of their results
  stack,    \* the calls that run the function, the innermost first
  calling,  \* the argument of the call that is at the wrapper
  held,     \* the result that the program holds
  changed,  \* the memory that it has changed since
  ran       \* history: the arguments that the function has been run for

vars == <<limit, cached, result, stack, calling, held, changed, ran>>

(* A call that runs: its argument, how many of its own calls have come     *)
(* back, and whether they all brought what the function computes.          *)
Frame == [arg : Args, returned : Nat, right : BOOLEAN]

Init ==
  /\ limit \in Limits
  /\ cached = {} /\ result = [a \in Args |-> NoBlock]
  /\ stack = <<>> /\ calling = NoArg /\ held = {}
  /\ changed = {} /\ ran = {}

(* The program calls the function. *)
Call(a) ==
  /\ calling = NoArg /\ stack = <<>>
  /\ calling' = a
  /\ UNCHANGED <<limit, cached, result, stack, held, changed, ran>>

(* The body calls the function. *)
Recur ==
  /\ calling = NoArg /\ stack # <<>>
  /\ LET top == Head(stack)
     IN  /\ top.returned < Len(Calls[top.arg])
         /\ calling' = Calls[top.arg][top.returned + 1]
  /\ UNCHANGED <<limit, cached, result, stack, held, changed, ran>>

(* A result comes back, to the program or to the call below, which reads it. *)
Answer(block, calls) ==
  /\ calling' = NoArg
  /\ IF calls = <<>>
     THEN /\ stack' = <<>>
          /\ \E kept \in {{}} \cup {{b} : b \in held} : held' = kept \cup {block}
     ELSE /\ stack' = <<[Head(calls) EXCEPT !.returned = @ + 1,
                                            !.right = @ /\ block \notin changed']>> \o Tail(calls)
          /\ UNCHANGED held

Hit ==
  /\ calling \in cached
  /\ UNCHANGED changed
  /\ Answer(result[calling], stack)
  /\ UNCHANGED <<limit, cached, result, ran>>

Run ==
  /\ stack' = <<[arg |-> calling, returned |-> 0, right |-> TRUE]>> \o stack
  /\ calling' = NoArg /\ ran' = ran \cup {calling}
  /\ UNCHANGED <<limit, held, changed>>

Full == IF limit = Unlimited THEN FALSE ELSE Cardinality(cached) >= limit

(* Below its limit, or without one, the cache takes another entry later. *)
MissWithRoom ==
  /\ calling \in Args \ cached
  /\ ~Full
  /\ Run /\ UNCHANGED <<cached, result>>

(* Bug: a full cache is not made room in. *)
BugMissFull ==
  /\ calling \in Args \ cached
  /\ Full
  /\ Run /\ UNCHANGED <<cached, result>>

(* Otherwise some entry goes, if there is one: sss_hashmap_remove without  *)
(* a key.  The room is made before the function runs.                      *)
MissFull ==
  /\ calling \in Args \ cached
  /\ Full
  /\ \/ \E a \in cached : /\ cached' = cached \ {a}
                           /\ result' = [result EXCEPT ![a] = NoBlock]
     \/ cached = {} /\ UNCHANGED <<cached, result>>
  /\ Run

(* Which memory is given out does not matter. *)
Unused == CHOOSE b \in Blocks : b \notin {result[a] : a \in cached} \cup held

(* Bug: the result is not stored. *)
BugReturn ==
  /\ calling = NoArg /\ stack # <<>>
  /\ LET top == Head(stack)
     IN  /\ top.returned = Len(Calls[top.arg])
         /\ LET block == Unused
            IN  /\ UNCHANGED <<cached, result>>
                /\ changed' = IF top.right THEN changed \ {block} ELSE changed \cup {block}
                /\ Answer(block, Tail(stack))
  /\ UNCHANGED <<limit, ran>>

(* The function returns fresh memory; the wrapper stores it and returns it *)
(* too, without a mark that it is shared.                                  *)
Return ==
  /\ calling = NoArg /\ stack # <<>>
  /\ LET top == Head(stack)
     IN  /\ top.returned = Len(Calls[top.arg])
         /\ LET block == Unused
            IN  /\ cached' = cached \cup {top.arg}
                /\ result' = [result EXCEPT ![top.arg] = block]
                /\ changed' = IF top.right THEN changed \ {block} ELSE changed \cup {block}
                /\ Answer(block, Tail(stack))
  /\ UNCHANGED <<limit, ran>>

(* Bug: a result that the cache may share is changed in place. *)
BugChange ==
  /\ calling = NoArg /\ stack = <<>>
  /\ \E block \in held : changed' = changed \cup {block} /\ held' = held \ {block}
  /\ UNCHANGED <<limit, cached, result, stack, calling, ran>>

(* The program changes a result that it holds, and goes on with that.      *)
(* Nothing says that the cache may share it: it is changed in place.       *)
Change ==
  /\ calling = NoArg /\ stack = <<>>
  /\ \E block \in held :
       /\ Writes \/ block \notin {result[a] : a \in cached}
       /\ changed' = changed \cup {block}
       /\ held' = held \ {block}
  /\ UNCHANGED <<limit, cached, result, stack, calling, ran>>

Next ==
  \/ \E a \in Args : Call(a)
  \/ Recur \/ Hit \/ MissWithRoom \/ MissFull \/ Return \/ Change

Spec == Init /\ [][Next]_vars

-----------------------------------------------------------------------------
(* The cache outgrows its limit, because a call makes room before the      *)
(* calls that it makes itself take theirs, but not without end: the        *)
(* entries and those still to come are at most as many as the recursion is *)
(* deep, over the limit less the entry that is made room for.              *)
Bounded ==
  limit # Unlimited =>
    Cardinality(cached) + Len(stack) <= (IF limit = 0 THEN 0 ELSE limit - 1) + MaxDepth

(* Without a limit the function runs once for every argument, whatever its *)
(* recursion calls twice, and whoever calls.                               *)
RunsOnce == [][limit = Unlimited /\ Len(stack') > Len(stack) => calling \notin ran]_vars

(* What a call returns is what the function computes, whether it came from *)
(* the cache or not.                                                       *)
Right ==
  /\ held \cap changed = {}
  /\ \A i \in DOMAIN stack : stack[i].right
=============================================================================
