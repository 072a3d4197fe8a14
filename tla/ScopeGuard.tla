----------------------------- MODULE ScopeGuard -----------------------------
(* Guards in nested scopes (scope_guard.hpp), which the readers close their *)
(* handles with: functions are registered, scopes are left or an exception  *)
(* passes, and a function or an allocation may throw.                       *)
EXTENDS Naturals, Sequences, SequencesExt

CONSTANTS
  MaxFuncs,   \* bound of the model: functions registered
  MaxScopes   \* bound of the model: scopes in each other

VARIABLES
  scopes,     \* the scopes open, innermost last, each a sequence of guards
  exit,       \* "none", "leaving" the innermost scope, "unwinding", "terminated"
  guards,     \* the number of guards made
  functions,  \* history: of each function its guard and how many had run before
  ran         \* history: the functions run

vars == <<scopes, exit, guards, functions, ran>>

Init ==
  /\ scopes = <<<<>>>> /\ exit = "none" /\ guards = 0 /\ functions = <<>> /\ ran = <<>>

\* C++ (external).
OpenScope ==
  /\ exit = "none" /\ Len(scopes) \in 1..MaxScopes - 1
  /\ scopes' = Append(scopes, <<>>)
  /\ UNCHANGED <<exit, guards, functions, ran>>

\* Another function is registered with guard g.
Registered(g) == Append(functions, [guard |-> g, after |-> Len(ran)])

\* An empty std::function throws when called.
Empty == 0

\* A guard has the functions it calls, in order: none or one of
\* ScopeGuard(), ScopeGuard(func), SCOPE_EXIT.
Guard ==
  /\ exit = "none" /\ scopes # <<>> /\ guards < MaxFuncs /\ guards' = guards + 1
  /\ \E func \in {<<>>, <<Len(functions) + 1>>} :
       /\ functions' = IF func = <<>> THEN functions ELSE Registered(guards')
       /\ Len(functions') <= MaxFuncs
       /\ scopes' = [scopes EXCEPT ![Len(scopes)] = Append(@, [id |-> guards', calls |-> func])]
  /\ UNCHANGED <<exit, ran>>

\* Mutants: the functions are called as they are registered; only the last is.
CallsInOrder(cur_func, another_func) == Append(cur_func, another_func)
CallsLast(cur_func, another_func) == <<another_func>>

\* another_func(); cur_func();
Calls(cur_func, another_func) == <<another_func>> \o cur_func

\* operator+=: cur_func is moved away before the new function is allocated.
Add ==
  /\ exit = "none" /\ Len(functions) < MaxFuncs
  /\ \E s \in 1..Len(scopes) : \E k \in 1..Len(scopes[s]) :
       LET guard == scopes[s][k]
           func == Len(functions) + 1
       IN  \/ /\ scopes' = [scopes EXCEPT ![s][k].calls = Calls(guard.calls, func)]
              /\ functions' = Registered(guard.id) /\ UNCHANGED exit
           \/ /\ exit' = "unwinding"
              /\ scopes' = [scopes EXCEPT ![s][k].calls = <<Empty>>]
              /\ UNCHANGED functions
  /\ UNCHANGED <<guards, ran>>

\* The end of the innermost scope, or an exception (external).
Leave ==
  /\ exit = "none" /\ scopes # <<>> /\ exit' \in {"leaving", "unwinding"}
  /\ UNCHANGED <<scopes, guards, functions, ran>>

\* The guards of the scope that is left are destroyed last first, and each
\* calls its functions; one that throws ends the program (noexcept).
Destroy ==
  /\ exit \in {"leaving", "unwinding"} /\ Last(scopes) # <<>>
  /\ \E calls \in {Last(Last(scopes)).calls} :
       CASE calls = <<>> ->
              scopes' = [scopes EXCEPT ![Len(scopes)] = Front(@)] /\ UNCHANGED <<exit, ran>>
         [] calls # <<>> /\ Head(calls) = Empty ->
              exit' = "terminated" /\ UNCHANGED <<scopes, ran>>
         [] OTHER ->
              /\ ran' = Append(ran, Head(calls)) /\ exit' \in {exit, "terminated"}
              /\ scopes' = [scopes EXCEPT ![Len(scopes)][Len(Last(scopes))].calls = Tail(@)]
  /\ UNCHANGED <<guards, functions>>

\* The scope is gone; an exception is caught outside of it or goes on.
Gone ==
  /\ exit \in {"leaving", "unwinding"} /\ Last(scopes) = <<>>
  /\ scopes' = Front(scopes)
  /\ exit' \in IF exit = "leaving" \/ scopes' = <<>> THEN {"none"} ELSE {"none", "unwinding"}
  /\ UNCHANGED <<guards, functions, ran>>

Next == OpenScope \/ Guard \/ Add \/ Leave \/ Destroy \/ Gone

Spec == Init /\ [][Next]_vars
-----------------------------------------------------------------------------
\* Functions run in the reverse of the order they were registered in, those
\* of a guard as those of the guards of a scope and of the scopes: of two that
\* wait at the same time, the one of the later guard, or registered later with
\* the same, is the first (scope_guard.hpp:42).
LaterRunsFirst ==
  \A i, j \in 1..Len(ran) : i < j =>
    LET f == ran[i]
        g == ran[j]
    IN  functions[g].after < i =>
          \/ functions[g].guard < functions[f].guard
          \/ functions[g].guard = functions[f].guard /\ g < f

\* No function runs twice, and every one has run when its scope is gone, be it
\* left or unwound (scope_guard.hpp:1-2).
RunOnceAtExit ==
  LET waiting == UNION {{guard.id : guard \in ToSet(scope)} : scope \in ToSet(scopes)}
  IN  /\ \A i, j \in 1..Len(ran) : i # j => ran[i] # ran[j]
      /\ \A f \in 1..Len(functions) : functions[f].guard \in waiting \/ Contains(ran, f)
=============================================================================
