------------------------------ MODULE CallSpec ------------------------------
(***************************************************************************)
(* What a client connection promises to the goroutines that share it.      *)
(*                                                                         *)
(* A call is a pair <<thread, number>>.  A thread makes its calls one       *)
(* after the other; the opener's only call is the handshake, and nobody     *)
(* else calls before it has succeeded.  The server executes a call at most  *)
(* once.  A call that returns "ok" was carried out by the server; one that  *)
(* returns "refused" was rejected by it; a call that "failed" tells nothing *)
(* about the server: it may have been executed, it may be executed later,   *)
(* or never.                                                                *)
(***************************************************************************)
EXTENDS Naturals

CONSTANTS Callers,    \* the goroutines that share the client
          Opener,     \* the goroutine that runs Connect
          MaxCalls    \* bound: calls one goroutine makes

VARIABLES invoked,    \* the calls made so far
          effect,     \* what the server did for each call
          answer      \* what each call returned

callVars == <<invoked, effect, answer>>

Threads == Callers \cup {Opener}
Calls   == Threads \X (1..MaxCalls)

Effects == {"none", "done", "refused"}
Answers == {"none", "ok", "refused", "failed"}

CallTypeOK == /\ invoked \subseteq Calls
              /\ effect \in [Calls -> Effects]
              /\ answer \in [Calls -> Answers]

CallInit == /\ invoked = {}
            /\ effect = [k \in Calls |-> "none"]
            /\ answer = [k \in Calls |-> "none"]

\* Thread t makes its i-th call: its previous one has returned.
Invoke(t, i) ==
    /\ <<t, i>> \in Calls \ invoked
    /\ i > 1 => answer[<<t, i - 1>>] # "none"
    /\ t # Opener => answer[<<Opener, 1>>] = "ok"
    /\ invoked' = invoked \cup {<<t, i>>}
    /\ UNCHANGED <<effect, answer>>

\* The server executes a call, once.  The caller may have given up by then.
Execute(k) ==
    /\ k \in invoked
    /\ effect[k] = "none"
    /\ \E e \in {"done", "refused"} : effect' = [effect EXCEPT ![k] = e]
    /\ UNCHANGED <<invoked, answer>>

Consistent(a, e) == /\ a = "ok" => e = "done"
                    /\ a = "refused" => e = "refused"

Return(k) ==
    /\ k \in invoked
    /\ answer[k] = "none"
    /\ \E a \in Answers \ {"none"} :
          /\ Consistent(a, effect[k])
          /\ answer' = [answer EXCEPT ![k] = a]
    /\ UNCHANGED <<invoked, effect>>

CallNext == \/ \E t \in Threads, i \in 1..MaxCalls : Invoke(t, i)
            \/ \E k \in Calls : Execute(k) \/ Return(k)

CallSpec == CallInit /\ [][CallNext]_callVars
=============================================================================
