---------------------------- MODULE ManagedHeap ----------------------------
(***************************************************************************)
(* What the heap promises its users, with no generations, remembered set,  *)
(* barrier or collection cycle: an object stays, with its references, for  *)
(* as long as a pinned object reaches it, and a handle that was returned   *)
(* once is never returned again.                                           *)
(***************************************************************************)
EXTENDS Naturals, Reachability

VARIABLES
  graph,   \* the references of every live object
  issued,  \* the handles returned so far
  pins     \* how often each pinned handle is pinned

vars == <<graph, issued, pins>>

Init == graph = << >> /\ issued = {} /\ pins = << >>

Allocate(new) ==
  /\ DOMAIN new \subseteq Handle \ issued
  /\ \A h \in DOMAIN new : new[h] \subseteq DOMAIN new \cup DOMAIN graph
  /\ graph' = [h \in DOMAIN graph \cup DOMAIN new |->
                 IF h \in DOMAIN new THEN new[h] ELSE graph[h]]
  /\ issued' = issued \cup DOMAIN new
  /\ UNCHANGED pins

Store(owner, target) ==
  /\ {owner, target} \subseteq DOMAIN graph
  /\ graph' = [graph EXCEPT ![owner] = @ \cup {target}]
  /\ UNCHANGED <<issued, pins>>

Pin(h) ==
  /\ h \in DOMAIN graph
  /\ pins' = [k \in DOMAIN pins \cup {h} |->
                IF k # h THEN pins[k] ELSE IF h \in DOMAIN pins THEN pins[h] + 1 ELSE 1]
  /\ UNCHANGED <<graph, issued>>

Unpin(h) ==
  /\ h \in DOMAIN pins
  /\ pins' = IF pins[h] > 1 THEN [pins EXCEPT ![h] = @ - 1]
             ELSE [k \in DOMAIN pins \ {h} |-> pins[k]]
  /\ UNCHANGED <<graph, issued>>

\* A collection of any kind, free to leave garbage behind.
Collect(dead) ==
  /\ dead \subseteq DOMAIN graph \ Reach(graph, DOMAIN pins)
  /\ graph' = [h \in DOMAIN graph \ dead |-> graph[h]]
  /\ UNCHANGED <<issued, pins>>

Next ==
  \/ \E batch \in SUBSET Handle : \E new \in [batch -> SUBSET Handle] : Allocate(new)
  \/ \E owner, target \in Handle : Store(owner, target)
  \/ \E h \in Handle : Pin(h) \/ Unpin(h)
  \/ \E dead \in SUBSET Handle : Collect(dead)

Spec == Init /\ [][Next]_vars
=============================================================================
