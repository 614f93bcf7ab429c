------------------------------- MODULE WTO -------------------------------
(***************************************************************************)
(* Bourdoncle's weak topological order of the nodes reachable from an      *)
(* entry.  visit and component call each other recursively: `frames` is    *)
(* the call stack, and every action advances the call on its top.  The     *)
(* lists that visit receives by reference are the lists of `parts`, the    *)
(* last one belonging to the innermost component call.                     *)
(*                                                                         *)
(* A list of components is kept flat: each node with its cycle depth (the  *)
(* heads of the cycles around it, outermost first, what buildNodeToDepth   *)
(* tabulates) and whether it is the head of a cycle, whose components are  *)
(* the deeper entries right behind it.                                     *)
(***************************************************************************)
EXTENDS Integers, SequencesExt

CONSTANTS Node,
          UINT_MAX   \* the number of a node that has been placed

ASSUME WTOAssumption == UINT_MAX \in Nat \ {0}

VARIABLES succs,    \* the successors of each node, in the order of its out-edges
          cdn,      \* _nodeToCDN: 0 where it has no entry
          num,      \* _num
          stack,    \* _stack
          frames,   \* the calls of visit and component in progress
          parts     \* _components, then the partition of each component in progress

order == <<cdn, num, stack, frames, parts>>

Entry == [node : Node, head : BOOLEAN, depth : Seq(Node)]
Visit(n, d) == [at |-> "visit", node |-> n, todo |-> succs[n], head |-> d, loop |-> FALSE]
ComponentOf(n) == [at |-> "component", node |-> n, todo |-> succs[n], head |-> 0, loop |-> FALSE]

top == Last(frames)
next == Head(top.todo)
done == frames = <<>>

-----------------------------------------------------------------------------
(* A caller looks at the number m of a successor, or at what visiting it     *)
(* returned: component ignores it.                                           *)
MutStrictMin(f, m) ==   \* a broken variant: a self loop makes no cycle
    [f EXCEPT !.todo = Tail(@),
              !.head = IF f.at = "visit" /\ m < @ THEN m ELSE @,
              !.loop = @ \/ (f.at = "visit" /\ m < f.head)]
Saw(f, m) ==
    [f EXCEPT !.todo = Tail(@),
              !.head = IF f.at = "visit" /\ m <= @ THEN m ELSE @,
              !.loop = @ \/ (f.at = "visit" /\ m <= f.head)]

ReturnTo(calls, m) ==
    IF calls = <<>> THEN <<>> ELSE Append(Front(calls), Saw(Last(calls), m))

(* A call visit(n, partition) starts. *)
Enter(n, calls) ==
    /\ num' = num + 1
    /\ cdn' = [cdn EXCEPT ![n] = num + 1]
    /\ stack' = Append(stack, n)
    /\ frames' = Append(calls, Visit(n, num + 1))

(* WTO::init on a fresh object for the given entry. *)
Start(n) ==
    /\ num' = 1
    /\ cdn' = [m \in Node |-> IF m = n THEN 1 ELSE 0]
    /\ stack' = <<n>>
    /\ frames' = <<Visit(n, 1)>>
    /\ parts' = <<<<>>>>

(* The next successor has no number yet: visit it. *)
Descend ==
    /\ ~done /\ top.todo # <<>> /\ cdn[next] = 0
    /\ Enter(next, frames)
    /\ UNCHANGED parts

(* The next successor has a number. *)
Skip ==
    /\ ~done /\ top.todo # <<>> /\ cdn[next] # 0
    /\ frames' = ReturnTo(frames, cdn[next])
    /\ UNCHANGED <<cdn, num, stack, parts>>

(* visit ends on a node that can reach an older one on the stack: the node   *)
(* stays on the stack for that one.                                          *)
Leave ==
    /\ ~done /\ top.at = "visit" /\ top.todo = <<>> /\ top.head # cdn[top.node]
    /\ frames' = ReturnTo(Front(frames), top.head)
    /\ UNCHANGED <<cdn, num, stack, parts>>

pushFront(e) == Append(Front(parts), <<e>> \o Last(parts))

(* visit ends on a node that is in no cycle with an older or equal one. *)
PlaceNode ==
    /\ ~done /\ top.at = "visit" /\ top.todo = <<>> /\ top.head = cdn[top.node]
    /\ ~top.loop
    /\ cdn' = [cdn EXCEPT ![top.node] = UINT_MAX]
    /\ stack' = Front(stack)
    /\ parts' = pushFront([node |-> top.node, head |-> FALSE, depth |-> <<>>])
    /\ frames' = ReturnTo(Front(frames), top.head)
    /\ UNCHANGED num

(* The nodes above n on the stack, which visit pops and renumbers to 0. *)
Popped(n) == {stack[i] : i \in {j \in DOMAIN stack :
                                  \E k \in 1..(j - 1) : stack[k] = n}}

(* visit ends on the head of a cycle and calls component for it. *)
OpenCycle ==
    /\ ~done /\ top.at = "visit" /\ top.todo = <<>> /\ top.head = cdn[top.node]
    /\ top.loop
    /\ cdn' = [m \in Node |-> IF m = top.node THEN UINT_MAX
                              ELSE IF m \in Popped(top.node) THEN 0 ELSE cdn[m]]
    /\ stack' = SubSeq(stack, 1, SelectInSeq(stack, LAMBDA m : m = top.node) - 1)
    /\ parts' = Append(parts, <<>>)
    /\ frames' = Append(frames, ComponentOf(top.node))
    /\ UNCHANGED num

(* The cycle with head n and the given components, in front of the list l. *)
Cycle(n, body) ==
    <<[node |-> n, head |-> TRUE, depth |-> <<>>]>>
    \o [i \in DOMAIN body |-> [body[i] EXCEPT !.depth = <<n>> \o @]]

(* component ends: its cycle is put in front of the caller's list, and the   *)
(* visit that called it ends too.                                            *)
CloseCycle ==
    /\ ~done /\ top.at = "component" /\ top.todo = <<>>
    /\ LET outer == Front(parts) IN
       parts' = Append(Front(outer), Cycle(top.node, Last(parts)) \o Last(outer))
    /\ frames' = ReturnTo(Front(Front(frames)), Last(Front(frames)).head)
    /\ UNCHANGED <<cdn, num, stack>>

WTOStep == Descend \/ Skip \/ Leave \/ PlaceNode \/ OpenCycle \/ CloseCycle

-----------------------------------------------------------------------------
(* What a weak topological order is, on the finished list.                   *)
result == parts[1]
Follows(m, n) == n \in Range(succs[m])
Placed == {result[i].node : i \in DOMAIN result}

(* The nodes in every set that holds n and the successors of its members.    *)
ReachableFrom(n) ==
    LET closed == {T \in SUBSET Node : n \in T /\ \A k \in T : Range(succs[k]) \subseteq T}
    IN {m \in Node : \A T \in closed : m \in T}

(* The nodes of the cycle with head result[i]. *)
CycleNodes(i) ==
    {result[i].node}
    \union {result[j].node : j \in {k \in DOMAIN result : result[i].node \in Range(result[k].depth)}}

(* From every node of B an edge path inside B leads to every other one.      *)
Connected(B) ==
    \A T \in (SUBSET B) \ {{}} :
        (\A m \in T : Range(succs[m]) \intersect B \subseteq T) => T = B
=============================================================================
