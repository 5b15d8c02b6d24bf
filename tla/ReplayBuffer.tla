---------------------------- MODULE ReplayBuffer ----------------------------
(***************************************************************************)
(* PrioritizedReplayBuffer over SumTree (_internal/_replay_buffer.py): the *)
(* ring of transitions, their priorities in the leaves of a binary tree    *)
(* whose inner nodes hold sums, and the two loops that walk the tree: up   *)
(* after a priority changed, down to draw a leaf.                          *)
(*                                                                         *)
(* The methods do not suspend: pc is "idle" between calls, and any other   *)
(* value is a point inside one.  Priorities are natural numbers, so that   *)
(* the rounding of the float sums is not modelled.                         *)
(*                                                                         *)
(* Callers pass update_priorities() the indices of their last sample(),    *)
(* once, and not across a clear().                                         *)
(***************************************************************************)
EXTENDS Integers, Sequences

CONSTANTS Capacity,     (* capacity of the buffer                          *)
          Priorities,   (* priorities a td_error can give                  *)
          BatchSize,    (* largest batch asked for                         *)
          MaxAdds       (* bound: transitions ever added                   *)

ASSUME BufferAssumption ==
  /\ Capacity \in Nat \ {0}
  /\ Priorities \subseteq Nat \ {0}
  /\ BatchSize \in Nat \ {0}
  /\ MaxAdds \in Nat

VARIABLES
  tree,         (* SumTree._tree                                           *)
  data,         (* SumTree._data: transitions numbered as added; 0: None   *)
  writeIdx,     (* SumTree._write_idx                                      *)
  size,         (* SumTree._size                                           *)
  maxPriority,  (* _max_priority                                           *)
  pc,           (* the loop that runs                                      *)
  cursor,       (* its tree index                                          *)
  change,       (* what _update_tree adds on its way up                    *)
  value,        (* what is left of the value sample() descends with        *)
  ticket,       (* the value it began with                                 *)
  wanted,       (* batch_size of the running sample()                      *)
  segment,      (* draws made by it                                        *)
  batch,        (* tree_indices collected by it, then held by its caller   *)
  todo,         (* index and priority pairs update_priorities has left     *)
  added         (* history: transitions added                              *)

ring   == <<data, writeIdx, size, added>>
walk   == <<pc, cursor>>
draw   == <<value, ticket, wanted, segment, batch>>
vars   == <<tree, ring, maxPriority, walk, change, draw, todo>>

Nodes  == 0..(2 * Capacity - 2)
Slots  == 0..(Capacity - 1)
Leaf(i) == i + Capacity - 1
Slot(k) == k - Capacity + 1
Inner  == 0..(Capacity - 2)
Left(k)  == 2 * k + 1
Right(k) == 2 * k + 2
Parent(k) == (k - 1) \div 2

Larger(a, b) == IF a > b THEN a ELSE b
Smaller(a, b) == IF a < b THEN a ELSE b

Total == tree[0]

Init ==
  /\ tree = [k \in Nodes |-> 0]
  /\ data = [i \in Slots |-> 0]
  /\ writeIdx = 0
  /\ size = 0
  /\ maxPriority = 1
  /\ pc = "idle"
  /\ cursor = 0
  /\ change = 0
  /\ value = 0
  /\ ticket = 0
  /\ wanted = 0
  /\ segment = 0
  /\ batch = <<>>
  /\ todo = <<>>
  /\ added = 0
-----------------------------------------------------------------------------
(* _update_tree up to its loop.                                            *)
SetLeaf(k, p) ==
  /\ tree' = [tree EXCEPT ![k] = p]
  /\ change' = p - tree[k]
  /\ cursor' = k
  /\ pc' = "bubbling"

(* Mutant of Bubble: a priority overwritten in the ring is not taken off.  *)
BubbleUp ==
  /\ pc = "bubbling"
  /\ cursor > 0
  /\ cursor' = Parent(cursor)
  /\ tree' = [tree EXCEPT ![cursor'] = @ + Larger(change, 0)]
  /\ UNCHANGED <<ring, maxPriority, pc, change, draw, todo>>

(* One pass of its loop.                                                   *)
Bubble ==
  /\ pc = "bubbling"
  /\ cursor > 0
  /\ cursor' = Parent(cursor)
  /\ tree' = [tree EXCEPT ![cursor'] = @ + change]
  /\ UNCHANGED <<ring, maxPriority, pc, change, draw, todo>>

BubbleEnd ==
  /\ pc = "bubbling"
  /\ cursor = 0
  /\ pc' = IF todo = <<>> THEN "idle" ELSE "updating"
  /\ UNCHANGED <<tree, ring, maxPriority, cursor, change, draw, todo>>

(* Mutant of NextSlot: the last slot of the ring is skipped.               *)
NextSlotShort(i) == (i + 1) % Larger(Capacity - 1, 1)

NextSlot(i) == (i + 1) % Capacity

(* add(): with a td_error any priority, without one the largest so far.    *)
Add ==
  /\ pc = "idle"
  /\ added < MaxAdds
  /\ \E p \in Priorities \cup {maxPriority} : SetLeaf(Leaf(writeIdx), p)
  /\ data' = [data EXCEPT ![writeIdx] = added + 1]
  /\ writeIdx' = NextSlot(writeIdx)
  /\ size' = Smaller(size + 1, Capacity)
  /\ added' = added + 1
  /\ UNCHANGED <<maxPriority, draw, todo>>

(* Mutant of Clear: the transitions go, their priorities stay.             *)
ClearData ==
  /\ pc = "idle"
  /\ data' = [i \in Slots |-> 0]
  /\ writeIdx' = 0
  /\ size' = 0
  /\ maxPriority' = 1
  /\ batch' = <<>>
  /\ UNCHANGED <<tree, walk, change, value, ticket, wanted, segment, todo, added>>

Clear ==
  /\ pc = "idle"
  /\ tree' = [k \in Nodes |-> 0]
  /\ data' = [i \in Slots |-> 0]
  /\ writeIdx' = 0
  /\ size' = 0
  /\ maxPriority' = 1
  /\ batch' = <<>>
  /\ UNCHANGED <<walk, change, value, ticket, wanted, segment, todo, added>>
-----------------------------------------------------------------------------
(* sample(): nothing is drawn from an empty tree; callers ask for no more  *)
(* than there is.                                                          *)
BeginSample ==
  /\ pc = "idle"
  /\ Total # 0
  /\ wanted' \in 1..Smaller(BatchSize, size)
  /\ segment' = 0
  /\ batch' = <<>>
  /\ pc' = "drawing"
  /\ UNCHANGED <<tree, ring, maxPriority, cursor, change, value, ticket, todo>>

(* uniform(total / batch_size * i, total / batch_size * (i + 1)).          *)
InSegment(v) == Total * segment <= v * wanted /\ v * wanted <= Total * (segment + 1)

Draw ==
  /\ pc = "drawing"
  /\ segment < wanted
  /\ \E v \in 0..Total : InSegment(v) /\ value' = v /\ ticket' = v
  /\ cursor' = 0
  /\ pc' = "descending"
  /\ UNCHANGED <<tree, ring, maxPriority, change, wanted, segment, batch, todo>>

(* Mutant of Descend: the right child's sum is taken off.                  *)
DescendTakesRight ==
  /\ pc = "descending"
  /\ cursor \in Inner
  /\ \/ value <= tree[Left(cursor)] /\ cursor' = Left(cursor) /\ UNCHANGED value
     \/ /\ value > tree[Left(cursor)]
        /\ cursor' = Right(cursor)
        /\ value' = value - tree[Right(cursor)]
  /\ UNCHANGED <<tree, ring, maxPriority, pc, change, ticket, wanted, segment, batch, todo>>

(* One pass of the loop of SumTree.sample.                                 *)
Descend ==
  /\ pc = "descending"
  /\ cursor \in Inner
  /\ \/ value <= tree[Left(cursor)] /\ cursor' = Left(cursor) /\ UNCHANGED value
     \/ /\ value > tree[Left(cursor)]
        /\ cursor' = Right(cursor)
        /\ value' = value - tree[Left(cursor)]
  /\ UNCHANGED <<tree, ring, maxPriority, pc, change, ticket, wanted, segment, batch, todo>>

(* A slot without data is left out of the batch.                           *)
Land ==
  /\ pc = "descending"
  /\ cursor \notin Inner
  /\ batch' = IF data[Slot(cursor)] = 0 THEN batch ELSE Append(batch, cursor)
  /\ segment' = segment + 1
  /\ pc' = "drawing"
  /\ UNCHANGED <<tree, ring, maxPriority, cursor, change, value, ticket, wanted, todo>>

EndSample ==
  /\ pc = "drawing"
  /\ segment = wanted
  /\ pc' = "idle"
  /\ UNCHANGED <<tree, ring, maxPriority, cursor, change, draw, todo>>

(* update_priorities(): the indices may name slots written over since.     *)
BeginUpdate ==
  /\ pc = "idle"
  /\ batch # <<>>
  /\ \E p \in [DOMAIN batch -> Priorities] : todo' = [i \in DOMAIN batch |-> <<batch[i], p[i]>>]
  /\ batch' = <<>>
  /\ pc' = "updating"
  /\ UNCHANGED <<tree, ring, maxPriority, cursor, change, value, ticket, wanted, segment>>

UpdateNext ==
  /\ pc = "updating"
  /\ todo # <<>>
  /\ SetLeaf(Head(todo)[1], Head(todo)[2])
  /\ maxPriority' = Larger(maxPriority, Head(todo)[2])
  /\ todo' = Tail(todo)
  /\ UNCHANGED <<ring, draw>>

Next ==
  \/ Add \/ Clear
  \/ Bubble \/ BubbleEnd
  \/ BeginSample \/ Draw \/ Descend \/ Land \/ EndSample
  \/ BeginUpdate \/ UpdateNext

Spec == Init /\ [][Next]_vars
-----------------------------------------------------------------------------
TypeOK ==
  /\ tree \in [Nodes -> Nat]
  /\ data \in [Slots -> 0..MaxAdds]
  /\ writeIdx \in Slots
  /\ size \in 0..Capacity
  /\ maxPriority \in Nat \ {0}
  /\ pc \in {"idle", "bubbling", "drawing", "descending", "updating"}
  /\ cursor \in Nodes
  /\ change \in Int
  /\ value \in Nat
  /\ ticket \in Nat
  /\ wanted \in Nat
  /\ segment \in Nat
  /\ batch \in Seq(Nodes \ Inner)
  /\ todo \in Seq((Nodes \ Inner) \X Priorities)
  /\ added \in 0..MaxAdds

(* Every inner node holds the sum of its children, but for the change that *)
(* is on its way to the parent of the node the loop is at.                 *)
Owed(k) == IF pc = "bubbling" /\ cursor > 0 /\ k = Parent(cursor) THEN change ELSE 0
SumsAgree == \A k \in Inner : tree[k] + Owed(k) = tree[Left(k)] + tree[Right(k)]

(* A slot has a positive priority exactly if it holds a transition, so     *)
(* that stale indices revive no empty slot.                                *)
PositiveIffStored == \A i \in Slots : tree[Leaf(i)] > 0 <=> data[i] # 0

(* The sum of the priorities left of the subtree of each node.             *)
Before[k \in Nodes] ==
  IF k = 0 THEN 0
  ELSE IF k = Left(Parent(k)) THEN Before[Parent(k)]
  ELSE Before[Parent(k)] + tree[Left(Parent(k))]

(* Draws are proportional: the values that end in a leaf are those of an   *)
(* interval as long as its priority, from the sum of those left of it and  *)
(* without that sum.  So no slot is drawn that was never filled, unless    *)
(* the random value is exactly 0.                                          *)
DrawIsProportional ==
  pc = "descending" =>
    /\ ticket = Before[cursor] + value
    /\ value <= tree[cursor]
    /\ ticket > 0 => value > 0

(* The ring holds the newest transitions, each once.                       *)
HoldsNewest == {data[i] : i \in Slots} \ {0} = (added - size + 1)..added
=============================================================================
