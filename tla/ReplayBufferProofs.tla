------------------------- MODULE ReplayBufferProofs -------------------------
(***************************************************************************)
(* Proofs about ReplayBuffer for any capacity, also one that is no power   *)
(* of two: the sums of the tree agree, a draw finds a transition, and the  *)
(* ring holds the newest ones.                                             *)
(*                                                                         *)
(* The walk up leaves one node wrong at a time, by the change it carries   *)
(* (Owed in SumsAgree); the walk down stays within the sum of its subtree  *)
(* (WalkInRange), so that it cannot end in an empty slot.  What lies left  *)
(* of a node (Before) is defined by recursion over the tree: that it has a *)
(* value at every node is shown by looking at the least one where it has   *)
(* none.                                                                   *)
(***************************************************************************)
EXTENDS ReplayBuffer, WellFoundedInduction, TLAPS

WalkInRange ==
  pc = "descending" => value <= tree[cursor] /\ (ticket > 0 => value > 0)

(* The slots that indices out of sample() name are filled.                 *)
IndicesStored ==
  /\ \A i \in DOMAIN batch : data[Slot(batch[i])] # 0
  /\ \A i \in DOMAIN todo : data[Slot(todo[i][1])] # 0
  /\ pc \notin {"updating", "bubbling"} => todo = <<>>

IInv == TypeOK /\ SumsAgree /\ PositiveIffStored /\ WalkInRange /\ IndicesStored
-----------------------------------------------------------------------------
LEMMA LeafArith ==
  /\ \A i \in Slots : Leaf(i) \in Nodes \ Inner /\ Slot(Leaf(i)) = i
  /\ \A k \in Nodes \ Inner : Slot(k) \in Slots /\ Leaf(Slot(k)) = k
BY BufferAssumption DEF Nodes, Slots, Inner, Leaf, Slot

LEMMA ChildArith ==
  \A j \in Inner :
    /\ j \in Nodes
    /\ Left(j) \in Nodes /\ Right(j) \in Nodes
    /\ Left(j) # j /\ Right(j) # j /\ Left(j) # Right(j)
    /\ Left(j) > 0 /\ Right(j) > 0
BY BufferAssumption DEF Nodes, Inner, Left, Right

LEMMA ParentArith ==
  ASSUME NEW k \in Nodes, k > 0
  PROVE  /\ Parent(k) \in Inner
         /\ Parent(k) < k
         /\ \A j \in Inner : j = Parent(k) <=> (k = Left(j) \/ k = Right(j))
BY BufferAssumption DEF Nodes, Inner, Parent, Left, Right

(* A leaf that is set owes its parent the difference, and no other node.   *)
LEMMA SetLeafSums ==
  ASSUME TypeOK, SumsAgree, pc # "bubbling",
         NEW k \in Nodes \ Inner, NEW p \in Nat, SetLeaf(k, p)
  PROVE  /\ tree' \in [Nodes -> Nat]
         /\ change' \in Int
         /\ cursor' \in Nodes
         /\ pc' = "bubbling"
         /\ SumsAgree'
<1>1. /\ tree' \in [Nodes -> Nat] /\ change' \in Int /\ cursor' \in Nodes
      /\ pc' = "bubbling" /\ cursor' = k /\ change' = p - tree[k]
  BY DEF TypeOK, SetLeaf
<1>2. ASSUME NEW j \in Inner
      PROVE  tree'[j] + Owed(j)' = tree'[Left(j)] + tree'[Right(j)]
  <2>1. tree[j] = tree[Left(j)] + tree[Right(j)]
    BY ChildArith DEF SumsAgree, Owed, TypeOK
  <2>2. tree'[j] = tree[j]
    BY ChildArith DEF SetLeaf, TypeOK
  <2>3. tree[j] \in Nat /\ tree[Left(j)] \in Nat /\ tree[Right(j)] \in Nat
    BY ChildArith DEF TypeOK
  <2>4. CASE k > 0 /\ j = Parent(k)
    <3>1. Owed(j)' = p - tree[k]
      BY <1>1, <2>4 DEF Owed
    <3>2. k = Left(j) \/ k = Right(j)
      BY <2>4, ParentArith
    <3>3. CASE k = Left(j)
      <4>1. tree'[Left(j)] = p /\ tree'[Right(j)] = tree[Right(j)]
        BY <3>3, ChildArith DEF SetLeaf, TypeOK
      <4> QED
        BY <2>1, <2>2, <2>3, <3>1, <3>3, <4>1
    <3>4. CASE k = Right(j)
      <4>1. tree'[Right(j)] = p /\ tree'[Left(j)] = tree[Left(j)]
        BY <3>4, ChildArith DEF SetLeaf, TypeOK
      <4> QED
        BY <2>1, <2>2, <2>3, <3>1, <3>4, <4>1
    <3> QED
      BY <3>2, <3>3, <3>4
  <2>5. CASE ~(k > 0 /\ j = Parent(k))
    <3>1. Owed(j)' = 0
      BY <1>1, <2>5 DEF Owed
    <3>2. k # Left(j) /\ k # Right(j)
      BY <2>5, ParentArith, ChildArith
    <3>3. tree'[Left(j)] = tree[Left(j)] /\ tree'[Right(j)] = tree[Right(j)]
      BY <3>2, ChildArith DEF SetLeaf, TypeOK
    <3> QED
      BY <2>1, <2>2, <2>3, <3>1, <3>3
  <2> QED
    BY <2>4, <2>5
<1> QED
  BY <1>1, <1>2 DEF SumsAgree

(* The change passes from a node to its parent.                            *)
LEMMA BubbleSums ==
  ASSUME TypeOK, SumsAgree, Bubble
  PROVE  /\ tree' \in [Nodes -> Nat]
         /\ cursor' \in Nodes
         /\ \A k \in Nodes \ Inner : tree'[k] = tree[k]
         /\ SumsAgree'
<1> DEFINE m == Parent(cursor)
<1>1. m \in Inner /\ m \in Nodes /\ cursor \in Nodes /\ cursor > 0 /\ m < cursor
  BY ParentArith, ChildArith DEF TypeOK, Bubble
<1>2. /\ pc = "bubbling" /\ pc' = "bubbling" /\ cursor' = m /\ change' = change
      /\ change \in Int
      /\ tree' = [tree EXCEPT ![m] = tree[m] + change]
  BY DEF Bubble, TypeOK
<1> HIDE DEF m
<1>3. tree[m] + change = tree[Left(m)] + tree[Right(m)]
  BY <1>1, <1>2 DEF SumsAgree, Owed, m
<1>4. tree' \in [Nodes -> Nat]
  BY <1>1, <1>2, <1>3, ChildArith DEF TypeOK
<1>5. ASSUME NEW j \in Inner
      PROVE  tree'[j] + Owed(j)' = tree'[Left(j)] + tree'[Right(j)]
  <2>1. CASE j = m
    <3>1. Owed(j)' = 0
      BY <1>1, <1>2, <2>1, ParentArith, ChildArith DEF Owed, Nodes
    <3> QED
      BY <1>1, <1>2, <1>3, <2>1, <3>1, ChildArith DEF TypeOK
  <2>2. CASE j # m /\ m > 0 /\ j = Parent(m)
    <3>1. Owed(j) = 0 /\ Owed(j)' = change
      BY <1>2, <2>2 DEF Owed, m
    <3>2. m = Left(j) \/ m = Right(j)
      BY <1>1, <2>2, ParentArith
    <3>3. tree[j] = tree[Left(j)] + tree[Right(j)]
      BY <3>1, ChildArith DEF SumsAgree, TypeOK
    <3>4. tree'[j] = tree[j] /\ tree[j] \in Nat /\ tree[Left(j)] \in Nat /\ tree[Right(j)] \in Nat
      BY <1>2, <2>2, ChildArith DEF TypeOK
    <3>5. CASE m = Left(j)
      <4>1. tree'[Left(j)] = tree[Left(j)] + change /\ tree'[Right(j)] = tree[Right(j)]
        BY <1>1, <1>2, <3>5, ChildArith DEF TypeOK
      <4> QED
        BY <1>2, <3>1, <3>3, <3>4, <4>1
    <3>6. CASE m = Right(j)
      <4>1. tree'[Right(j)] = tree[Right(j)] + change /\ tree'[Left(j)] = tree[Left(j)]
        BY <1>1, <1>2, <3>6, ChildArith DEF TypeOK
      <4> QED
        BY <1>2, <3>1, <3>3, <3>4, <4>1
    <3> QED
      BY <3>2, <3>5, <3>6
  <2>3. CASE j # m /\ ~(m > 0 /\ j = Parent(m))
    <3>1. Owed(j) = 0 /\ Owed(j)' = 0
      BY <1>2, <2>3 DEF Owed, m
    <3>2. m # Left(j) /\ m # Right(j)
      BY <1>1, <2>3, ParentArith, ChildArith
    <3>3. tree[j] = tree[Left(j)] + tree[Right(j)]
      BY <3>1, ChildArith DEF SumsAgree, TypeOK
    <3> QED
      BY <1>1, <1>2, <2>3, <3>1, <3>2, <3>3, ChildArith DEF TypeOK
  <2> QED
    BY <2>1, <2>2, <2>3
<1>6. \A k \in Nodes \ Inner : tree'[k] = tree[k]
  BY <1>1, <1>2 DEF TypeOK
<1> QED
  BY <1>1, <1>2, <1>4, <1>5, <1>6 DEF SumsAgree
-----------------------------------------------------------------------------
LEMMA InitInv == Init => IInv
<1> SUFFICES ASSUME Init PROVE IInv
  OBVIOUS
<1>1. 0 \in Nodes /\ 0 \in Slots
  BY BufferAssumption DEF Nodes, Slots
<1>2. TypeOK
  BY <1>1, BufferAssumption DEF Init, TypeOK
<1>3. SumsAgree
  BY ChildArith DEF Init, SumsAgree, Owed
<1>4. PositiveIffStored
  BY LeafArith DEF Init, PositiveIffStored
<1> QED
  BY <1>2, <1>3, <1>4 DEF Init, IInv, WalkInRange, IndicesStored

(* A step that leaves the tree alone and starts or ends no walk up keeps   *)
(* the sums.                                                               *)
LEMMA SumsKept ==
  ASSUME SumsAgree, tree' = tree, pc' # "bubbling", pc # "bubbling" \/ cursor = 0
  PROVE  SumsAgree'
<1>1. \A j \in Inner : Owed(j) = 0 /\ Owed(j)' = 0
  BY DEF Owed
<1> QED
  BY <1>1 DEF SumsAgree

(* Setting a filled leaf to a positive priority.                           *)
LEMMA SetLeafStored ==
  ASSUME TypeOK, PositiveIffStored, NEW k \in Nodes \ Inner, NEW p \in Nat \ {0},
         SetLeaf(k, p), NEW v \in Nat \ {0}, data' = [data EXCEPT ![Slot(k)] = v]
  PROVE  /\ PositiveIffStored'
         /\ \A i \in Slots : data[i] # 0 => data'[i] # 0
<1>1. Slot(k) \in Slots /\ Leaf(Slot(k)) = k
  BY LeafArith
<1>2. ASSUME NEW i \in Slots
      PROVE  (tree'[Leaf(i)] > 0 <=> data'[i] # 0) /\ (data[i] # 0 => data'[i] # 0)
  <2>1. CASE i = Slot(k)
    BY <1>1, <2>1, LeafArith DEF SetLeaf, TypeOK
  <2>2. CASE i # Slot(k)
    <3>1. Leaf(i) # k /\ Leaf(i) \in Nodes
      BY <2>2, LeafArith
    <3>2. tree'[Leaf(i)] = tree[Leaf(i)] /\ data'[i] = data[i]
      BY <1>1, <2>2, <3>1 DEF SetLeaf, TypeOK
    <3> QED
      BY <3>2 DEF PositiveIffStored
  <2> QED
    BY <2>1, <2>2
<1> QED
  BY <1>2 DEF PositiveIffStored

(* A transition, once in a slot, is only replaced by another one, so that  *)
(* indices that name filled slots go on to do so.                          *)
LEMMA AddInv == IInv /\ Add => IInv'
<1> SUFFICES ASSUME IInv, Add PROVE IInv'
  OBVIOUS
<1>0. TypeOK /\ SumsAgree /\ PositiveIffStored /\ IndicesStored
  BY DEF IInv
<1>1. PICK p \in Priorities \cup {maxPriority} : SetLeaf(Leaf(writeIdx), p)
  BY DEF Add
<1>2. p \in Nat \ {0}
  BY <1>0, BufferAssumption DEF TypeOK
<1> DEFINE k == Leaf(writeIdx)
<1>3. k \in Nodes \ Inner /\ Slot(k) = writeIdx
  BY <1>0, LeafArith DEF TypeOK
<1>4. /\ tree' \in [Nodes -> Nat] /\ change' \in Int /\ cursor' \in Nodes
      /\ pc' = "bubbling" /\ SumsAgree'
  BY <1>0, <1>1, <1>2, <1>3, SetLeafSums DEF Add
<1>5. added + 1 \in Nat \ {0} /\ added + 1 \in 0..MaxAdds
  BY <1>0, BufferAssumption DEF Add, TypeOK
<1>6. PositiveIffStored' /\ \A i \in Slots : data[i] # 0 => data'[i] # 0
  BY <1>0, <1>1, <1>2, <1>3, <1>5, SetLeafStored DEF Add
<1>7. writeIdx' \in Slots
  BY <1>0, BufferAssumption DEF Add, TypeOK, NextSlot, Slots
<1>8. size' \in 0..Capacity
  BY <1>0, BufferAssumption DEF Add, TypeOK, Smaller
<1>9. TypeOK'
  BY <1>0, <1>4, <1>5, <1>7, <1>8 DEF Add, TypeOK, draw
<1>10. IndicesStored'
  BY <1>0, <1>6, LeafArith DEF Add, IndicesStored, TypeOK, draw
<1> QED
  BY <1>4, <1>6, <1>9, <1>10 DEF IInv, WalkInRange

LEMMA ClearInv == IInv /\ Clear => IInv'
<1> SUFFICES ASSUME IInv, Clear PROVE IInv'
  OBVIOUS
<1>0. TypeOK /\ SumsAgree /\ IndicesStored /\ pc = "idle" /\ pc' = "idle" /\ todo' = todo
  BY DEF IInv, Clear, walk
<1>1. 0 \in Slots
  BY BufferAssumption DEF Slots
<1>2. TypeOK'
  BY <1>0, <1>1, BufferAssumption DEF Clear, TypeOK, walk
<1>3. SumsAgree'
  BY <1>0, ChildArith DEF Clear, SumsAgree, Owed
<1>4. PositiveIffStored'
  BY LeafArith DEF Clear, PositiveIffStored
<1>5. IndicesStored'
  BY <1>0 DEF Clear, IndicesStored
<1> QED
  BY <1>0, <1>2, <1>3, <1>4, <1>5 DEF IInv, WalkInRange

LEMMA BubbleInv == IInv /\ Bubble => IInv'
<1> SUFFICES ASSUME IInv, Bubble PROVE IInv'
  OBVIOUS
<1>0. TypeOK /\ SumsAgree /\ PositiveIffStored /\ IndicesStored
  BY DEF IInv
<1>1. /\ tree' \in [Nodes -> Nat] /\ cursor' \in Nodes
      /\ \A k \in Nodes \ Inner : tree'[k] = tree[k]
      /\ SumsAgree'
  BY <1>0, BubbleSums
<1>2. TypeOK'
  BY <1>0, <1>1 DEF Bubble, TypeOK, ring, draw
<1>3. PositiveIffStored'
  BY <1>0, <1>1, LeafArith DEF Bubble, PositiveIffStored, ring
<1>4. IndicesStored'
  BY <1>0 DEF Bubble, IndicesStored, ring, draw
<1>5. pc' = "bubbling"
  BY DEF Bubble
<1> QED
  BY <1>1, <1>2, <1>3, <1>4, <1>5 DEF IInv, WalkInRange

LEMMA BubbleEndInv == IInv /\ BubbleEnd => IInv'
<1> SUFFICES ASSUME IInv, BubbleEnd PROVE IInv'
  OBVIOUS
<1>0. TypeOK /\ SumsAgree /\ PositiveIffStored /\ IndicesStored
  BY DEF IInv
<1>1. TypeOK'
  BY <1>0 DEF BubbleEnd, TypeOK, ring, draw
<1>2. SumsAgree'
  BY <1>0, SumsKept DEF BubbleEnd
<1>3. PositiveIffStored' /\ IndicesStored' /\ WalkInRange'
  BY <1>0 DEF BubbleEnd, PositiveIffStored, IndicesStored, WalkInRange, ring, draw
<1> QED
  BY <1>1, <1>2, <1>3 DEF IInv

LEMMA BeginSampleInv == IInv /\ BeginSample => IInv'
<1> SUFFICES ASSUME IInv, BeginSample PROVE IInv'
  OBVIOUS
<1>0. TypeOK /\ SumsAgree /\ PositiveIffStored /\ IndicesStored
  BY DEF IInv
<1>1. TypeOK'
  BY <1>0 DEF BeginSample, TypeOK, ring
<1>2. SumsAgree'
  BY <1>0, SumsKept DEF BeginSample
<1>3. PositiveIffStored' /\ IndicesStored' /\ WalkInRange'
  BY <1>0 DEF BeginSample, PositiveIffStored, IndicesStored, WalkInRange, ring
<1> QED
  BY <1>1, <1>2, <1>3 DEF IInv

LEMMA DrawInv == IInv /\ Draw => IInv'
<1> SUFFICES ASSUME IInv, Draw PROVE IInv'
  OBVIOUS
<1>0. TypeOK /\ SumsAgree /\ PositiveIffStored /\ IndicesStored
  BY DEF IInv
<1>1. 0 \in Nodes
  BY BufferAssumption DEF Nodes
<1>2. value' \in 0..Total /\ ticket' = value' /\ cursor' = 0 /\ tree' = tree
  BY DEF Draw
<1>3. Total \in Nat
  BY <1>0, <1>1 DEF Total, TypeOK
<1>4. TypeOK'
  BY <1>0, <1>1, <1>2, <1>3 DEF Draw, TypeOK, ring
<1>5. SumsAgree'
  BY <1>0, SumsKept DEF Draw
<1>6. PositiveIffStored' /\ IndicesStored'
  BY <1>0 DEF Draw, PositiveIffStored, IndicesStored, ring
<1>7. WalkInRange'
  BY <1>2, <1>3 DEF WalkInRange, Total
<1> QED
  BY <1>4, <1>5, <1>6, <1>7 DEF IInv

(* Entering a child keeps the value within the sum of its subtree.         *)
LEMMA DescendInv == IInv /\ Descend => IInv'
<1> SUFFICES ASSUME IInv, Descend PROVE IInv'
  OBVIOUS
<1>0. TypeOK /\ SumsAgree /\ PositiveIffStored /\ IndicesStored /\ WalkInRange
  BY DEF IInv
<1>1. /\ pc = "descending" /\ pc' = "descending" /\ cursor \in Inner
      /\ tree' = tree /\ ticket' = ticket
  BY DEF Descend
<1>2. /\ Left(cursor) \in Nodes /\ Right(cursor) \in Nodes
      /\ tree[Left(cursor)] \in Nat /\ tree[Right(cursor)] \in Nat
  BY <1>0, <1>1, ChildArith DEF TypeOK
<1>3. tree[cursor] = tree[Left(cursor)] + tree[Right(cursor)]
  BY <1>0, <1>1, <1>2, ChildArith DEF SumsAgree, Owed, TypeOK
<1>4. cursor' \in Nodes /\ value' \in Nat /\ value' <= tree'[cursor'] /\ (ticket' > 0 => value' > 0)
  <2>1. CASE value <= tree[Left(cursor)] /\ cursor' = Left(cursor) /\ value' = value
    BY <1>0, <1>1, <1>2, <2>1 DEF WalkInRange, TypeOK
  <2>2. CASE value > tree[Left(cursor)] /\ cursor' = Right(cursor)
             /\ value' = value - tree[Left(cursor)]
    BY <1>0, <1>1, <1>2, <1>3, <2>2 DEF WalkInRange, TypeOK
  <2> QED
    BY <2>1, <2>2 DEF Descend
<1>5. TypeOK'
  BY <1>0, <1>4 DEF Descend, TypeOK, ring
<1>6. SumsAgree'
  BY <1>0, <1>1, SumsKept
<1>7. PositiveIffStored' /\ IndicesStored'
  BY <1>0 DEF Descend, PositiveIffStored, IndicesStored, ring
<1> QED
  BY <1>4, <1>5, <1>6, <1>7 DEF IInv, WalkInRange

LEMMA LandInv == IInv /\ Land => IInv'
<1> SUFFICES ASSUME IInv, Land PROVE IInv'
  OBVIOUS
<1>0. TypeOK /\ SumsAgree /\ PositiveIffStored /\ IndicesStored
  BY DEF IInv
<1>1. cursor \in Nodes \ Inner
  BY <1>0 DEF Land, TypeOK
<1>2. batch' \in Seq(Nodes \ Inner) /\ \A i \in DOMAIN batch' : data[Slot(batch'[i])] # 0
  BY <1>0, <1>1 DEF Land, TypeOK, IndicesStored
<1>3. TypeOK'
  BY <1>0, <1>2 DEF Land, TypeOK, ring
<1>4. SumsAgree'
  BY <1>0, SumsKept DEF Land
<1>5. PositiveIffStored' /\ IndicesStored' /\ WalkInRange'
  BY <1>0, <1>2 DEF Land, PositiveIffStored, IndicesStored, WalkInRange, ring
<1> QED
  BY <1>3, <1>4, <1>5 DEF IInv

LEMMA EndSampleInv == IInv /\ EndSample => IInv'
<1> SUFFICES ASSUME IInv, EndSample PROVE IInv'
  OBVIOUS
<1>0. TypeOK /\ SumsAgree /\ PositiveIffStored /\ IndicesStored
  BY DEF IInv
<1>1. TypeOK'
  BY <1>0 DEF EndSample, TypeOK, ring, draw
<1>2. SumsAgree'
  BY <1>0, SumsKept DEF EndSample
<1>3. PositiveIffStored' /\ IndicesStored' /\ WalkInRange'
  BY <1>0 DEF EndSample, PositiveIffStored, IndicesStored, WalkInRange, ring, draw
<1> QED
  BY <1>1, <1>2, <1>3 DEF IInv

LEMMA BeginUpdateInv == IInv /\ BeginUpdate => IInv'
<1> SUFFICES ASSUME IInv, BeginUpdate PROVE IInv'
  OBVIOUS
<1>0. TypeOK /\ SumsAgree /\ PositiveIffStored /\ IndicesStored
  BY DEF IInv
<1>1. PICK p \in [DOMAIN batch -> Priorities] : todo' = [i \in DOMAIN batch |-> <<batch[i], p[i]>>]
  BY DEF BeginUpdate
<1>2. DOMAIN batch = 1..Len(batch) /\ Len(batch) \in Nat /\ \A i \in DOMAIN batch : batch[i] \in Nodes \ Inner
  BY <1>0 DEF TypeOK
<1>3. \A i \in DOMAIN batch : <<batch[i], p[i]>> \in (Nodes \ Inner) \X Priorities
  BY <1>2
<1>4. todo' \in Seq((Nodes \ Inner) \X Priorities)
  BY <1>1, <1>2, <1>3
<1>5. DOMAIN todo' = DOMAIN batch /\ \A i \in DOMAIN batch : todo'[i][1] = batch[i]
  BY <1>1
<1>6. TypeOK'
  BY <1>0, <1>4 DEF BeginUpdate, TypeOK, ring
<1>7. SumsAgree'
  BY <1>0, SumsKept DEF BeginUpdate
<1>8. IndicesStored'
  BY <1>0, <1>5 DEF BeginUpdate, IndicesStored, ring
<1>9. PositiveIffStored' /\ WalkInRange'
  BY <1>0 DEF BeginUpdate, PositiveIffStored, WalkInRange, ring
<1> QED
  BY <1>6, <1>7, <1>8, <1>9 DEF IInv

LEMMA UpdateNextInv == IInv /\ UpdateNext => IInv'
<1> SUFFICES ASSUME IInv, UpdateNext PROVE IInv'
  OBVIOUS
<1>0. TypeOK /\ SumsAgree /\ PositiveIffStored /\ IndicesStored
  BY DEF IInv
<1> DEFINE k == Head(todo)[1]
           p == Head(todo)[2]
<1>1. SetLeaf(k, p) /\ todo # <<>> /\ pc = "updating" /\ data' = data
  BY DEF UpdateNext, ring
<1>2. Head(todo) \in (Nodes \ Inner) \X Priorities /\ Head(todo) = todo[1] /\ 1 \in DOMAIN todo
  BY <1>0, <1>1 DEF TypeOK
<1>3. k \in Nodes \ Inner /\ p \in Priorities /\ p \in Nat \ {0}
  BY <1>2, BufferAssumption
<1>4. Slot(k) \in Slots /\ data[Slot(k)] # 0
  BY <1>0, <1>2, <1>3, LeafArith DEF IndicesStored
<1>5. data[Slot(k)] \in Nat \ {0} /\ data' = [data EXCEPT ![Slot(k)] = data[Slot(k)]]
  BY <1>0, <1>1, <1>4, BufferAssumption DEF TypeOK
<1>6. /\ tree' \in [Nodes -> Nat] /\ change' \in Int /\ cursor' \in Nodes
      /\ pc' = "bubbling" /\ SumsAgree'
  BY <1>0, <1>1, <1>3, SetLeafSums
<1>7. PositiveIffStored'
  BY <1>0, <1>1, <1>3, <1>5, SetLeafStored
<1>8. /\ todo' \in Seq((Nodes \ Inner) \X Priorities)
      /\ \A i \in DOMAIN todo' : i + 1 \in DOMAIN todo /\ todo'[i] = todo[i + 1]
  BY <1>0, <1>1 DEF UpdateNext, TypeOK
<1>9. maxPriority' \in Nat \ {0}
  BY <1>0, <1>3 DEF UpdateNext, TypeOK, Larger
<1>10. TypeOK'
  BY <1>0, <1>6, <1>8, <1>9 DEF UpdateNext, TypeOK, ring, draw
<1>11. IndicesStored'
  BY <1>0, <1>6, <1>8 DEF UpdateNext, IndicesStored, ring, draw
<1> QED
  BY <1>6, <1>7, <1>10, <1>11 DEF IInv, WalkInRange

LEMMA StutterInv == IInv /\ UNCHANGED vars => IInv'
<1> SUFFICES ASSUME IInv, UNCHANGED vars PROVE IInv'
  OBVIOUS
<1>1. \A k : Owed(k)' = Owed(k)
  BY DEF vars, walk, Owed
<1> QED
  BY <1>1 DEF IInv, TypeOK, SumsAgree, PositiveIffStored, WalkInRange, IndicesStored,
              vars, ring, walk, draw
LEMMA StepInv == IInv /\ [Next]_vars => IInv'
  BY AddInv, ClearInv, BubbleInv, BubbleEndInv, BeginSampleInv, DrawInv, DescendInv,
     LandInv, EndSampleInv, BeginUpdateInv, UpdateNextInv, StutterInv DEF Next
-----------------------------------------------------------------------------
(* The inductive invariant of the buffer.                                  *)
THEOREM Invariant == Spec => []IInv
  BY InitInv, StepInv, PTL DEF Spec

(* The buffer's variables keep their types (SumTree and its buffer), for   *)
(* any capacity and any priorities.                                        *)
THEOREM BufferTypeCorrect == Spec => []TypeOK
<1>1. IInv => TypeOK
  BY DEF IInv
<1> QED
  BY Invariant, <1>1, PTL

(* _update_tree keeps every inner node the sum of its children, but for    *)
(* the change on its way up.                                               *)
THEOREM TreeSums == Spec => []SumsAgree
<1>1. IInv => SumsAgree
  BY DEF IInv
<1> QED
  BY Invariant, <1>1, PTL

(* add(), update_priorities() and clear() keep positive priorities and     *)
(* filled slots together.                                                  *)
THEOREM StoredIsPositive == Spec => []PositiveIffStored
<1>1. IInv => PositiveIffStored
  BY DEF IInv
<1> QED
  BY Invariant, <1>1, PTL

(* A draw is at a leaf whose slot holds a transition.                      *)
DrawHits ==
  pc = "descending" /\ cursor \notin Inner /\ ticket > 0 => data[Slot(cursor)] # 0

(* SumTree.sample of a positive value ends in a slot with a transition.    *)
THEOREM SampleHits == Spec => []DrawHits
<1>1. IInv => DrawHits
  <2> SUFFICES ASSUME IInv, pc = "descending", cursor \notin Inner, ticket > 0
               PROVE  data[Slot(cursor)] # 0
    BY DEF DrawHits
  <2>1. cursor \in Nodes \ Inner /\ tree[cursor] \in Nat /\ value \in Nat
    BY DEF IInv, TypeOK
  <2>2. tree[cursor] > 0
    BY <2>1 DEF IInv, WalkInRange
  <2>3. Slot(cursor) \in Slots /\ Leaf(Slot(cursor)) = cursor
    BY <2>1, LeafArith
  <2> QED
    BY <2>2, <2>3 DEF IInv, PositiveIffStored
<1> QED
  BY Invariant, <1>1, PTL
-----------------------------------------------------------------------------
(* A set of natural numbers has a least one.                               *)
LEMMA LeastNumber ==
  ASSUME NEW T, T \subseteq Nat, T # {}
  PROVE  \E x \in T : \A y \in T : x <= y
<1> DEFINE R == OpToRel(<, Nat)
<1>1. \A x, y \in Nat : y < x => <<y, x>> \in R
  BY DEF OpToRel
<1>2. PICK x \in T : \A y \in T : ~(<<y, x>> \in R)
  BY NatLessThanWellFounded, WFMin, Zenon
<1>3. ASSUME NEW y \in T PROVE x <= y
  <2>1. x \in Nat /\ y \in Nat
    OBVIOUS
  <2>2. ~(y < x)
    BY <1>1, <1>2, <2>1, Zenon
  <2> QED
    BY <2>1, <2>2
<1> QED
  BY <1>3

LEMMA NaturalNumbers ==
  ASSUME NEW S, 0 \in S, \A n \in Nat : n \in S => n + 1 \in S
  PROVE  Nat \subseteq S
<1> SUFFICES ASSUME Nat \ S # {} PROVE FALSE
  OBVIOUS
<1>1. PICK m \in Nat \ S : \A k \in Nat \ S : m <= k
  BY LeastNumber
<1>2. m - 1 \in Nat /\ m - 1 \in S
  BY <1>1
<1> QED
  BY <1>1, <1>2

(* The equation of Before, for any function in its place.                  *)
Sum(f, k) ==
  IF k = 0 THEN 0
  ELSE IF k = Left(Parent(k)) THEN f[Parent(k)]
  ELSE f[Parent(k)] + tree[Left(Parent(k))]

(* Nodes are numbered from the root: a function that meets the equation at *)
(* every node below n can be made to meet it at n.                         *)
LEMMA BeforeExists ==
  ASSUME tree \in [Nodes -> Nat]
  PROVE  \E f \in [Nodes -> Nat] : f = [k \in Nodes |-> Sum(f, k)]
<1> DEFINE Meets(f, n) == \A k \in Nodes : k < n => f[k] = Sum(f, k)
           S == {n \in Nat : \E f \in [Nodes -> Nat] : Meets(f, n)}
<1>1. 0 \in S
  <2>1. [k \in Nodes |-> 0] \in [Nodes -> Nat]
    OBVIOUS
  <2>2. Meets([k \in Nodes |-> 0], 0)
    BY DEF Nodes
  <2> QED
    BY <2>1, <2>2
<1>2. ASSUME NEW n \in Nat, n \in S PROVE n + 1 \in S
  <2>1. PICK f \in [Nodes -> Nat] : Meets(f, n)
    BY <1>2
  <2> DEFINE g == [f EXCEPT ![n] = Sum(f, n)]
  <2>2. g \in [Nodes -> Nat]
    <3>1. n \in Nodes => Sum(f, n) \in Nat
      <4> SUFFICES ASSUME n \in Nodes, n # 0 PROVE Sum(f, n) \in Nat
        BY DEF Sum
      <4>1. Parent(n) \in Inner
        BY ParentArith
      <4>2. f[Parent(n)] \in Nat /\ tree[Left(Parent(n))] \in Nat
        BY <4>1, ChildArith
      <4> QED
        BY <4>2 DEF Sum
    <3> QED
      BY <3>1
  <2>3. ASSUME NEW k \in Nodes, k < n + 1 PROVE g[k] = Sum(g, k)
    <3>1. k \in Nat /\ k <= n
      BY <2>3 DEF Nodes
    <3>2. k # 0 => Parent(k) \in Nodes /\ g[Parent(k)] = f[Parent(k)]
      <4> SUFFICES ASSUME k > 0 PROVE Parent(k) \in Nodes /\ g[Parent(k)] = f[Parent(k)]
        BY <3>1
      <4>1. Parent(k) \in Inner /\ Parent(k) < k
        BY ParentArith
      <4>2. Parent(k) \in Nodes /\ Parent(k) # n
        BY <3>1, <4>1, ChildArith DEF Inner
      <4> QED
        BY <4>2
    <3>3. Sum(g, k) = Sum(f, k)
      BY <3>2 DEF Sum
    <3>4. CASE k = n
      BY <3>3, <3>4
    <3>5. CASE k # n
      BY <2>1, <3>1, <3>3, <3>5
    <3> QED
      BY <3>4, <3>5
  <2> HIDE DEF g
  <2> QED
    BY <2>2, <2>3
<1>3. Nat \subseteq S
  <2> HIDE DEF S
  <2> QED
    BY <1>1, <1>2, NaturalNumbers
<1>4. 2 * Capacity - 1 \in Nat /\ \A k \in Nodes : k < 2 * Capacity - 1
  BY BufferAssumption DEF Nodes
<1>5. PICK f \in [Nodes -> Nat] : Meets(f, 2 * Capacity - 1)
  BY <1>3, <1>4
<1> QED
  BY <1>4, <1>5

LEMMA BeforeIs ==
  ASSUME tree \in [Nodes -> Nat]
  PROVE  \A k \in Nodes : Before[k] = Sum(Before, k) /\ Before[k] \in Nat
<1>1. Before = [k \in Nodes |-> Sum(Before, k)]
  BY BeforeExists DEF Before, Sum
<1>2. \A k \in Nodes : Before[k] = Sum(Before, k)
  BY <1>1
<1>3. ASSUME {k \in Nodes : Before[k] \notin Nat} # {} PROVE FALSE
  <2> DEFINE T == {k \in Nodes : Before[k] \notin Nat}
  <2>1. T \subseteq Nat
    BY DEF Nodes
  <2>2. PICK k \in T : \A j \in T : k <= j
    BY <1>3, <2>1, LeastNumber
  <2>3. k \in Nodes /\ k > 0
    BY <1>2, <2>1 DEF Sum
  <2>4. Parent(k) \in Inner /\ Parent(k) \in Nodes /\ Parent(k) < k
    BY <2>3, ParentArith, ChildArith
  <2>5. Parent(k) \notin T
    BY <2>1, <2>2, <2>4 DEF Inner
  <2>6. Before[Parent(k)] \in Nat /\ tree[Left(Parent(k))] \in Nat
    BY <2>4, <2>5, ChildArith
  <2>7. Before[k] \in Nat
    BY <1>2, <2>3, <2>6 DEF Sum
  <2> QED
    BY <2>7
<1> QED
  BY <1>2, <1>3

LEMMA BeforeChildren ==
  ASSUME tree \in [Nodes -> Nat]
  PROVE  /\ Before[0] = 0
         /\ \A k \in Inner : /\ Before[k] \in Nat
                             /\ Before[Left(k)] = Before[k]
                             /\ Before[Right(k)] = Before[k] + tree[Left(k)]
<1>1. Before[0] = 0
  <2>1. 0 \in Nodes
    BY BufferAssumption DEF Nodes
  <2> QED
    BY <2>1, BeforeIs DEF Sum
<1>2. ASSUME NEW k \in Inner
      PROVE  /\ Before[k] \in Nat
             /\ Before[Left(k)] = Before[k]
             /\ Before[Right(k)] = Before[k] + tree[Left(k)]
  <2>1. /\ k \in Nodes /\ Left(k) \in Nodes /\ Right(k) \in Nodes
        /\ Left(k) > 0 /\ Right(k) > 0 /\ Left(k) # Right(k)
    BY ChildArith
  <2>2. Parent(Left(k)) = k /\ Parent(Right(k)) = k
    BY <2>1, ParentArith
  <2>3. Before[k] \in Nat /\ Before[Left(k)] = Sum(Before, Left(k)) /\ Before[Right(k)] = Sum(Before, Right(k))
    BY <2>1, BeforeIs
  <2> QED
    BY <2>1, <2>2, <2>3 DEF Sum
<1> QED
  BY <1>1, <1>2

(* A draw has come down to the node it is at past all that lies left of it.*)
LEMMA DescentKept == IInv /\ DrawIsProportional /\ [Next]_vars => DrawIsProportional'
<1> SUFFICES ASSUME IInv, DrawIsProportional, [Next]_vars, pc' = "descending"
             PROVE  /\ ticket' = (Before[cursor] + value)' /\ value' <= tree'[cursor']
                    /\ ticket' > 0 => value' > 0
  BY DEF DrawIsProportional
<1>1. value' <= tree'[cursor'] /\ (ticket' > 0 => value' > 0)
  BY StepInv DEF IInv, WalkInRange
<1>2. tree \in [Nodes -> Nat] /\ value \in Nat
  BY DEF IInv, TypeOK
<1>3. ASSUME tree' = tree PROVE Before' = Before
  BY <1>3 DEF Before
<1>4. CASE Draw
  <2>1. tree' = tree /\ cursor' = 0 /\ ticket' = value' /\ value' \in 0..Total
    BY <1>4 DEF Draw
  <2>2. tree[0] \in Nat
    BY <1>2, BufferAssumption DEF Nodes
  <2>3. (Before[cursor])' = 0
    BY <1>2, <1>3, <2>1, BeforeChildren
  <2>4. value' \in Nat
    BY <2>1, <2>2 DEF Total
  <2>5. \A n \in Nat : 0 + n = n
    OBVIOUS
  <2> QED
    BY <1>1, <2>1, <2>3, <2>4, <2>5, Zenon
<1>5. CASE Descend
  <2>1. tree' = tree /\ ticket' = ticket /\ cursor \in Inner /\ ticket = Before[cursor] + value
    BY <1>5 DEF Descend, DrawIsProportional
  <2>2. /\ Before[cursor] \in Nat /\ tree[Left(cursor)] \in Nat
        /\ Before[Left(cursor)] = Before[cursor]
        /\ Before[Right(cursor)] = Before[cursor] + tree[Left(cursor)]
    BY <1>2, <2>1, BeforeChildren, ChildArith
  <2>3. (Before[cursor])' = Before[cursor']
    BY <1>3, <2>1
  <2>4. CASE cursor' = Left(cursor) /\ value' = value
    BY <1>1, <2>1, <2>2, <2>3, <2>4
  <2>5. CASE cursor' = Right(cursor) /\ value' = value - tree[Left(cursor)]
    BY <1>1, <1>2, <2>1, <2>2, <2>3, <2>5
  <2> QED
    BY <1>5, <2>4, <2>5 DEF Descend
<1>6. CASE UNCHANGED vars
  <2>1. tree' = tree /\ cursor' = cursor /\ value' = value /\ ticket' = ticket /\ pc = "descending"
    BY <1>6 DEF vars, walk, draw
  <2> QED
    BY <1>1, <1>3, <2>1 DEF DrawIsProportional
<1>7. CASE Add \/ Clear \/ Bubble \/ BubbleEnd \/ BeginSample \/ Land \/ EndSample
           \/ BeginUpdate \/ UpdateNext
  BY <1>7 DEF Add, Clear, Bubble, BubbleEnd, BeginSample, Land, EndSample, BeginUpdate,
              UpdateNext, SetLeaf, walk
<1> QED
  BY <1>4, <1>5, <1>6, <1>7 DEF Next

(* sample() draws by priority: a value ends in a leaf only if it lies in   *)
(* the interval, as long as the leaf's priority, that begins past the sum  *)
(* of the priorities left of it.                                           *)
THEOREM DrawsAreProportional == Spec => []DrawIsProportional
<1>1. Init => DrawIsProportional
  BY DEF Init, DrawIsProportional
<1> QED
  BY <1>1, Invariant, DescentKept, PTL DEF Spec
-----------------------------------------------------------------------------
(* Which transition each slot of the ring holds: those behind the write    *)
(* index are the newest; those from it on are the ones of the lap before,  *)
(* once the ring is full.                                                  *)
RingInv ==
  /\ size <= added
  /\ size < Capacity => writeIdx = size
  /\ \A i \in Slots : data[i] =
       IF i < writeIdx THEN added - writeIdx + 1 + i
       ELSE IF size = Capacity THEN added - writeIdx + 1 + i - Capacity
       ELSE 0

LEMMA NextSlotWraps ==
  \A i \in Slots : NextSlot(i) = IF i + 1 = Capacity THEN 0 ELSE i + 1
<1> SUFFICES ASSUME NEW i \in Slots
             PROVE  NextSlot(i) = IF i + 1 = Capacity THEN 0 ELSE i + 1
  OBVIOUS
<1>1. Capacity \in Nat \ {0} /\ i \in Nat /\ i + 1 <= Capacity
  BY BufferAssumption DEF Slots
<1>2. CASE i + 1 = Capacity
  BY <1>1, <1>2 DEF NextSlot
<1>3. CASE i + 1 # Capacity
  BY <1>1, <1>3 DEF NextSlot
<1> QED
  BY <1>2, <1>3

LEMMA RingAdd ==
  ASSUME TypeOK, RingInv, Add
  PROVE  RingInv'
<1>1. /\ Capacity \in Nat \ {0} /\ writeIdx \in 0..(Capacity - 1) /\ size \in 0..Capacity
      /\ added \in Nat /\ Slots = 0..(Capacity - 1)
      /\ DOMAIN data = Slots
  BY BufferAssumption DEF TypeOK, Slots
<1>2. writeIdx' = IF writeIdx + 1 = Capacity THEN 0 ELSE writeIdx + 1
  BY NextSlotWraps DEF Add, TypeOK
<1>3. size' = IF size = Capacity THEN Capacity ELSE size + 1
  BY <1>1 DEF Add, Smaller
<1>4. added' = added + 1 /\ data' = [data EXCEPT ![writeIdx] = added + 1]
  BY DEF Add
<1>5. size' <= added' /\ (size' < Capacity => writeIdx' = size')
  BY <1>1, <1>2, <1>3, <1>4 DEF RingInv
<1>6. ASSUME NEW i \in Slots
      PROVE  data'[i] = IF i < writeIdx' THEN added' - writeIdx' + 1 + i
                        ELSE IF size' = Capacity THEN added' - writeIdx' + 1 + i - Capacity
                        ELSE 0
  <2>1. data'[i] = IF i = writeIdx THEN added + 1 ELSE data[i]
    BY <1>1, <1>4
  <2>2. data[i] = IF i < writeIdx THEN added - writeIdx + 1 + i
                  ELSE IF size = Capacity THEN added - writeIdx + 1 + i - Capacity
                  ELSE 0
    BY DEF RingInv
  <2>3. i \in Nat /\ i < Capacity
    BY <1>1
  <2>4. CASE writeIdx + 1 = Capacity
    <3>1. size' = Capacity /\ writeIdx' = 0
      BY <1>1, <1>2, <1>3, <2>4 DEF RingInv
    <3> QED
      BY <1>1, <1>4, <2>1, <2>2, <2>3, <2>4, <3>1
  <2>5. CASE writeIdx + 1 # Capacity
    <3>1. writeIdx' = writeIdx + 1
      BY <1>2, <2>5
    <3>2. size' = Capacity <=> size = Capacity
      BY <1>1, <1>3, <2>5 DEF RingInv
    <3> QED
      BY <1>1, <1>4, <2>1, <2>2, <2>3, <3>1, <3>2
  <2> QED
    BY <2>4, <2>5
<1> QED
  BY <1>5, <1>6 DEF RingInv

LEMMA RingInductive ==
  ASSUME TypeOK, RingInv, [Next]_vars
  PROVE  RingInv'
<1>1. CASE UNCHANGED ring
  BY <1>1 DEF ring, RingInv
<1>2. CASE Clear
  <2>1. added \in Nat /\ Capacity \in Nat \ {0}
    BY BufferAssumption DEF TypeOK
  <2> QED
    BY <1>2, <2>1 DEF Clear, RingInv, Slots
<1>3. CASE Add
  BY <1>3, RingAdd
<1> QED
  BY <1>1, <1>2, <1>3
     DEF Next, vars, Bubble, BubbleEnd, BeginSample, Draw, Descend, Land, EndSample,
         BeginUpdate, UpdateNext

(* The ring never loses a transition before it is Capacity old, nor keeps  *)
(* one twice: after any adds and clears it holds exactly the last ones.    *)
THEOREM RingHoldsNewest == Spec => []HoldsNewest
<1>1. Init => RingInv
  BY BufferAssumption DEF Init, RingInv, Slots
<1>2. TypeOK /\ RingInv => HoldsNewest
  <2> SUFFICES ASSUME TypeOK, RingInv PROVE HoldsNewest
    OBVIOUS
  <2>1. /\ Capacity \in Nat \ {0} /\ writeIdx \in 0..(Capacity - 1) /\ size \in 0..Capacity
        /\ added \in Nat /\ size <= added /\ Slots = 0..(Capacity - 1)
        /\ size < Capacity => writeIdx = size
    BY BufferAssumption DEF TypeOK, Slots, RingInv
  <2>2. \A i \in Slots : data[i] =
          IF i < writeIdx THEN added - writeIdx + 1 + i
          ELSE IF size = Capacity THEN added - writeIdx + 1 + i - Capacity
          ELSE 0
    BY DEF RingInv
  <2>3. ASSUME NEW i \in Slots, data[i] # 0
        PROVE  data[i] \in (added - size + 1)..added
    BY <2>1, <2>2, <2>3
  <2>4. ASSUME NEW n \in (added - size + 1)..added
        PROVE  \E i \in Slots : data[i] = n /\ data[i] # 0
    <3>1. n \in Int /\ n >= 1 /\ n <= added
      BY <2>1
    <3>2. CASE n > added - writeIdx
      <4> DEFINE i == n - added + writeIdx - 1
      <4>1. i \in Slots /\ i < writeIdx
        BY <2>1, <3>1, <3>2
      <4>2. data[i] = n
        BY <2>1, <2>2, <3>1, <4>1
      <4> QED
        BY <3>1, <4>1, <4>2
    <3>3. CASE n <= added - writeIdx
      <4> DEFINE i == n - added + writeIdx - 1 + Capacity
      <4>1. size = Capacity
        BY <2>1, <3>1, <3>3
      <4>2. i \in Slots /\ i >= writeIdx
        BY <2>1, <3>1, <3>3, <4>1
      <4>3. data[i] = n
        BY <2>1, <2>2, <3>1, <4>1, <4>2
      <4> QED
        BY <3>1, <4>2, <4>3
    <3> QED
      BY <2>1, <3>1, <3>2, <3>3
  <2> QED
    BY <2>3, <2>4 DEF HoldsNewest
<1>3. Spec => []TypeOK
  BY BufferTypeCorrect
<1> QED
  BY <1>1, <1>2, <1>3, RingInductive, PTL DEF Spec
=============================================================================
