--------------------------- MODULE ProjectSyncProofs ---------------------------
(***************************************************************************)
(* What galaxy sync promises, proved for any number of paths, edits and    *)
(* foreign writes.                                                         *)
(***************************************************************************)
EXTENDS ProjectDiff, TLAPS

Last == Len(Order)

\* The paths of the list, by their positions.
LEMMA OrderFacts ==
    /\ Last \in Nat \ {0}
    /\ DOMAIN Order = 1 .. Last
    /\ \A k \in 1 .. Last : Order[k] \in Paths
    /\ \A p \in Paths : \E k \in 1 .. Last : p = Order[k]
<1>1. Order \in Seq(Paths) /\ Order # <<>>
  BY SyncAssumption
<1>2. Last \in Nat \ {0} /\ DOMAIN Order = 1 .. Last
  BY <1>1 DEF Last
<1>3. QED
  BY <1>2 DEF Paths

\* A directory on the way comes earlier in the list, and the way to it is a part
\* of the way.
LEMMA AboveFacts ==
    /\ \A p \in Paths : Above[p] \subseteq Paths
    /\ \A j, k \in 1 .. Last : Order[j] \in Above[Order[k]] => j < k
    /\ \A p \in Paths : \A q \in Above[p] : Above[q] \subseteq Above[p]
    /\ \A p \in Paths : p \notin Above[p]
    /\ \A p \in Paths : \A q \in Above[p] : p \notin Above[q]
<1>1. \A p \in Paths : Above[p] \subseteq Paths
  BY SyncAssumption
<1>2. \A j, k \in 1 .. Last : Order[j] \in Above[Order[k]] => j < k
  BY SyncAssumption, OrderFacts
<1>3. \A p \in Paths : \A q \in Above[p] : Above[q] \subseteq Above[p]
  BY SyncAssumption
<1>4. \A p \in Paths : p \notin Above[p]
  <2> SUFFICES ASSUME NEW p \in Paths, p \in Above[p]
               PROVE  FALSE
    OBVIOUS
  <2>1. PICK k \in 1 .. Last : p = Order[k]
    BY OrderFacts
  <2>2. k < k
    BY <1>2, <2>1
  <2>3. QED
    BY <2>2, OrderFacts
<1>5. QED
  BY <1>1, <1>2, <1>3, <1>4

\* Nodes that are no file are no content.
LEMMA NoContent == "absent" \notin Contents /\ "dir" \notin Contents
  BY SyncAssumption DEF Contents

\* Membership in Trees, without the set.
LEMMA InTrees ==
    ASSUME NEW C, NEW t
    PROVE  t \in Trees(C) <=>
               /\ t \in [Paths -> C \union {"absent", "dir"}]
               /\ \A p \in Paths : t[p] # "absent" => \A q \in Above[p] : t[q] = "dir"
  BY DEF Trees

-----------------------------------------------------------------------------
(* The requests, on a tree.                                                *)

\* Deleting what is no directory leaves a tree.
LEMMA DeletedTree ==
    ASSUME remote \in Trees(Contents), NEW p \in Paths, remote[p] # "dir"
    PROVE  [remote EXCEPT ![p] = "absent"] \in Trees(Contents)
<1> DEFINE t == [remote EXCEPT ![p] = "absent"]
<1>1. /\ remote \in [Paths -> Contents \union {"absent", "dir"}]
      /\ \A x \in Paths : remote[x] # "absent" => \A q \in Above[x] : remote[q] = "dir"
  BY InTrees
<1>2. t \in [Paths -> Contents \union {"absent", "dir"}]
  BY <1>1
<1>3. ASSUME NEW x \in Paths, t[x] # "absent", NEW q \in Above[x]
      PROVE  t[q] = "dir"
  <2>1. x # p /\ remote[x] # "absent"
    BY <1>1, <1>3
  <2>2. remote[q] = "dir" /\ q \in Paths
    BY <1>1, <1>3, <2>1, AboveFacts
  <2>3. QED
    BY <1>1, <2>2
<1>4. QED
  BY <1>2, <1>3, InTrees

\* mkdir -p leaves a tree.
LEMMA ParentsTree ==
    ASSUME remote \in Trees(Contents), NEW p \in Paths,
           \A q \in Above[p] : remote[q] \notin Contents
    PROVE  WithParents(p) \in Trees(Contents)
<1> DEFINE t == WithParents(p)
<1>1. /\ remote \in [Paths -> Contents \union {"absent", "dir"}]
      /\ \A x \in Paths : remote[x] # "absent" => \A q \in Above[x] : remote[q] = "dir"
  BY InTrees
<1>2. \A x \in Paths : t[x] = IF x \in Above[p] THEN "dir" ELSE remote[x]
  BY DEF WithParents
<1>3. t \in [Paths -> Contents \union {"absent", "dir"}]
  BY <1>1 DEF WithParents
<1>4. ASSUME NEW x \in Paths, t[x] # "absent", NEW q \in Above[x]
      PROVE  t[q] = "dir"
  <2>1. q \in Paths
    BY <1>4, AboveFacts
  <2>2. CASE x \in Above[p]
    BY <1>2, <1>4, <2>1, <2>2, AboveFacts
  <2>3. CASE x \notin Above[p]
    BY <1>1, <1>2, <1>4, <2>1, <2>3
  <2>4. QED
    BY <2>2, <2>3
<1>5. QED
  BY <1>3, <1>4, InTrees

\* Writing a file into a directory leaves a tree.
LEMMA WrittenTree ==
    ASSUME remote \in Trees(Contents), NEW p \in Paths,
           sent \in [Paths -> Ours \union {"absent"}],
           \A q \in Above[p] : remote[q] = "dir"
    PROVE  Written(p) \in Trees(Contents)
<1> DEFINE t == Written(p)
<1>1. /\ remote \in [Paths -> Contents \union {"absent", "dir"}]
      /\ \A x \in Paths : remote[x] # "absent" => \A q \in Above[x] : remote[q] = "dir"
  BY InTrees
<1>2. \A x \in Paths : t[x] = IF x = p THEN sent[p]
                              ELSE IF p \in Above[x] THEN "absent" ELSE remote[x]
  BY DEF Written
<1>3. sent[p] \in Contents \union {"absent", "dir"}
  BY DEF Contents
<1>4. t \in [Paths -> Contents \union {"absent", "dir"}]
  BY <1>1, <1>3 DEF Written
<1>5. ASSUME NEW x \in Paths, t[x] # "absent", NEW q \in Above[x]
      PROVE  t[q] = "dir"
  <2>1. q \in Paths /\ remote[q] = "dir"
    BY <1>1, <1>2, <1>5, AboveFacts
  <2>2. q # p /\ p \notin Above[q]
    BY <1>2, <1>5, AboveFacts
  <2>3. QED
    BY <1>2, <2>1, <2>2
<1>6. QED
  BY <1>4, <1>5, InTrees

-----------------------------------------------------------------------------
(* Type correctness.                                                       *)

\* A loop that goes on or ends keeps its position in the list.
LEMMA AdvanceTypes ==
    ASSUME SyncTypeOK, NEW loop, NEW next, Advance(loop, next)
    PROVE  /\ pos' \in 1 .. Last
           /\ \/ pos < Last /\ pos' = pos + 1 /\ pc' = loop
              \/ pos = Last /\ pos' = 1 /\ pc' = next
<1>1. pos \in 1 .. Last /\ Last \in Nat \ {0}
  BY OrderFacts DEF SyncTypeOK, Last
<1>2. CASE pos < Last
  BY <1>1, <1>2 DEF Advance, Last
<1>3. CASE ~ (pos < Last)
  <2>1. pos = Last
    BY <1>1, <1>3
  <2>2. pos' = 1 /\ pc' = next
    BY <1>3 DEF Advance, Last
  <2>3. QED
    BY <1>1, <2>1, <2>2
<1>4. QED
  BY <1>2, <1>3

\* A step of the command keeps every variable's type.
LEMMA SyncTypes ==
    ASSUME SyncTypeOK, Sync
    PROVE  SyncTypeOK'
<1> USE DEF SyncTypeOK, Last
<1> DEFINE p == Order[pos]
<1>0. p \in Paths
  BY OrderFacts
<1>1. CASE ReadChanges
  <2>1. item' \in [Paths -> {"none", "deleted", "changed"} \union Action]
    <3>1. CASE UNCHANGED item
      BY <3>1
    <3>2. ASSUME NEW head \in GitTrees, NEW index \in GitTrees,
                 \/ item' = [x \in Paths |-> WorktreeEntry(head, index, x)]
                 \/ item' = [x \in Paths |-> CommitEntry(head, index, x)]
          PROVE  item' \in [Paths -> {"none", "deleted", "changed"} \union Action]
      BY <3>2 DEF WorktreeEntry, CommitEntry
    <3>3. QED
      BY <1>1, <3>1, <3>2 DEF ReadChanges
  <2>2. QED
    BY <1>1, <2>1 DEF ReadChanges, Ended
<1>2. CASE SelectTarget
  BY <1>2 DEF SelectTarget, Ended
<1>3. CASE PlanItem
  <2>1. item' \in [Paths -> {"none", "deleted", "changed"} \union Action]
    <3>1. ItemActions(p) \subseteq Action
      BY DEF ItemActions, Action
    <3>2. QED
      BY <1>0, <1>3, <3>1 DEF PlanItem
  <2>2. pos' \in 1 .. Last /\ pc' \in {"plan", "check", "failed"}
    BY <1>3, AdvanceTypes DEF PlanItem
  <2>3. QED
    BY <1>3, <2>1, <2>2 DEF PlanItem, Ended
<1>4. CASE CheckItem
  <2>1. pos' \in 1 .. Last /\ pc' \in {"check", "item", "failed", "conflict"}
    BY <1>4, AdvanceTypes DEF CheckItem, End
  <2>2. QED
    BY <1>4, <2>1 DEF CheckItem, End, Ended
<1>5. CASE ShowPlan
  BY <1>5 DEF ShowPlan, End, Ended
<1>6. CASE SkipItem
  <2>1. pos' \in 1 .. Last /\ pc' \in {"item", "synced"}
    BY <1>6, AdvanceTypes DEF SkipItem
  <2>2. QED
    BY <1>6, <2>1 DEF SkipItem, Ended
<1>7. CASE DeleteItem
  <2>1. pos' \in 1 .. Last /\ pc' \in {"item", "synced", "failed"}
    BY <1>7, AdvanceTypes DEF DeleteItem, End
  <2>2. remote' \in Trees(Contents)
    BY <1>0, <1>7, DeletedTree DEF DeleteItem, Put
  <2>3. wrote' \in BOOLEAN
    BY <1>7 DEF DeleteItem, Put
  <2>4. QED
    BY <1>7, <2>1, <2>2, <2>3 DEF DeleteItem, End, Ended
<1>8. CASE MakeDirectory
  <2>1. remote' \in Trees(Contents)
    BY <1>0, <1>8, ParentsTree DEF MakeDirectory, Put
  <2>2. wrote' \in BOOLEAN
    BY <1>8 DEF MakeDirectory, Put
  <2>3. QED
    BY <1>8, <2>1, <2>2 DEF MakeDirectory, Ended
<1>9. CASE ReadLocal
  BY <1>0, <1>9 DEF ReadLocal, Ended
<1>10. CASE SendFile
  <2>1. pos' \in 1 .. Last /\ pc' \in {"item", "synced", "failed"}
    BY <1>10, AdvanceTypes DEF SendFile, End
  <2>2. remote' \in Trees(Contents)
    BY <1>0, <1>10, WrittenTree DEF SendFile, Put
  <2>3. wrote' \in BOOLEAN
    BY <1>10 DEF SendFile, Put
  <2>4. QED
    BY <1>10, <2>1, <2>2, <2>3 DEF SendFile, End, Ended
<1>11. QED
  BY <1>1, <1>2, <1>3, <1>4, <1>5, <1>6, <1>7, <1>8, <1>9, <1>10 DEF Sync

\* Every step keeps the types, those of the developer and of others too.
LEMMA SyncTypesStep == SyncTypeOK /\ [SyncNext]_vars => SyncTypeOK'
<1> SUFFICES ASSUME SyncTypeOK, [SyncNext]_vars
             PROVE  SyncTypeOK'
  OBVIOUS
<1>1. CASE EditLocal
  BY <1>1, SyncAssumption DEF EditLocal, SyncTypeOK
<1>2. CASE OthersWrite
  BY <1>2, SyncAssumption DEF OthersWrite, SyncTypeOK
<1>3. CASE UNCHANGED vars
  BY <1>3 DEF vars, SyncTypeOK
<1> QED
  BY <1>1, <1>2, <1>3, SyncTypes DEF SyncNext

\* The command starts with its types.
LEMMA SyncTypesStart == SyncInit => SyncTypeOK
<1>1. Trees(Theirs) \subseteq Trees(Contents)
  BY DEF Trees, Contents
<1>2. 1 \in 1 .. Len(Order) /\ 0 \in 0 .. MaxChanges
  BY OrderFacts, SyncAssumption DEF Last
<1> QED
  BY <1>1, <1>2 DEF SyncInit, SyncTypeOK

\* The command keeps the types of its own variables and both trees stay trees.
THEOREM SyncTypeCorrect == SyncSpec => []SyncTypeOK
BY SyncTypesStart, SyncTypesStep, PTL DEF SyncSpec

-----------------------------------------------------------------------------
(* The invariant behind the promises.                                      *)

Looping == pc \in {"item", "read", "send"}

\* The loop over the items has come past position k.
Handled(k) == pc = "synced" \/ (Looping /\ k < pos)

\* Position k has been checked and is still to be handled.
Awaited(k) == (pc = "check" /\ k < pos) \/ (Looping /\ k >= pos)

\* The first request that changes something comes after every check.
BeforeWrites ==
    pc \in {"start", "target", "plan", "check"} \union {"nothing", "planned", "conflict"}
        \/ (pc = "item" /\ pos = 1) => ~ wrote

\* What is sent is what was read, for an item that is to be written.
Sending ==
    /\ pc \in {"read", "send"} => item[Order[pos]] = "write"
    /\ pc = "send" => sent[Order[pos]] \in Ours

\* A checked target is no directory and nothing is below it, but for others.
Clear ==
    \A k \in 1 .. Last : Awaited(k) /\ Acts(Order[k]) =>
        \A q \in Paths \ foreign :
            /\ q = Order[k] => remote[q] # "dir"
            /\ Order[k] \in Above[q] => remote[q] = "absent"

\* Nothing has changed yet, but for others.
Unchanged ==
    pc \in {"start", "target", "plan", "check"} =>
        \A q \in Paths \ foreign : remote[q] = start[q]

\* What may have become of a path that no item is about.
Spared(q) ==
    \/ remote[q] = start[q]
    \/ /\ start[q] = "absent" /\ remote[q] = "dir"
       /\ \E r \in Paths : item[r] = "write" /\ q \in Above[r]

Result ==
    Looping \/ pc = "synced" =>
        /\ \A q \in Paths \ foreign : ~ Acts(q) => Spared(q)
        /\ \A k \in 1 .. Last : Handled(k) /\ Order[k] \notin foreign =>
              /\ item[Order[k]] = "write" =>
                    sent[Order[k]] \in Ours /\ remote[Order[k]] = sent[Order[k]]
              /\ item[Order[k]] = "delete" => remote[Order[k]] \notin Contents

Honest == BeforeWrites /\ Sending /\ Clear /\ Unchanged /\ Result

-----------------------------------------------------------------------------
(* The steps of the command keep it.                                       *)

\* The end of an item is the beginning of the next, or of success.
LEMMA NextItem ==
    ASSUME SyncTypeOK, pc \in {"item", "send"}, Advance("item", "synced")
    PROVE  /\ \A k \in 1 .. Last : Handled(k)' => Handled(k) \/ k = pos
           /\ \A k \in 1 .. Last : Awaited(k)' => Awaited(k) /\ k # pos
           /\ (pc' = "item" /\ pos' # 1) \/ pc' = "synced"
<1>1. pos \in 1 .. Last /\ Last \in Nat \ {0}
  BY OrderFacts DEF SyncTypeOK, Last
<1>2. \/ pos < Last /\ pos' = pos + 1 /\ pc' = "item"
      \/ pos = Last /\ pos' = 1 /\ pc' = "synced"
  BY AdvanceTypes
<1>3. QED
  BY <1>1, <1>2 DEF Handled, Awaited, Looping

\* Nothing is written while the plan is made and checked.
LEMMA StepBeforeWrites ==
    ASSUME SyncTypeOK, BeforeWrites, Sync
    PROVE  BeforeWrites'
<1> USE DEF BeforeWrites
<1>1. CASE ReadChanges \/ SelectTarget \/ PlanItem \/ CheckItem \/ ShowPlan
  BY <1>1 DEF ReadChanges, SelectTarget, PlanItem, CheckItem, ShowPlan, End
<1>2. CASE SkipItem \/ DeleteItem \/ SendFile
  <2>1. CASE pc' = "failed"
    BY <2>1
  <2>2. CASE pc' # "failed"
    <3>1. pc \in {"item", "send"} /\ Advance("item", "synced")
      BY <1>2, <2>2 DEF SkipItem, DeleteItem, SendFile, AtItem, End
    <3>2. QED
      BY <3>1, NextItem
  <2>3. QED
    BY <2>1, <2>2
<1>3. CASE MakeDirectory \/ ReadLocal
  BY <1>3 DEF MakeDirectory, ReadLocal
<1>4. QED
  BY <1>1, <1>2, <1>3 DEF Sync

\* What is read of a file is what is sent.
LEMMA StepSending ==
    ASSUME SyncTypeOK, Sending, Sync
    PROVE  Sending'
<1> USE DEF Sending
<1>1. CASE ReadChanges \/ SelectTarget \/ PlanItem \/ CheckItem \/ ShowPlan
  <2>1. pc' \notin {"read", "send"}
    BY <1>1, AdvanceTypes
    DEF ReadChanges, SelectTarget, PlanItem, CheckItem, ShowPlan, End
  <2>2. QED
    BY <2>1
<1>2. CASE SkipItem \/ DeleteItem \/ SendFile
  <2>1. pc' \notin {"read", "send"}
    BY <1>2, AdvanceTypes DEF SkipItem, DeleteItem, SendFile, End
  <2>2. QED
    BY <2>1
<1>3. CASE MakeDirectory
  BY <1>3 DEF MakeDirectory
<1>4. CASE ReadLocal
  <2>1. Order[pos] \in Paths
    BY OrderFacts DEF SyncTypeOK, Last
  <2>2. QED
    BY <1>4, <2>1 DEF ReadLocal, SyncTypeOK
<1>5. QED
  BY <1>1, <1>2, <1>3, <1>4 DEF Sync

\* What the check of an item that passes establishes.
LEMMA CheckClears ==
    ASSUME SyncTypeOK, NEW p \in Paths, remote[p] # "dir"
    PROVE  \A q \in Paths : p \in Above[q] => remote[q] = "absent"
<1>1. \A x \in Paths : remote[x] # "absent" => \A q \in Above[x] : remote[q] = "dir"
  BY InTrees DEF SyncTypeOK
<1>2. QED
  BY <1>1

\* What was checked stays as it was found, unless somebody else writes.
LEMMA StepClear ==
    ASSUME SyncTypeOK, Clear, Sync
    PROVE  Clear'
<1> DEFINE p == Order[pos]
<1>0. p \in Paths /\ pos \in 1 .. Last /\ Last \in Nat \ {0}
  BY OrderFacts DEF SyncTypeOK, Last
<1>1. CASE ReadChanges \/ SelectTarget \/ ShowPlan
  <2>1. \A k \in 1 .. Last : ~ Awaited(k)'
    BY <1>1 DEF ReadChanges, SelectTarget, ShowPlan, End, Awaited, Looping
  <2>2. QED
    BY <2>1 DEF Clear
<1>2. CASE PlanItem
  <2>1. pc' # "check" \/ pos' = 1
    BY <1>2, AdvanceTypes DEF PlanItem
  <2>2. pc' \in {"plan", "check", "failed"}
    BY <1>2, AdvanceTypes DEF PlanItem
  <2>3. \A k \in 1 .. Last : ~ Awaited(k)'
    BY <2>1, <2>2, <1>0 DEF Awaited, Looping
  <2>4. QED
    BY <2>3 DEF Clear
<1>3. CASE CheckItem
  <2>1. CASE pc' \in {"failed", "conflict"}
    BY <2>1 DEF Clear, Awaited, Looping
  <2>2. CASE pc' \notin {"failed", "conflict"}
    <3>1. /\ ~ (Acts(p) /\ remote[p] = "dir")
          /\ Advance("check", "item")
          /\ UNCHANGED <<item, remote, foreign>>
      BY <1>3, <2>2 DEF CheckItem, End
    <3>2. pc = "check"
      BY <1>3 DEF CheckItem
    <3>3. \A k \in 1 .. Last : Awaited(k)' => Awaited(k) \/ k = pos
      <4>1. \/ pos < Last /\ pos' = pos + 1 /\ pc' = "check"
            \/ pos = Last /\ pos' = 1 /\ pc' = "item"
        BY <3>1, AdvanceTypes
      <4>2. QED
        BY <4>1, <3>2, <1>0 DEF Awaited, Looping
    <3>4. Acts(p) => \A q \in Paths : /\ q = p => remote[q] # "dir"
                                      /\ p \in Above[q] => remote[q] = "absent"
      BY <1>0, <3>1, CheckClears
    <3>5. QED
      BY <3>1, <3>3, <3>4 DEF Clear, Acts
  <2>3. QED
    BY <2>1, <2>2
<1>4. CASE SkipItem \/ DeleteItem \/ SendFile
  <2>1. CASE pc' = "failed"
    BY <2>1 DEF Clear, Awaited, Looping
  <2>2. CASE pc' # "failed"
    <3>1. pc \in {"item", "send"} /\ Advance("item", "synced") /\ UNCHANGED <<item, foreign>>
      BY <1>4, <2>2 DEF SkipItem, DeleteItem, SendFile, AtItem, End
    <3>2. \A k \in 1 .. Last : Awaited(k)' => Awaited(k) /\ k # pos
      BY <3>1, NextItem
    <3>3. \A q \in Paths : q = p \/ remote'[q] = "absent" \/ remote'[q] = remote[q]
      <4>1. CASE SkipItem
        BY <4>1 DEF SkipItem
      <4>2. CASE DeleteItem
        <5>1. remote' = remote \/ remote' = [remote EXCEPT ![p] = "absent"]
          BY <4>2 DEF DeleteItem, Put
        <5>2. remote \in [Paths -> Contents \union {"absent", "dir"}]
          BY InTrees DEF SyncTypeOK
        <5>3. QED
          BY <5>1, <5>2
      <4>3. CASE SendFile
        <5>1. remote' = remote \/ remote' = Written(p)
          BY <4>3 DEF SendFile, Put
        <5>2. QED
          BY <5>1 DEF Written
      <4>4. QED
        BY <1>4, <4>1, <4>2, <4>3
    <3>4. \A k \in 1 .. Last : Awaited(k)' => p # Order[k] /\ Order[k] \notin Above[p]
      <4>1. \A k \in 1 .. Last : Awaited(k)' => pos < k
        BY <1>0, <3>1, <3>2 DEF Awaited, Looping
      <4>2. QED
        BY <1>0, <4>1, AboveFacts, OrderFacts, SyncAssumption
    <3>5. QED
      BY <3>1, <3>2, <3>3, <3>4 DEF Clear, Acts
  <2>3. QED
    BY <2>1, <2>2
<1>5. CASE MakeDirectory
  <2>1. CASE pc' = "failed"
    BY <2>1 DEF Clear, Awaited, Looping
  <2>2. CASE pc' # "failed"
    <3>1. pc = "item" /\ pc' = "read" /\ UNCHANGED <<item, foreign, pos>>
      BY <1>5, <2>2 DEF MakeDirectory, AtItem
    <3>2. \A q \in Paths : q \in Above[p] \/ remote'[q] = remote[q]
      BY <1>5, <1>0 DEF MakeDirectory, Put, WithParents
    <3>3. \A k \in 1 .. Last : Awaited(k)' => Awaited(k) /\ pos <= k
      BY <3>1 DEF Awaited, Looping
    <3>4. \A k \in 1 .. Last : Awaited(k)' => Order[k] \notin Above[p]
      BY <1>0, <3>3, AboveFacts
    <3>5. \A k \in 1 .. Last, q \in Above[p] :
              Awaited(k)' => q # Order[k] /\ Order[k] \notin Above[q]
      BY <1>0, <3>4, AboveFacts
    <3>6. QED
      BY <3>1, <3>2, <3>3, <3>5 DEF Clear, Acts
  <2>3. QED
    BY <2>1, <2>2
<1>6. CASE ReadLocal
  BY <1>6 DEF ReadLocal, Clear, Awaited, Looping, Acts
<1>7. QED
  BY <1>1, <1>2, <1>3, <1>4, <1>5, <1>6 DEF Sync

\* Without a write nothing is changed by the command.
LEMMA StepUnchanged ==
    ASSUME SyncTypeOK, Unchanged, Sync
    PROVE  Unchanged'
<1>1. CASE ReadChanges \/ SelectTarget \/ PlanItem \/ CheckItem
  BY <1>1 DEF Unchanged, ReadChanges, SelectTarget, PlanItem, CheckItem
<1>2. CASE ShowPlan \/ SkipItem \/ DeleteItem \/ MakeDirectory \/ ReadLocal \/ SendFile
  <2>1. pc' \notin {"start", "target", "plan", "check"}
    BY <1>2, AdvanceTypes
    DEF ShowPlan, SkipItem, DeleteItem, MakeDirectory, ReadLocal, SendFile, End
  <2>2. QED
    BY <2>1 DEF Unchanged
<1>3. QED
  BY <1>1, <1>2 DEF Sync

\* A step that handles one item, and changes no path but that item's, keeps
\* what was achieved before.
LEMMA HandledResult ==
    ASSUME SyncTypeOK, Result, pc \in {"item", "send"}, Advance("item", "synced"),
           UNCHANGED <<item, sent, start, foreign>>,
           \A q \in Paths \ foreign : q # Order[pos] => remote'[q] = remote[q],
           ~ Acts(Order[pos]) => remote'[Order[pos]] = remote[Order[pos]],
           item[Order[pos]] = "write" /\ Order[pos] \notin foreign =>
               sent[Order[pos]] \in Ours /\ remote'[Order[pos]] = sent[Order[pos]],
           item[Order[pos]] = "delete" /\ Order[pos] \notin foreign =>
               remote'[Order[pos]] \notin Contents
    PROVE  Result'
<1> DEFINE p == Order[pos]
<1>0. p \in Paths /\ pos \in 1 .. Last /\ Last \in Nat \ {0}
  BY OrderFacts DEF SyncTypeOK, Last
<1>1. Looping \/ pc = "synced"
  BY DEF Looping
<1>2. ASSUME NEW q \in Paths \ foreign, ~ Acts(q)
      PROVE  Spared(q)'
  <2>1. remote'[q] = remote[q]
    BY <1>2
  <2>2. Spared(q)
    BY <1>1, <1>2 DEF Result
  <2>3. QED
    BY <2>1, <2>2 DEF Spared
<1>3. ASSUME NEW k \in 1 .. Last, Handled(k)', Order[k] \notin foreign
      PROVE  /\ item[Order[k]] = "write" =>
                    sent[Order[k]] \in Ours /\ remote'[Order[k]] = sent[Order[k]]
             /\ item[Order[k]] = "delete" => remote'[Order[k]] \notin Contents
  <2>1. CASE k = pos
    BY <2>1, <1>3
  <2>2. CASE k # pos
    <3>1. Handled(k)
      BY <1>3, <2>2, NextItem
    <3>2. Order[k] \in Paths /\ Order[k] # p
      BY <1>0, <2>2, OrderFacts, SyncAssumption
    <3>3. QED
      BY <1>1, <1>3, <3>1, <3>2 DEF Result
  <2>3. QED
    BY <2>1, <2>2
<1>4. QED
  BY <1>2, <1>3 DEF Result, Acts

\* What is handled is at the target.
LEMMA StepResult ==
    ASSUME SyncTypeOK, Sending, Clear, Unchanged, Result, Sync
    PROVE  Result'
<1> DEFINE p == Order[pos]
<1>0. p \in Paths /\ pos \in 1 .. Last /\ Last \in Nat \ {0}
  BY OrderFacts DEF SyncTypeOK, Last
<1>1. CASE pc' \notin {"item", "read", "send", "synced"}
  BY <1>1 DEF Result, Looping
<1>2. CASE ReadChanges \/ SelectTarget \/ PlanItem \/ ShowPlan
  <2>1. pc' \notin {"item", "read", "send", "synced"}
    BY <1>2, AdvanceTypes DEF ReadChanges, SelectTarget, PlanItem, ShowPlan, End
  <2>2. QED
    BY <1>1, <2>1
<1>3. CASE CheckItem /\ pc' = "item"
  <2>1. pos' = 1 /\ pc = "check" /\ UNCHANGED <<item, remote, sent, start, foreign>>
    BY <1>3, AdvanceTypes DEF CheckItem, End
  <2>2. \A k \in 1 .. Last : ~ Handled(k)'
    BY <1>0, <1>3, <2>1 DEF Handled
  <2>3. \A q \in Paths \ foreign : remote[q] = start[q]
    BY <2>1 DEF Unchanged
  <2>4. QED
    BY <2>1, <2>2, <2>3 DEF Result, Spared
<1>4. CASE CheckItem /\ pc' # "item"
  BY <1>1, <1>4, AdvanceTypes DEF CheckItem, End
<1>5. CASE SkipItem
  BY <1>5, HandledResult DEF SkipItem, AtItem, Acts
<1>6. CASE DeleteItem /\ pc' # "failed"
  <2>1. /\ pc = "item" /\ Advance("item", "synced")
        /\ item[p] = "delete"
        /\ remote' = [remote EXCEPT ![p] = "absent"]
        /\ UNCHANGED <<item, sent, start, foreign>>
    BY <1>6 DEF DeleteItem, AtItem, End, Put
  <2>2. remote \in [Paths -> Contents \union {"absent", "dir"}]
    BY InTrees DEF SyncTypeOK
  <2>3. remote'[p] \notin Contents /\ \A q \in Paths : q # p => remote'[q] = remote[q]
    BY <1>0, <2>1, <2>2, NoContent
  <2>4. QED
    BY <2>1, <2>3, HandledResult DEF Acts
<1>7. CASE MakeDirectory /\ pc' # "failed"
  <2>1. /\ pc = "item" /\ pc' = "read" /\ item[p] = "write"
        /\ \A q \in Above[p] : remote[q] \notin Contents
        /\ remote' = WithParents(p)
        /\ UNCHANGED <<item, sent, start, foreign, pos>>
    BY <1>7 DEF MakeDirectory, AtItem, Put
  <2>2. \A q \in Paths : remote'[q] = remote[q] \/ (q \in Above[p] /\ remote'[q] = "dir")
    BY <2>1 DEF WithParents
  <2>3. \A q \in Above[p] : remote[q] \in {"absent", "dir"}
    BY <1>0, <2>1, InTrees, AboveFacts DEF SyncTypeOK
  <2>4. ASSUME NEW q \in Paths \ foreign, ~ Acts(q)
        PROVE  Spared(q)'
    <3>1. Spared(q)
      BY <2>1, <2>4 DEF Result, Looping
    <3>2. CASE remote'[q] = remote[q]
      BY <2>1, <3>1, <3>2 DEF Spared
    <3>3. CASE remote'[q] # remote[q]
      <4>1. q \in Above[p] /\ remote'[q] = "dir" /\ remote[q] = "absent"
        BY <2>2, <2>3, <3>3
      <4>2. start[q] = "absent"
        BY <3>1, <4>1 DEF Spared
      <4>3. QED
        BY <1>0, <2>1, <4>1, <4>2 DEF Spared
    <3>4. QED
      BY <3>2, <3>3
  <2>5. ASSUME NEW k \in 1 .. Last, Handled(k)', Order[k] \notin foreign
        PROVE  /\ item[Order[k]] = "write" =>
                      sent[Order[k]] \in Ours /\ remote'[Order[k]] = sent[Order[k]]
               /\ item[Order[k]] = "delete" => remote'[Order[k]] \notin Contents
    <3>1. Order[k] \in Paths /\ Handled(k)
      BY <2>1, <2>5, OrderFacts DEF Handled, Looping
    <3>2. /\ item[Order[k]] = "write" =>
                  sent[Order[k]] \in Ours /\ remote[Order[k]] = sent[Order[k]]
          /\ item[Order[k]] = "delete" => remote[Order[k]] \notin Contents
      BY <2>1, <2>5, <3>1 DEF Result, Looping
    <3>3. item[Order[k]] = "write" => Order[k] \notin Above[p]
      BY <2>1, <3>2 DEF Contents
    <3>4. QED
      BY <2>2, <3>1, <3>2, <3>3, NoContent
  <2>6. QED
    BY <2>1, <2>4, <2>5 DEF Result, Acts
<1>8. CASE ReadLocal /\ pc' # "failed"
  <2>1. /\ pc = "read" /\ pc' = "send"
        /\ sent' = [sent EXCEPT ![p] = local[p]]
        /\ UNCHANGED <<item, remote, start, foreign, pos>>
    BY <1>8 DEF ReadLocal
  <2>2. \A k \in 1 .. Last : Handled(k)' => Handled(k) /\ Order[k] # p /\ Order[k] \in Paths
    <3>1. \A k \in 1 .. Last : Handled(k)' => Handled(k) /\ k < pos
      BY <2>1 DEF Handled, Looping
    <3>2. \A k \in 1 .. Last : k < pos => Order[k] # p /\ Order[k] \in Paths
      BY <1>0, OrderFacts, SyncAssumption
    <3>3. QED
      BY <3>1, <3>2
  <2>3. \A k \in 1 .. Last : Handled(k)' => sent'[Order[k]] = sent[Order[k]]
    BY <2>1, <2>2 DEF SyncTypeOK
  <2>4. Looping
    BY <2>1 DEF Looping
  <2>5. QED
    BY <2>1, <2>2, <2>3, <2>4 DEF Result, Acts, Spared
<1>9. CASE SendFile /\ pc' # "failed"
  <2>1. /\ pc = "send" /\ Advance("item", "synced")
        /\ remote' = Written(p)
        /\ UNCHANGED <<item, sent, start, foreign>>
    BY <1>9 DEF SendFile, End, Put
  <2>2. item[p] = "write" /\ sent[p] \in Ours
    BY <2>1 DEF Sending
  <2>3. \A q \in Paths \ foreign : p \in Above[q] => remote[q] = "absent"
    <3>1. Awaited(pos) /\ Acts(p)
      BY <1>0, <2>1, <2>2 DEF Awaited, Looping, Acts
    <3>2. QED
      BY <1>0, <3>1 DEF Clear
  <2>4. \A q \in Paths : remote'[q] = IF q = p THEN sent[p]
                                       ELSE IF p \in Above[q] THEN "absent" ELSE remote[q]
    BY <2>1 DEF Written
  <2>5. QED
    BY <1>0, <2>1, <2>2, <2>3, <2>4, HandledResult DEF Acts
<1>10. QED
  BY <1>1, <1>2, <1>3, <1>4, <1>5, <1>6, <1>7, <1>8, <1>9 DEF Sync

-----------------------------------------------------------------------------
(* The theorems.                                                           *)

\* It holds when the command starts.
LEMMA HonestStarts == SyncInit => Honest
BY DEF SyncInit, Honest, BeforeWrites, Sending, Clear, Unchanged, Result, Awaited, Looping

\* The edits of the developer and the writes of others keep it as well.
LEMMA HonestStep == SyncTypeOK /\ Honest /\ [SyncNext]_vars => Honest'
<1> SUFFICES ASSUME SyncTypeOK, Honest, [SyncNext]_vars
             PROVE  Honest'
  OBVIOUS
<1> USE DEF Honest
<1>1. CASE Sync
  BY <1>1, StepBeforeWrites, StepSending, StepClear, StepUnchanged, StepResult
<1>2. CASE EditLocal \/ UNCHANGED vars
  <2>1. UNCHANGED <<pc, remote, item, pos, sent, start, foreign, wrote>>
    BY <1>2 DEF EditLocal, vars
  <2>2. QED
    BY <2>1 DEF BeforeWrites, Sending, Clear, Unchanged, Result, Awaited,
       Handled, Looping, Acts, Spared
<1>3. CASE OthersWrite
  <2>1. UNCHANGED <<pc, item, pos, sent, start, wrote>>
    BY <1>3 DEF OthersWrite
  <2>2. \A q \in Paths : q \notin foreign' => q \notin foreign /\ remote'[q] = remote[q]
    BY <1>3 DEF OthersWrite
  <2>3. BeforeWrites' /\ Sending'
    BY <2>1 DEF BeforeWrites, Sending
  <2>4. Clear'
    BY <2>1, <2>2 DEF Clear, Awaited, Looping, Acts
  <2>5. Unchanged'
    BY <2>1, <2>2 DEF Unchanged
  <2>6. Result'
    <3>1. ASSUME NEW q \in Paths \ foreign', Looping \/ pc = "synced", ~ Acts(q)
          PROVE  Spared(q)'
      <4>1. Spared(q)
        BY <2>2, <3>1 DEF Result
      <4>2. QED
        BY <2>1, <2>2, <3>1, <4>1 DEF Spared
    <3>2. \A k \in 1 .. Last : Handled(k)' => Handled(k) /\ Order[k] \in Paths
      BY <2>1, OrderFacts DEF Handled, Looping
    <3>3. QED
      BY <2>1, <2>2, <3>1, <3>2 DEF Result, Looping, Acts
  <2>7. QED
    BY <2>3, <2>4, <2>5, <2>6
<1>4. QED
  BY <1>1, <1>2, <1>3 DEF SyncNext

\* Honest holds, whatever is edited and written by others meanwhile.
THEOREM HonestKept == SyncSpec => []Honest
BY HonestStarts, HonestStep, SyncTypeCorrect, PTL DEF SyncSpec

\* What Honest says of a run that ends without a request.
LEMMA HonestUntouched == Honest => ReportedUntouched
BY DEF Honest, BeforeWrites, ReportedUntouched

\* A dry run, and one that meets a directory, have changed nothing.
THEOREM Untouched == SyncSpec => []ReportedUntouched
BY HonestUntouched, HonestKept, PTL

\* What it says of a run that ends with success.
LEMMA HonestSynced == SyncTypeOK /\ Honest => SuccessMeansSynced
<1> SUFFICES ASSUME Honest, pc = "synced", NEW p \in Paths \ foreign
             PROVE  /\ item[p] = "write" => sent[p] # "absent" /\ remote[p] = sent[p]
                    /\ item[p] = "delete" => remote[p] \notin Contents
                    /\ ~ Acts(p) => Spared(p)
  BY DEF SuccessMeansSynced, Spared
<1>1. PICK k \in 1 .. Last : p = Order[k]
  BY OrderFacts
<1>2. Handled(k)
  BY DEF Handled
<1>3. QED
  BY <1>1, <1>2, NoContent DEF Honest, Result, Contents

\* A run that reports success has made exactly the planned changes.
THEOREM Synced == SyncSpec => []SuccessMeansSynced
BY HonestSynced, SyncTypeCorrect, HonestKept, PTL

\* What a step may not do to a directory of the container.
DirectoriesStay ==
    changes' = changes =>
         \A p \in Paths \ foreign : remote[p] = "dir" => remote'[p] = "dir"

\* No request of the command replaces one.
LEMMA DirectoriesStep == SyncTypeOK /\ Honest /\ [SyncNext]_vars => [DirectoriesStay]_vars
<1> SUFFICES ASSUME SyncTypeOK, Honest, SyncNext, changes' = changes,
                    NEW q \in Paths \ foreign, remote[q] = "dir"
             PROVE  remote'[q] = "dir"
  BY DEF DirectoriesStay
<1> DEFINE p == Order[pos]
<1>0. p \in Paths /\ pos \in 1 .. Last /\ Last \in Nat \ {0}
  BY OrderFacts DEF SyncTypeOK, Last
<1>1. CASE ReadChanges \/ SelectTarget \/ PlanItem \/ CheckItem \/ ShowPlan
             \/ SkipItem \/ ReadLocal \/ EditLocal
  BY <1>1 DEF ReadChanges, SelectTarget, PlanItem, CheckItem, ShowPlan, SkipItem,
     ReadLocal, EditLocal
<1>2. CASE DeleteItem
  <2>1. remote' = remote \/ (remote[p] # "dir" /\ remote' = [remote EXCEPT ![p] = "absent"])
    BY <1>2 DEF DeleteItem, Put
  <2>2. remote \in [Paths -> Contents \union {"absent", "dir"}]
    BY InTrees DEF SyncTypeOK
  <2>3. QED
    BY <2>1, <2>2
<1>3. CASE MakeDirectory
  BY <1>3 DEF MakeDirectory, Put, WithParents
<1>4. CASE SendFile
  <2>1. Awaited(pos) /\ Acts(p)
    BY <1>0, <1>4 DEF SendFile, Awaited, Looping, Honest, Sending, Acts
  <2>2. q # p /\ p \notin Above[q]
    BY <1>0, <2>1 DEF Honest, Clear
  <2>3. QED
    BY <1>4, <2>2 DEF SendFile, Put, Written
<1>5. CASE OthersWrite
  BY <1>5 DEF OthersWrite, SyncTypeOK
<1>6. QED
  BY <1>1, <1>2, <1>3, <1>4, <1>5 DEF SyncNext, Sync

\* No directory is overwritten, but one that others made since the check.
THEOREM DirectoriesSafe == SyncSpec => DirectoriesKept
BY DirectoriesStep, SyncTypeCorrect, HonestKept, PTL DEF SyncSpec, DirectoriesKept, DirectoriesStay

-----------------------------------------------------------------------------
(* galaxy diff.                                                            *)

Verdicts == {"none", "same", "different", "deleted", "missing", "both absent"}
Comparing == {"local", "exists", "content"}

\* The history is of files; diff asks for nothing but the list before it has a
\* container, and goes through the list from the first path on.
DiffShape ==
    /\ SyncTypeOK
    /\ item \in [Paths -> {"none", "deleted", "changed"}]
    /\ diffing \in {"off", "compared", "failed"} \union Comparing
    /\ hold \in Ours \union {"absent"}
    /\ verdict \in [Paths -> Verdicts]
    /\ sawLocal \in [Paths -> SUBSET (Ours \union {"absent"})]
    /\ sawRemote \in [Paths -> SUBSET (Contents \union {"absent"})]
    /\ IF diffing = "off" THEN pc \in {"start", "target", "nothing", "failed"} /\ pos = 1
                          ELSE pc = "plan"

\* The container is as it was, but for others; what both sides are has been seen.
NothingTouched == ~ wrote /\ \A p \in Paths \ foreign : remote[p] = start[p]
Witnessed == \A p \in Paths : WorkFile(p) \in sawLocal[p] /\ RemoteFile(p) \in sawRemote[p]

\* What a verdict about p means, by what both sides have been.
Sound(p) ==
    LET was(side) == \E c \in side : c # "absent"
    IN /\ verdict[p] = "none" => item[p] = "none"
       /\ verdict[p] = "same" => was(sawLocal[p] \intersect sawRemote[p])
       /\ verdict[p] = "different" =>
             \E c \in sawLocal[p], d \in sawRemote[p] : c # "absent" /\ d # "absent" /\ c # d
       /\ verdict[p] = "deleted" => "absent" \in sawLocal[p] /\ was(sawRemote[p])
       /\ verdict[p] = "missing" => was(sawLocal[p]) /\ "absent" \in sawRemote[p]
       /\ verdict[p] = "both absent" => "absent" \in sawLocal[p] /\ "absent" \in sawRemote[p]

\* The paths the loop has come past, the one in hand, and those to come.
JudgedInOrder ==
    /\ \A k \in 1 .. Last : (diffing \in Comparing /\ k < pos) \/ diffing = "compared" =>
          Sound(Order[k])
    /\ \A k \in 1 .. Last : diffing = "off" \/ (diffing \in Comparing /\ k >= pos) =>
          verdict[Order[k]] = "none"
    /\ diffing \in {"exists", "content"} => hold \in sawLocal[Order[pos]]

DiffSound == DiffShape /\ NothingTouched /\ Witnessed /\ JudgedInOrder

\* A path has one place in the list.
LEMMA OrderOnce == \A j, k \in 1 .. Last : Order[j] = Order[k] => j = k
BY SyncAssumption, OrderFacts

\* The contents of files are no marks.
LEMMA NoMarks == {"absent", "dir", "error"} \intersect Contents = {}
BY SyncAssumption DEF Contents

\* diff starts with everything seen.
LEMMA DiffStarts == SyncInit /\ DiffInit => DiffSound
<1> SUFFICES ASSUME SyncInit, DiffInit PROVE DiffSound
  OBVIOUS
<1>1. SyncTypeOK
  BY SyncTypesStart
<1>2. DiffShape
  <2>1. \A p \in Paths : WorkFile(p) \in Ours \union {"absent"}
                         /\ RemoteFile(p) \in Contents \union {"absent"}
    BY DEF WorkFile, RemoteFile
  <2> QED
    BY <1>1, <2>1 DEF DiffShape, SyncInit, DiffInit, Verdicts
<1>3. NothingTouched /\ Witnessed
  BY DEF NothingTouched, Witnessed, SyncInit, DiffInit
<1>4. JudgedInOrder
  BY OrderFacts DEF JudgedInOrder, DiffInit, Comparing
<1> QED
  BY <1>2, <1>3, <1>4 DEF DiffSound

\* The loop goes on at the next path, or all are compared.
LEMMA NextFileFacts ==
    ASSUME DiffShape, NextFile
    PROVE  /\ pos' \in 1 .. Last
           /\ \/ pos < Last /\ pos' = pos + 1 /\ diffing' = "local"
              \/ pos = Last /\ pos' = pos /\ diffing' = "compared"
<1>1. pos \in 1 .. Last /\ Last \in Nat \ {0}
  BY OrderFacts DEF DiffShape, SyncTypeOK, Last
<1> QED
  BY <1>1 DEF NextFile, Last

\* A step that ends with a file leaves both trees alone, and what the loop has
\* come past stays sound.
LEMMA DiffGoesOn ==
    ASSUME DiffSound, diffing \in Comparing, Seen, UNCHANGED <<pc, item, sent>>, NextFile,
           NEW p, p = Order[pos],
           hold' \in Ours \union {"absent"},
           verdict' \in [Paths -> Verdicts],
           \A q \in Paths \ {p} : verdict'[q] = verdict[q],
           Sound(p)'
    PROVE  DiffSound'
<1>1. pos \in 1 .. Last /\ p \in Paths /\ Last \in Nat
  BY OrderFacts DEF DiffSound, DiffShape, SyncTypeOK, Last
<1>2. pos' \in 1 .. Last /\ diffing' \in {"local", "compared"} /\ pc = "plan"
  BY NextFileFacts DEF DiffSound, DiffShape, Comparing
<1>3. DiffShape'
  <2>1. SyncTypeOK'
    BY <1>2 DEF DiffSound, DiffShape, SyncTypeOK, Seen, Last
  <2> QED
    BY <1>2, <2>1 DEF DiffSound, DiffShape, Seen, Comparing
<1>4. (NothingTouched /\ Witnessed)'
  BY DEF DiffSound, NothingTouched, Witnessed, Seen, WorkFile, RemoteFile
<1>5. ASSUME NEW q \in Paths \ {p}, Sound(q) PROVE Sound(q)'
  <2>1. verdict'[q] = verdict[q] /\ UNCHANGED <<item, sawLocal, sawRemote>>
    BY DEF Seen
  <2> QED
    BY <1>5, <2>1 DEF Sound
<1>6. \A k \in 1 .. Last : k # pos => Order[k] \in Paths \ {p}
  BY <1>1, OrderOnce, OrderFacts
<1>7. \/ pos < Last /\ pos' = pos + 1 /\ diffing' = "local"
      \/ pos = Last /\ pos' = pos /\ diffing' = "compared"
  BY NextFileFacts DEF DiffSound
<1>8. \A k \in 1 .. Last : k < pos => Sound(Order[k])'
  BY <1>1, <1>5, <1>6 DEF DiffSound, JudgedInOrder
<1>9. ASSUME NEW k \in 1 .. Last, (diffing' \in Comparing /\ k < pos') \/ diffing' = "compared"
      PROVE  Sound(Order[k])'
  <2>1. k <= pos
    BY <1>1, <1>7, <1>9 DEF Comparing
  <2> QED
    BY <1>1, <1>8, <2>1
<1>10. ASSUME NEW k \in 1 .. Last, diffing' \in Comparing, k >= pos'
       PROVE  verdict'[Order[k]] = "none"
  <2>1. k >= pos /\ k # pos
    BY <1>1, <1>7, <1>10 DEF Comparing
  <2> QED
    BY <1>6, <2>1 DEF DiffSound, JudgedInOrder
<1> QED
  BY <1>2, <1>3, <1>4, <1>9, <1>10 DEF DiffSound, JudgedInOrder

\* A verdict about the path in hand.
LEMMA DiffJudges ==
    ASSUME DiffSound, diffing \in Comparing, Seen, UNCHANGED <<pc, item, sent>>,
           NEW p, p = Order[pos], NEW v \in Verdicts, Judge(v),
           verdict'[p] = v => Sound(p)'
    PROVE  DiffSound'
<1>1. p \in Paths
  BY OrderFacts DEF DiffSound, DiffShape, SyncTypeOK, Last
<1>2. /\ verdict' \in [Paths -> Verdicts] /\ verdict'[p] = v
      /\ \A q \in Paths \ {p} : verdict'[q] = verdict[q]
  BY <1>1 DEF DiffSound, DiffShape, Judge
<1>3. NextFile /\ hold' \in Ours \union {"absent"}
  BY DEF DiffSound, DiffShape, Judge
<1> QED
  BY <1>2, <1>3, DiffGoesOn

\* diff gives up.
LEMMA DiffGivesUp ==
    ASSUME DiffSound, diffing \in Comparing, Seen, UNCHANGED <<pc, item, sent>>, DiffFails
    PROVE  DiffSound'
<1>1. DiffShape'
  BY DEF DiffSound, DiffShape, SyncTypeOK, Seen, DiffFails, Comparing
<1>2. (NothingTouched /\ Witnessed /\ JudgedInOrder)'
  BY DEF DiffSound, NothingTouched, Witnessed, JudgedInOrder, Seen, WorkFile, RemoteFile, DiffFails, Comparing
<1> QED
  BY <1>1, <1>2 DEF DiffSound

\* The step to the next request about the file in hand.
LEMMA DiffSameFile ==
    ASSUME DiffSound, diffing \in Comparing, Seen, UNCHANGED <<pc, item, sent, verdict, pos>>,
           diffing' \in {"exists", "content"}, hold' \in Ours \union {"absent"},
           hold' \in sawLocal[Order[pos]]
    PROVE  DiffSound'
<1>1. DiffShape'
  BY DEF DiffSound, DiffShape, SyncTypeOK, Seen, Comparing
<1>2. (NothingTouched /\ Witnessed)'
  BY DEF DiffSound, NothingTouched, Witnessed, Seen, WorkFile, RemoteFile
<1>3. ASSUME NEW q \in Paths, Sound(q) PROVE Sound(q)'
  <2>1. UNCHANGED <<verdict, item, sawLocal, sawRemote>>
    BY DEF Seen
  <2> QED
    BY <1>3, <2>1 DEF Sound
<1>4. JudgedInOrder'
  BY <1>3, OrderFacts DEF DiffSound, JudgedInOrder, Seen, Comparing
<1> QED
  BY <1>1, <1>2, <1>4 DEF DiffSound

\* readLocalFile: what it returned is what the working tree had.
LEMMA CompareLocalStep == DiffSound /\ CompareLocal => DiffSound'
<1> SUFFICES ASSUME DiffSound, CompareLocal PROVE DiffSound'
  OBVIOUS
<1>p. PICK p : p = Order[pos]
  OBVIOUS
<1>1. p \in Paths /\ pos \in 1 .. Last
  BY <1>p, OrderFacts DEF DiffSound, DiffShape, SyncTypeOK, Last
<1>2. Seen /\ UNCHANGED <<pc, item, sent>> /\ diffing = "local" /\ diffing \in Comparing
  BY DEF CompareLocal, Comparing
<1>3. CASE item[p] = "none" /\ NextFile /\ UNCHANGED <<hold, verdict>>
  <2>1. verdict[p] = "none"
    BY <1>p, <1>1, <1>2 DEF DiffSound, JudgedInOrder
  <2>2. Sound(p)'
    BY <1>2, <1>3, <2>1 DEF Sound, Seen
  <2>3. verdict' \in [Paths -> Verdicts] /\ hold' \in Ours \union {"absent"}
    BY <1>3 DEF DiffSound, DiffShape
  <2> QED
    BY <1>p, <1>2, <1>3, <2>2, <2>3, DiffGoesOn
<1>4. CASE /\ Stat(p) \in Ours \union {"absent"}
           /\ hold' = Stat(p) /\ diffing' = "exists" /\ UNCHANGED <<verdict, pos>>
  <2>1. Stat(p) = local[p]
    BY <1>4, NoMarks DEF Stat, Contents
  <2>2. Stat(p) = WorkFile(p)
    BY <1>4, <2>1 DEF WorkFile
  <2>3. hold' \in sawLocal[p]
    BY <1>1, <1>4, <2>2 DEF DiffSound, Witnessed
  <2> QED
    BY <1>p, <1>2, <1>4, <2>3, DiffSameFile
<1> QED
  BY <1>p, <1>2, <1>3, <1>4, DiffGivesUp DEF CompareLocal

\* The container is asked whether the file is there.
LEMMA CompareExistsStep == DiffSound /\ CompareExists => DiffSound'
<1> SUFFICES ASSUME DiffSound, CompareExists PROVE DiffSound'
  OBVIOUS
<1>p. PICK p : p = Order[pos]
  OBVIOUS
<1> DEFINE v == IF hold = "absent" THEN "both absent" ELSE "missing"
<1>1. p \in Paths /\ pos \in 1 .. Last
  BY <1>p, OrderFacts DEF DiffSound, DiffShape, SyncTypeOK, Last
<1>2. Seen /\ UNCHANGED <<pc, item, sent>> /\ diffing = "exists" /\ diffing \in Comparing
  BY DEF CompareExists, Comparing
<1>3. hold \in sawLocal[p] /\ hold \in Ours \union {"absent"} /\ RemoteFile(p) \in sawRemote[p]
  BY <1>p, <1>1, <1>2 DEF DiffSound, DiffShape, JudgedInOrder, Witnessed
<1>4. CASE RemoteFile(p) # "absent" /\ diffing' = "content" /\ UNCHANGED <<hold, verdict, pos>>
  BY <1>p, <1>2, <1>3, <1>4, DiffSameFile
<1>5. CASE RemoteFile(p) = "absent" /\ Judge(v)
  <2>1. ASSUME verdict'[p] = v PROVE Sound(p)'
    BY <1>p, <1>2, <1>3, <1>5, <2>1 DEF Sound, Seen
  <2>2. v \in Verdicts
    BY DEF Verdicts
  <2> QED
    BY <1>p, <1>2, <1>5, <2>1, <2>2, DiffJudges
<1> QED
  BY <1>p, <1>2, <1>4, <1>5, DiffGivesUp DEF CompareExists

\* The file of the container is read and compared.
LEMMA CompareContentStep == DiffSound /\ CompareContent => DiffSound'
<1> SUFFICES ASSUME DiffSound, CompareContent PROVE DiffSound'
  OBVIOUS
<1>p. PICK p : p = Order[pos]
  OBVIOUS
<1> DEFINE v == IF hold = "absent" THEN "deleted"
                ELSE IF hold = RemoteFile(p) THEN "same" ELSE "different"
<1>1. p \in Paths /\ pos \in 1 .. Last
  BY <1>p, OrderFacts DEF DiffSound, DiffShape, SyncTypeOK, Last
<1>2. Seen /\ UNCHANGED <<pc, item, sent>> /\ diffing = "content" /\ diffing \in Comparing
  BY DEF CompareContent, Comparing
<1>3. hold \in sawLocal[p] /\ hold \in Ours \union {"absent"} /\ RemoteFile(p) \in sawRemote[p]
  BY <1>p, <1>1, <1>2 DEF DiffSound, DiffShape, JudgedInOrder, Witnessed
<1>4. CASE RemoteFile(p) # "absent" /\ Judge(v)
  <2>1. ASSUME verdict'[p] = v PROVE Sound(p)'
    BY <1>p, <1>2, <1>3, <1>4, <2>1 DEF Sound, Seen
  <2>2. v \in Verdicts
    BY DEF Verdicts
  <2> QED
    BY <1>p, <1>2, <1>4, <2>1, <2>2, DiffJudges
<1> QED
  BY <1>p, <1>2, <1>4, DiffGivesUp DEF CompareContent

\* The list of Git and the choice of a container are as those of galaxy sync.
LEMMA StartDiffStep == DiffSound /\ StartDiff => DiffSound'
<1> SUFFICES ASSUME DiffSound, StartDiff PROVE DiffSound'
  OBVIOUS
<1>1. /\ pc \in {"start", "target"} /\ diffing = "off" /\ pos = 1
      /\ UNCHANGED <<local, remote, pos, sent, start, foreign, wrote, changes,
                     hold, verdict, sawLocal, sawRemote>>
  BY DEF StartDiff, ReadChanges, SelectTarget, DiffSound, DiffShape
<1>2. SyncTypeOK'
  BY SyncTypes DEF StartDiff, Sync, DiffSound, DiffShape
<1>3. item' \in [Paths -> {"none", "deleted", "changed"}]
  <2>1. CASE UNCHANGED item
    BY <2>1 DEF DiffSound, DiffShape
  <2>2. ASSUME NEW head \in GitTrees, NEW index \in GitTrees,
               \/ item' = [x \in Paths |-> WorktreeEntry(head, index, x)]
               \/ item' = [x \in Paths |-> CommitEntry(head, index, x)]
        PROVE  item' \in [Paths -> {"none", "deleted", "changed"}]
    BY <2>2 DEF WorktreeEntry, CommitEntry
  <2> QED
    BY <2>1, <2>2 DEF StartDiff, ReadChanges, SelectTarget
<1>4. pc' \in {"target", "nothing", "plan", "failed"} /\ diffing' = IF pc' = "plan" THEN "local" ELSE "off"
  BY DEF StartDiff, ReadChanges, SelectTarget
<1>5. DiffShape'
  BY <1>1, <1>2, <1>3, <1>4 DEF DiffSound, DiffShape, Comparing
<1>6. (NothingTouched /\ Witnessed)'
  BY <1>1 DEF DiffSound, NothingTouched, Witnessed, WorkFile, RemoteFile
<1>7. JudgedInOrder'
  BY <1>1, <1>4, OrderFacts DEF DiffSound, JudgedInOrder, Comparing
<1> QED
  BY <1>5, <1>6, <1>7 DEF DiffSound

\* Others change one of the two sides, and what they have made of it is seen.
LEMMA MeanwhileStep == DiffSound /\ MeanwhileDiff => DiffSound'
<1> SUFFICES ASSUME DiffSound, MeanwhileDiff PROVE DiffSound'
  OBVIOUS
<1>1. UNCHANGED <<pc, item, pos, sent, start, wrote, diffing, hold, verdict>>
  BY DEF MeanwhileDiff, Look, EditLocal, OthersWrite, OthersSync
<1>2. SyncTypeOK'
  BY SyncAssumption DEF MeanwhileDiff, EditLocal, OthersWrite, OthersSync, DiffSound, DiffShape, SyncTypeOK
<1>3. /\ sawLocal' \in [Paths -> SUBSET (Ours \union {"absent"})]
      /\ sawRemote' \in [Paths -> SUBSET (Contents \union {"absent"})]
      /\ \A p \in Paths : /\ sawLocal[p] \subseteq sawLocal'[p] /\ WorkFile(p)' \in sawLocal'[p]
                          /\ sawRemote[p] \subseteq sawRemote'[p] /\ RemoteFile(p)' \in sawRemote'[p]
  <2>1. \A p \in Paths : WorkFile(p)' \in Ours \union {"absent"}
                         /\ RemoteFile(p)' \in Contents \union {"absent"}
    BY DEF WorkFile, RemoteFile
  <2> QED
    BY <2>1 DEF MeanwhileDiff, Look, DiffSound, DiffShape
<1>4. DiffShape'
  BY <1>1, <1>2, <1>3 DEF DiffSound, DiffShape
<1>5. NothingTouched'
  <2>1. ASSUME NEW p \in Paths \ foreign' PROVE p \notin foreign /\ remote'[p] = remote[p]
    BY <2>1 DEF MeanwhileDiff, EditLocal, OthersWrite, OthersSync
  <2> QED
    BY <1>1, <2>1 DEF DiffSound, NothingTouched
<1>6. \A p \in Paths : Sound(p) => Sound(p)'
  <2> SUFFICES ASSUME NEW p \in Paths, Sound(p) PROVE Sound(p)'
    OBVIOUS
  <2>1. sawLocal[p] \subseteq sawLocal'[p] /\ sawRemote[p] \subseteq sawRemote'[p]
        /\ verdict'[p] = verdict[p] /\ item'[p] = item[p]
    BY <1>1, <1>3
  <2> QED
    BY <2>1 DEF Sound
<1>7. JudgedInOrder'
  <2>1. hold \in sawLocal[Order[pos]] => hold' \in sawLocal'[Order[pos']]
    BY <1>1, <1>3, OrderFacts DEF DiffSound, DiffShape, SyncTypeOK, Last
  <2> QED
    BY <1>1, <1>6, <2>1, OrderFacts DEF DiffSound, JudgedInOrder
<1> QED
  BY <1>3, <1>4, <1>5, <1>7 DEF DiffSound, Witnessed

\* Every step of diff and of others keeps the invariant.
LEMMA DiffStep == DiffSound /\ [DiffNext]_<<vars, diffVars>> => DiffSound'
<1>1. DiffSound /\ UNCHANGED <<vars, diffVars>> => DiffSound'
  <2> SUFFICES ASSUME DiffSound, UNCHANGED <<vars, diffVars>> PROVE DiffSound'
    OBVIOUS
  <2> USE DEF vars, diffVars
  <2>1. DiffShape'
    BY DEF DiffSound, DiffShape, SyncTypeOK
  <2>2. (NothingTouched /\ Witnessed)'
    BY DEF DiffSound, NothingTouched, Witnessed, WorkFile, RemoteFile
  <2>3. JudgedInOrder'
    BY DEF DiffSound, JudgedInOrder, Sound
  <2> QED
    BY <2>1, <2>2, <2>3 DEF DiffSound
<1> QED
  BY <1>1, StartDiffStep, CompareLocalStep, CompareExistsStep, CompareContentStep, MeanwhileStep
     DEF DiffNext

\* A sound verdict is what galaxy diff promises of a path.
LEMMA SoundVerdicts ==
    ASSUME DiffSound, diffing = "compared", NEW p \in Paths
    PROVE  LET ours == sawLocal[p] \ {"absent"}
               theirs == sawRemote[p] \ {"absent"}
           IN CASE verdict[p] = "none" -> item[p] = "none"
                [] verdict[p] = "same" -> ours \intersect theirs # {}
                [] verdict[p] = "different" -> \E c \in ours, d \in theirs : c # d
                [] verdict[p] = "deleted" -> "absent" \in sawLocal[p] /\ theirs # {}
                [] verdict[p] = "missing" -> ours # {} /\ "absent" \in sawRemote[p]
                [] verdict[p] = "both absent" ->
                      "absent" \in sawLocal[p] /\ "absent" \in sawRemote[p]
<1>1. Sound(p)
  BY OrderFacts DEF DiffSound, JudgedInOrder
<1>2. verdict[p] \in Verdicts
  BY DEF DiffSound, DiffShape
<1> QED
  BY <1>1, <1>2 DEF Sound, Verdicts

\* What galaxy diff shows is true of contents that both sides had, for any number
\* of paths and changes.
THEOREM DiffComparesTruly == DiffSpec => []ComparedTruly
<1>1. DiffSound => ComparedTruly
  BY SoundVerdicts DEF DiffSound, NothingTouched, ComparedTruly
<1> QED
  BY <1>1, DiffStarts, DiffStep, PTL DEF DiffSpec

=============================================================================
