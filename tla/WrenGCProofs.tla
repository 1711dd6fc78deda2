---------------------------- MODULE WrenGCProofs ----------------------------
(***************************************************************************)
(* Machine-checked proofs about WrenGC, for any number of objects and for  *)
(* all functions that run between the collections.                         *)
(***************************************************************************)
EXTENDS WrenGC, NatLemmas, FiniteSetTheorems, SequenceTheorems, TLAPS

-----------------------------------------------------------------------------
(* Lemmas about the operators of the model *)

\* The elements of a list of objects
LEMMA ElementsOfList ==
  ASSUME NEW S, NEW s \in Seq(S)
  PROVE  /\ Elements(s) \subseteq S
         /\ \A x : x \in Elements(s) <=> \E i \in 1..Len(s) : s[i] = x
BY LenProperties, ElementOfSeq DEF Elements

LEMMA NoElements == Elements(<<>>) = {}
BY DEF Elements

\* Taking the first one off
LEMMA TakeFirst ==
  ASSUME NEW S, NEW s \in Seq(S), s # <<>>
  PROVE  /\ Head(s) \in S /\ Tail(s) \in Seq(S)
         /\ Elements(s) = Elements(Tail(s)) \cup {Head(s)}
         /\ (\A i, j \in DOMAIN s : s[i] = s[j] => i = j) =>
              /\ Head(s) \notin Elements(Tail(s))
              /\ \A i, j \in DOMAIN Tail(s) : Tail(s)[i] = Tail(s)[j] => i = j
<1>1. Len(s) \in Nat \ {0} /\ DOMAIN s = 1..Len(s)
  BY EmptySeq, LenProperties
<1>2. /\ Head(s) \in S /\ Tail(s) \in Seq(S) /\ Len(Tail(s)) = Len(s) - 1 /\ Head(s) = s[1]
      /\ \A i \in 1..Len(s) - 1 : Tail(s)[i] = s[i + 1]
      /\ DOMAIN Tail(s) = 1..Len(s) - 1
  BY <1>1, HeadTailProperties, LenProperties
<1>3. Elements(s) = Elements(Tail(s)) \cup {Head(s)}
  <2>1. \A x \in Elements(s) : x \in Elements(Tail(s)) \cup {Head(s)}
    <3>1. TAKE x \in Elements(s)
    <3>2. PICK i \in 1..Len(s) : s[i] = x
      BY <1>1 DEF Elements
    <3>3. i = 1 \/ (i - 1 \in 1..Len(s) - 1 /\ Tail(s)[i - 1] = x)
      BY <1>1, <1>2, <3>2
    <3> QED
      BY <1>2, <3>2, <3>3 DEF Elements
  <2>2. \A x \in Elements(Tail(s)) \cup {Head(s)} : x \in Elements(s)
    <3>1. \A i \in 1..Len(s) - 1 : Tail(s)[i] = s[i + 1] /\ i + 1 \in DOMAIN s
      BY <1>1, <1>2
    <3> QED
      BY <1>1, <1>2, <3>1 DEF Elements
  <2> QED
    BY <2>1, <2>2
<1>4. ASSUME \A i, j \in DOMAIN s : s[i] = s[j] => i = j
      PROVE  /\ Head(s) \notin Elements(Tail(s))
             /\ \A i, j \in DOMAIN Tail(s) : Tail(s)[i] = Tail(s)[j] => i = j
  <2>1. \A i \in 1..Len(s) - 1 : i + 1 \in 1..Len(s) /\ i + 1 # 1 /\ Tail(s)[i] = s[i + 1]
    BY <1>1, <1>2
  <2>2. \A i, j \in 1..Len(s) - 1 : i + 1 = j + 1 => i = j
    BY <1>1
  <2>3. 1 \in 1..Len(s)
    BY <1>1
  <2> QED
    BY <1>1, <1>2, <1>4, <2>1, <2>2, <2>3 DEF Elements
<1> QED
  BY <1>2, <1>3, <1>4

\* Putting one at the end
LEMMA PutLast ==
  ASSUME NEW S, NEW s \in Seq(S), NEW e \in S
  PROVE  /\ Append(s, e) \in Seq(S)
         /\ Elements(Append(s, e)) = Elements(s) \cup {e}
         /\ e \notin Elements(s) /\ (\A i, j \in DOMAIN s : s[i] = s[j] => i = j) =>
              \A i, j \in DOMAIN Append(s, e) : Append(s, e)[i] = Append(s, e)[j] => i = j
<1>1. /\ Append(s, e) \in Seq(S) /\ Len(Append(s, e)) = Len(s) + 1 /\ Len(s) \in Nat
      /\ \A i \in 1..Len(s) : Append(s, e)[i] = s[i]
      /\ Append(s, e)[Len(s) + 1] = e
      /\ DOMAIN s = 1..Len(s) /\ DOMAIN Append(s, e) = 1..Len(s) + 1
  BY AppendProperties, LenProperties
<1>2. 1..Len(s) + 1 = 1..Len(s) \cup {Len(s) + 1}
  BY <1>1
<1> QED
  BY <1>1, <1>2 DEF Elements

\* Putting one in front
LEMMA PutFirst ==
  ASSUME NEW S, NEW s \in Seq(S), NEW e \in S
  PROVE  /\ <<e>> \o s \in Seq(S)
         /\ Elements(<<e>> \o s) = Elements(s) \cup {e}
         /\ e \notin Elements(s) /\ (\A i, j \in DOMAIN s : s[i] = s[j] => i = j) =>
              \A i, j \in DOMAIN (<<e>> \o s) : (<<e>> \o s)[i] = (<<e>> \o s)[j] => i = j
<1> DEFINE t == <<e>> \o s
<1>1. /\ t \in Seq(S) /\ Len(t) = Len(s) + 1 /\ Len(s) \in Nat
      /\ t[1] = e /\ \A i \in 1..Len(s) : t[i + 1] = s[i]
      /\ DOMAIN s = 1..Len(s) /\ DOMAIN t = 1..Len(s) + 1
  <2>1. <<e>> \in Seq(S) /\ Len(<<e>>) = 1 /\ <<e>>[1] = e
    OBVIOUS
  <2>2. Len(s) \in Nat /\ DOMAIN s = 1..Len(s)
    BY LenProperties
  <2>3. /\ t \in Seq(S) /\ Len(t) = 1 + Len(s)
        /\ \A i \in 1..1 + Len(s) : t[i] = IF i <= 1 THEN <<e>>[i] ELSE s[i - 1]
    BY <2>1, ConcatProperties, Zenon
  <2>4. DOMAIN t = 1..Len(t)
    BY <2>3, LenProperties
  <2> HIDE DEF t
  <2> QED
    BY <2>1, <2>2, <2>3, <2>4
<1>2. \A i \in 1..Len(s) + 1 : i = 1 \/ (i - 1 \in 1..Len(s) /\ t[i] = s[i - 1])
  BY <1>1
<1>3. Elements(t) = Elements(s) \cup {e}
  <2>1. \A i \in 1..Len(s) : i + 1 \in 1..Len(s) + 1
    BY <1>1
  <2>2. 1 \in 1..Len(s) + 1
    BY <1>1
  <2> HIDE DEF t
  <2>3. ASSUME NEW i \in 1..Len(s) + 1
        PROVE  t[i] \in Elements(s) \cup {e}
    BY <1>1, <1>2 DEF Elements
  <2>4. Elements(s) \cup {e} \subseteq Elements(t)
    BY <1>1, <2>1, <2>2 DEF Elements
  <2>5. Elements(t) \subseteq Elements(s) \cup {e}
    BY <1>1, <2>3 DEF Elements
  <2> QED
    BY <2>4, <2>5
<1> HIDE DEF t
<1>4. ASSUME e \notin Elements(s), \A i, j \in DOMAIN s : s[i] = s[j] => i = j,
             NEW i \in DOMAIN t, NEW j \in DOMAIN t, t[i] = t[j]
      PROVE  i = j
  <2>1. \A k \in 1..Len(s) : s[k] # e
    BY <1>1, <1>4 DEF Elements
  <2>2. CASE i = 1 /\ j = 1
    BY <2>2
  <2>3. CASE i = 1 /\ j # 1
    BY <1>1, <1>2, <1>4, <2>1, <2>3
  <2>4. CASE i # 1 /\ j = 1
    BY <1>1, <1>2, <1>4, <2>1, <2>4
  <2>5. CASE i # 1 /\ j # 1
    <3>1. i - 1 = j - 1
      BY <1>1, <1>2, <1>4, <2>5
    <3> QED
      BY <1>1, <1>4, <3>1
  <2> QED
    BY <2>2, <2>3, <2>4, <2>5
<1> QED
  BY <1>1, <1>3, <1>4 DEF t

\* The list, and what is in it
LEMMA ListType ==
  ASSUME TypeOK
  PROVE  /\ Allocated \subseteq Obj
         /\ Elements(kept) \subseteq Obj /\ Elements(rest) \subseteq Obj
         /\ Dead \notin Allocated /\ Null \notin Allocated
BY ElementsOfList, Constants DEF TypeOK, Allocated

LEMMA StepType ==
  ASSUME TypeOK, code # <<>>
  PROVE  /\ Head(code) \in Step /\ Tail(code) \in Seq(Step)
         /\ Head(code).op \in Op /\ Head(code).r \in Reg /\ Head(code).s \in Reg
         /\ Head(code).f \in Field
         /\ Head(code).op = "new" => Head(code).t \in Type
BY HeadTailProperties DEF TypeOK, Step

LEMMA RegisterGroups ==
  /\ Roots \subseteq Reg /\ Fixed \subseteq Reg
  /\ \A r \in Reg : Group(r) \subseteq Reg
BY DEF Group, Reg

\* What a field of an object yields is one of its pointers.
LEMMA FoundIsPointer ==
  ASSUME NEW s, NEW v \in Found(s)
  PROVE  regs[s.s] \in Obj /\ \E p \in ptr[regs[s.s]] : p[2] = v
BY DEF Found

-----------------------------------------------------------------------------
(* Types *)

LEMMA InitType == Init => TypeOK
<1> SUFFICES ASSUME Init PROVE TypeOK
  OBVIOUS
<1>1. "string" \in Type
  BY DEF Type, blackenObject
<1>2. <<>> \in Seq(Obj) /\ <<>> \in Seq(Obj \cup {Null, Dead})
  BY EmptySeq
<1>3. 0 \in 0..MaxCalls /\ 0 \in 0..MaxCollections
  BY Constants
<1> QED
  BY <1>1, <1>2, <1>3, Constants, RegisterGroups DEF Init, TypeOK

\* Freeing an object
LEMMA FreeType ==
  ASSUME TypeOK, NEW o \in Obj, wrenFreeObj(o)
  PROVE  /\ ptr' \in [Obj -> SUBSET (Field \X (Obj \cup {Dead}))]
         /\ regs' \in [Reg -> Obj \cup {Null, Dead}]
         /\ fault' \in BOOLEAN
<1>1. ptr' \in [Obj -> SUBSET (Field \X (Obj \cup {Dead}))]
  <2>1. ASSUME NEW x \in Obj, NEW p \in ptr[x]
        PROVE  <<p[1], Dangling(p[2], o)>> \in Field \X (Obj \cup {Dead})
    <3>1. p \in Field \X (Obj \cup {Dead})
      BY <2>1 DEF TypeOK
    <3> QED
      BY <3>1 DEF Dangling
  <2> QED
    BY <2>1 DEF wrenFreeObj
<1>2. regs' \in [Reg -> Obj \cup {Null, Dead}]
  BY DEF TypeOK, wrenFreeObj, Dangling
<1> QED
  BY <1>1, <1>2 DEF wrenFreeObj, wrenFinalizeForeign

\* What the collector marks
LEMMA RootType ==
  ASSUME IInv, ~fault, phase \in {"run", "mark"}
  PROVE  RootObjects \subseteq Obj /\ \A o \in Allocated : Marked(o) \subseteq Obj
BY ListType DEF IInv, NothingLost, Stay

LEMMA GrayType ==
  ASSUME IInv, phase = "mark"
  PROVE  \A o \in gray : o \in Obj /\ Marked(o) \subseteq Obj
<1>1. ~fault /\ TypeOK
  BY DEF IInv
<1>2. gray \subseteq Allocated
  BY <1>1 DEF IInv, Marking
<1> QED
  BY <1>1, <1>2, RootType, ListType

LEMMA NextType == IInv /\ [Next]_vars => TypeOK'
<1> SUFFICES ASSUME IInv, [Next]_vars PROVE TypeOK'
  OBVIOUS
<1> USE DEF heap, list, marks, collector, mutator
<1>t. TypeOK
  BY DEF IInv
<1>c. code # <<>> => Head(code) \in Step /\ Tail(code) \in Seq(Step)
  BY <1>t, StepType
<1>a. ASSUME NEW ops, Advance(ops)
      PROVE  /\ code' \in Seq(Step) /\ collected' \in BOOLEAN /\ kept' \in Seq(Obj)
             /\ dark' \subseteq Obj /\ gray' \subseteq Obj
             /\ phase' \in {"run", "mark", "sweep", "free"}
             /\ calls' \in 0..MaxCalls /\ collections' \in 0..MaxCollections
  BY <1>t, <1>a, <1>c DEF Advance, TypeOK
<1>b. ASSUME NEW ops, Step1(ops)
      PROVE  Advance(ops) /\ fault' \in BOOLEAN
  BY <1>b DEF Step1, UsesDead
<1>0. CASE UNCHANGED vars
  BY <1>t, <1>0 DEF vars, TypeOK
<1>1. CASE wrenCollectGarbage
  <2>1. RootObjects \subseteq Obj
    BY <1>1, RootType DEF wrenCollectGarbage
  <2>2. collections' \in 0..MaxCollections
    BY <1>t, <1>1, Constants DEF wrenCollectGarbage, TypeOK
  <2> QED
    BY <1>t, <1>1, <2>1, <2>2 DEF wrenCollectGarbage, TypeOK
<1>2. CASE wrenBlackenObjects
  BY <1>t, <1>2, GrayType DEF wrenBlackenObjects, TypeOK
<1>3. CASE MarkEnds
  BY <1>t, <1>3 DEF MarkEnds, TypeOK
<1>4. CASE SweepKeep
  BY <1>t, <1>4, TakeFirst, PutLast DEF SweepKeep, TypeOK
<1>5. CASE SweepFree
  BY <1>t, <1>5, TakeFirst, FreeType DEF SweepFree, TypeOK
<1>6. CASE SweepEnds
  BY <1>t, <1>6, EmptySeq DEF SweepEnds, TypeOK
<1>7. CASE AllocateObj
  <2> DEFINE o == CHOOSE x \in Obj : x \notin Allocated
  <2>1. o \in Obj
    BY <1>7 DEF AllocateObj
  <2>2. <<o>> \o rest \in Seq(Obj)
    BY <1>t, <2>1, PutFirst DEF TypeOK
  <2>3. Head(code).r \in Reg /\ Head(code).t \in Type /\ Step1({"new"})
    BY <1>t, <1>7, StepType DEF AllocateObj, Step1, Advance
  <2>4. /\ type' = [type EXCEPT ![o] = Head(code).t] /\ ptr' = [ptr EXCEPT ![o] = {}]
        /\ rest' = <<o>> \o rest /\ regs' = [regs EXCEPT ![Head(code).r] = o]
        /\ UNCHANGED <<rooted, tempRoots>>
    BY <1>7 DEF AllocateObj
  <2> HIDE DEF o
  <2> QED
    BY <1>t, <1>a, <1>b, <2>1, <2>2, <2>3, <2>4 DEF TypeOK
<1>8. CASE Allocate \/ system_gc_returns \/ Read
  BY <1>t, <1>a, <1>b, <1>8 DEF Allocate, system_gc_returns, Read, TypeOK
<1>9. CASE wrenPushRoot
  <2>1. Head(code).r \in Reg
    BY <1>t, <1>9, StepType DEF wrenPushRoot, Step1, Advance
  <2>2. tempRoots' \in Seq(Obj \cup {Null, Dead})
    BY <1>t, <1>9, <2>1, AppendProperties DEF wrenPushRoot, TypeOK
  <2> QED
    BY <1>t, <1>a, <1>b, <1>9, <2>2 DEF wrenPushRoot, TypeOK
<1>10. CASE wrenPopRoot
  <2>1. tempRoots' \in Seq(Obj \cup {Null, Dead})
    <3>1. Len(tempRoots) \in Nat /\ \A i \in 1..Len(tempRoots) : tempRoots[i] \in Obj \cup {Null, Dead}
      BY <1>t, LenProperties, ElementOfSeq DEF TypeOK
    <3>2. \A i \in 1..Len(tempRoots) - 1 : tempRoots[i] \in Obj \cup {Null, Dead}
      BY <3>1
    <3> QED
      BY <1>10, <3>1, <3>2, SubSeqProperties DEF wrenPopRoot
  <2> QED
    BY <1>t, <1>a, <1>b, <1>10, <2>1 DEF wrenPopRoot, TypeOK
<1>11. CASE Assign
  <2>1. Head(code).r \in Reg /\ Head(code).s \in Reg
    BY <1>t, <1>11, StepType DEF Assign, Step1, Advance
  <2>2. regs' \in [Reg -> Obj \cup {Null, Dead}]
    BY <1>t, <1>11, <2>1 DEF Assign, TypeOK
  <2> QED
    BY <1>t, <1>a, <1>b, <1>11, <2>2 DEF Assign, TypeOK
<1>12. CASE Store
  <2>1. Head(code).f \in Field
    BY <1>t, <1>12, StepType DEF Store, Step1, Advance
  <2>2. ptr' \in [Obj -> SUBSET (Field \X (Obj \cup {Dead}))]
    BY <1>t, <1>12, <2>1 DEF Store, TypeOK
  <2> QED
    BY <1>t, <1>a, <1>b, <1>12, <2>2 DEF Store, TypeOK
<1>13. CASE Load
  <2>1. Head(code).r \in Reg
    BY <1>t, <1>13, StepType DEF Load, Advance
  <2>2. \A v \in Yielded(Head(code)) : v \in Obj \cup {Null, Dead}
    BY <1>t, FoundIsPointer DEF TypeOK, Yielded
  <2>3. regs' \in [Reg -> Obj \cup {Null, Dead}]
    <3>1. PICK v \in Yielded(Head(code)) : regs' = [regs EXCEPT ![Head(code).r] = v]
      BY <1>13 DEF Load
    <3>2. v \in Obj \cup {Null, Dead} /\ regs \in [Reg -> Obj \cup {Null, Dead}]
      BY <1>t, <2>2 DEF TypeOK
    <3> QED
      BY <2>1, <3>1, <3>2
  <2>4. fault' \in BOOLEAN /\ Advance({"pick", "get"})
    BY <1>13 DEF Load, UsesDead
  <2> QED
    BY <1>t, <1>a, <1>13, <2>3, <2>4 DEF Load, TypeOK
<1>14. CASE LoadNone
  BY <1>t, <1>14, EmptySeq DEF LoadNone, TypeOK
<1>15. CASE SetCompiler
  <2>1. Head(code).r \in Reg
    BY <1>t, <1>15, StepType DEF SetCompiler, Step1, Advance
  <2>2. rooted' \subseteq Reg
    BY <1>t, <1>15, <2>1, RegisterGroups DEF SetCompiler, TypeOK
  <2> QED
    BY <1>t, <1>a, <1>b, <1>15, <2>2 DEF SetCompiler, TypeOK
<1>16. CASE Call
  <2>1. code' \in Seq(Step) /\ calls' \in 0..MaxCalls
    BY <1>t, <1>16, Constants DEF Call, TypeOK
  <2> QED
    BY <1>t, <1>16, <2>1 DEF Call, TypeOK
<1>17. CASE wrenFreeVM
  BY <1>t, <1>17 DEF wrenFreeVM, TypeOK
<1>18. CASE FreeNext
  BY <1>t, <1>18, TakeFirst, FreeType DEF FreeNext, TypeOK
<1> QED
  BY <1>0, <1>1, <1>2, <1>3, <1>4, <1>5, <1>6, <1>7, <1>8, <1>9, <1>10, <1>11, <1>12, <1>13,
     <1>14, <1>15, <1>16, <1>17, <1>18 DEF Next

-----------------------------------------------------------------------------
(* The inductive invariant *)

LEMMA InitSound == Init => IInv
<1> SUFFICES ASSUME Init PROVE IInv
  OBVIOUS
<1>1. TypeOK
  BY InitType
<1>2. Allocated = {} /\ RootObjects = {}
  BY NoElements, <1>1 DEF Init, Allocated, RootObjects, TypeOK
<1>3. NothingLost /\ Pointers /\ Marking
  BY <1>2 DEF Init, NothingLost, Pointers, Marking, Stay
<1>4. Distinct
  BY NoElements DEF Init, Distinct
<1> QED
  BY <1>1, <1>3, <1>4 DEF Init, IInv

\* A step of a function that leaves the list and the heap as they are, and
\* whose registers and roots go on to point to what is allocated
LEMMA RegistersOnly ==
  ASSUME IInv, TypeOK', phase = "run", ~fault, UNCHANGED <<heap, list, marks, phase>>,
         \A r \in Reg : regs'[r] \in Live \cup {Null},
         RootObjects' \subseteq Allocated
  PROVE  IInv'
<1>1. Allocated' = Allocated /\ Live' = Live /\ \A o \in Obj : Marked(o)' = Marked(o)
  BY DEF Allocated, Live, Marked, heap, list
<1>2. NothingLost /\ Distinct /\ Pointers /\ Marking
  BY DEF IInv
<1>3. Allocated \subseteq Obj
  BY ListType DEF IInv
<1>4. NothingLost'
  BY <1>1, <1>2, <1>3 DEF NothingLost, Stay
<1>5. Distinct'
  BY <1>2 DEF Distinct, list, Elements
<1>6. Pointers'
  BY <1>1, <1>2 DEF Pointers, heap
<1>7. Marking'
  BY <1>2 DEF Marking, marks
<1> QED
  BY <1>4, <1>5, <1>6, <1>7 DEF IInv

LEMMA NextSound == IInv /\ [Next]_vars => IInv'
<1> SUFFICES ASSUME IInv, [Next]_vars PROVE IInv'
  OBVIOUS
<1> USE DEF heap, list, marks, collector, mutator
<1>t. TypeOK /\ TypeOK'
  BY NextType DEF IInv
<1>s. ASSUME ~fault, phase # "free" PROVE NothingLost /\ Distinct /\ Pointers /\ Marking
  BY <1>s DEF IInv
<1>l. /\ Allocated \subseteq Obj /\ Elements(kept) \subseteq Obj /\ Elements(rest) \subseteq Obj
      /\ Dead \notin Allocated /\ Null \notin Allocated
  BY <1>t, ListType
<1>m. ASSUME UNCHANGED heap PROVE \A o \in Obj : Marked(o)' = Marked(o)
  BY <1>m DEF Marked
<1>a. ASSUME UNCHANGED list
      PROVE  Allocated' = Allocated /\ Live' = Live /\ Elements(kept)' = Elements(kept)
             /\ Elements(rest)' = Elements(rest)
  BY <1>a DEF Allocated, Live
<1>r. ASSUME UNCHANGED <<regs, rooted, tempRoots>> PROVE RootObjects' = RootObjects
  BY <1>r DEF RootObjects
<1>f. ASSUME fault', phase' # "mark" PROVE IInv'
  BY <1>t, <1>f DEF IInv
<1>0. CASE UNCHANGED vars
  <2>1. /\ UNCHANGED heap /\ UNCHANGED list /\ UNCHANGED <<regs, rooted, tempRoots>>
        /\ UNCHANGED <<phase, dark, gray, fault>>
    BY <1>0 DEF vars
  <2>2. Allocated' = Allocated /\ Live' = Live /\ Elements(kept)' = Elements(kept)
        /\ Elements(rest)' = Elements(rest) /\ RootObjects' = RootObjects
        /\ \A o \in Obj : Marked(o)' = Marked(o)
    BY <2>1, <1>m, <1>a, <1>r
  <2>3. CASE fault \/ phase = "free"
    BY <1>t, <2>1, <2>3 DEF IInv
  <2>4. CASE ~fault /\ phase # "free"
    <3>1. Stay' = Stay /\ Stay \subseteq Obj
      BY <1>l, <1>s, <2>1, <2>2, <2>4 DEF Stay, NothingLost
    <3>2. NothingLost'
      BY <1>s, <2>1, <2>2, <2>4, <3>1 DEF NothingLost
    <3>3. Distinct'
      BY <1>s, <2>1, <2>2, <2>4 DEF Distinct
    <3>4. Pointers'
      BY <1>s, <2>1, <2>2, <2>4 DEF Pointers
    <3>5. Marking'
      BY <1>s, <1>t, <2>1, <2>2, <2>4 DEF Marking, TypeOK
    <3> QED
      BY <1>t, <2>1, <2>4, <3>2, <3>3, <3>4, <3>5 DEF IInv
  <2> QED
    BY <2>3, <2>4
<1>1. CASE wrenCollectGarbage
  <2>1. /\ UNCHANGED heap /\ UNCHANGED list /\ UNCHANGED <<regs, rooted, tempRoots>>
        /\ phase = "run" /\ phase' = "mark" /\ ~fault /\ ~fault'
        /\ dark' = RootObjects /\ gray' = RootObjects
    BY <1>1 DEF wrenCollectGarbage
  <2>2. Allocated' = Allocated /\ Live' = Live /\ Elements(kept)' = Elements(kept)
        /\ Elements(rest)' = Elements(rest) /\ RootObjects' = RootObjects
        /\ \A o \in Obj : Marked(o)' = Marked(o)
    BY <2>1, <1>m, <1>a, <1>r
  <2>3. NothingLost'
    BY <1>s, <1>l, <2>1, <2>2 DEF NothingLost, Stay
  <2>4. Distinct'
    BY <1>s, <2>1, <2>2 DEF Distinct
  <2>5. Pointers'
    BY <1>s, <2>1, <2>2 DEF Pointers
  <2>6. Marking'
    <3>1. RootObjects \subseteq Allocated
      BY <1>s, <2>1 DEF NothingLost, Stay
    <3> QED
      BY <2>1, <2>2, <3>1 DEF Marking
  <2> QED
    BY <1>t, <2>1, <2>3, <2>4, <2>5, <2>6 DEF IInv
<1>2. CASE wrenBlackenObjects
  <2> DEFINE o == CHOOSE x \in gray : TRUE
  <2>1. /\ UNCHANGED heap /\ UNCHANGED list /\ UNCHANGED <<regs, rooted, tempRoots>>
        /\ phase = "mark" /\ phase' = "mark" /\ ~fault /\ ~fault'
        /\ dark' = dark \cup Marked(o) /\ gray' = (gray \ {o}) \cup (Marked(o) \ dark)
        /\ o \in gray
    BY <1>2 DEF wrenBlackenObjects, IInv
  <2>2. Allocated' = Allocated /\ Live' = Live /\ Elements(kept)' = Elements(kept)
        /\ Elements(rest)' = Elements(rest) /\ RootObjects' = RootObjects
        /\ \A x \in Obj : Marked(x)' = Marked(x)
    BY <2>1, <1>m, <1>a, <1>r
  <2> HIDE DEF o
  <2>3. NothingLost'
    BY <1>s, <1>l, <2>1, <2>2 DEF NothingLost, Stay
  <2>4. Distinct'
    BY <1>s, <2>1, <2>2 DEF Distinct
  <2>5. Pointers'
    BY <1>s, <2>1, <2>2 DEF Pointers
  <2>6. Marking'
    <3>1. /\ RootObjects \subseteq dark /\ dark \subseteq Allocated /\ gray \subseteq dark
          /\ \A x \in dark \ gray : Marked(x) \subseteq dark
      BY <1>s, <2>1 DEF Marking
    <3>2. Marked(o) \subseteq Allocated
      BY <1>s, <2>1, <3>1 DEF NothingLost, Stay
    <3>3. /\ RootObjects' \subseteq dark' /\ dark' \subseteq Allocated' /\ gray' \subseteq dark'
      BY <2>1, <2>2, <3>1, <3>2
    <3>4. \A x \in dark' \ gray' : x \in Obj /\ Marked(x) \subseteq dark'
      <4>1. TAKE x \in dark' \ gray'
      <4>2. x = o \/ x \in dark \ gray
        BY <2>1
      <4> QED
        BY <1>l, <2>1, <2>2, <3>1, <3>3, <4>2
    <3> QED
      BY <2>1, <2>2, <3>3, <3>4 DEF Marking
  <2> QED
    BY <1>t, <2>1, <2>3, <2>4, <2>5, <2>6 DEF IInv
<1>3. CASE MarkEnds
  <2>1. /\ UNCHANGED heap /\ UNCHANGED list /\ UNCHANGED <<regs, rooted, tempRoots>>
        /\ phase = "mark" /\ phase' = "sweep" /\ ~fault /\ ~fault'
        /\ dark' = dark /\ gray' = gray /\ gray = {}
    BY <1>3 DEF MarkEnds, IInv
  <2>2. Allocated' = Allocated /\ Live' = Live /\ Elements(kept)' = Elements(kept)
        /\ Elements(rest)' = Elements(rest) /\ RootObjects' = RootObjects
        /\ \A x \in Obj : Marked(x)' = Marked(x)
    BY <2>1, <1>m, <1>a, <1>r
  <2>3. /\ RootObjects \subseteq dark /\ dark \subseteq Allocated
        /\ \A x \in dark : Marked(x) \subseteq dark
    BY <1>s, <2>1 DEF Marking
  <2>4. Elements(kept) = {} /\ kept = <<>>
    BY <1>s, <2>1, NoElements DEF Distinct
  <2>5. Stay' = dark
    BY <2>1, <2>2, <2>4 DEF Stay
  <2>6. NothingLost'
    BY <1>l, <2>1, <2>2, <2>3, <2>5 DEF NothingLost
  <2>7. Distinct'
    BY <1>s, <2>1, <2>2 DEF Distinct
  <2>8. Pointers'
    BY <1>s, <2>1, <2>2 DEF Pointers
  <2>9. Marking'
    BY <2>1, <2>2, <2>3, <2>4 DEF Marking, Allocated
  <2> QED
    BY <1>t, <2>1, <2>6, <2>7, <2>8, <2>9 DEF IInv
<1>4. CASE SweepKeep
  <2> DEFINE h == Head(rest)
  <2>1. /\ UNCHANGED heap /\ UNCHANGED <<regs, rooted, tempRoots>>
        /\ phase = "sweep" /\ phase' = "sweep" /\ fault' = fault
        /\ dark' = dark \ {h} /\ gray' = gray /\ h \in dark /\ rest # <<>>
        /\ kept' = Append(kept, h) /\ rest' = Tail(rest)
    BY <1>4 DEF SweepKeep
  <2>2. CASE fault
    BY <1>f, <2>1, <2>2
  <2>3. CASE ~fault
    <3>1. /\ h \in Obj /\ Elements(rest) = Elements(rest') \cup {h}
          /\ Elements(kept') = Elements(kept) \cup {h}
      BY <1>t, <2>1, TakeFirst, PutLast DEF TypeOK
    <3>2. /\ Distinct /\ h \notin Elements(kept)
      BY <1>s, <2>1, <2>3, <3>1 DEF Distinct
    <3>3. /\ h \notin Elements(rest')
          /\ \A i, j \in DOMAIN rest' : rest'[i] = rest'[j] => i = j
          /\ \A i, j \in DOMAIN kept' : kept'[i] = kept'[j] => i = j
      <4>1. /\ \A i, j \in DOMAIN rest : rest[i] = rest[j] => i = j
            /\ \A i, j \in DOMAIN kept : kept[i] = kept[j] => i = j
        BY <3>2 DEF Distinct
      <4>2. rest \in Seq(Obj) /\ kept \in Seq(Obj)
        BY <1>t DEF TypeOK
      <4>3. /\ h \notin Elements(rest')
            /\ \A i, j \in DOMAIN rest' : rest'[i] = rest'[j] => i = j
        BY <2>1, <4>1, <4>2, TakeFirst
      <4>4. \A i, j \in DOMAIN kept' : kept'[i] = kept'[j] => i = j
        BY <2>1, <3>1, <3>2, <4>1, <4>2, PutLast
      <4> QED
        BY <4>3, <4>4
    <3>4. Allocated' = Allocated
      BY <3>1 DEF Allocated
    <3>5. Stay' = Stay
      BY <2>1, <3>1 DEF Stay
    <3>6. RootObjects' = RootObjects /\ \A o \in Obj : Marked(o)' = Marked(o)
      BY <2>1, <1>m, <1>r
    <3>7. NothingLost'
      BY <1>s, <1>l, <2>1, <2>3, <3>4, <3>5, <3>6 DEF NothingLost
    <3>8. Distinct'
      BY <2>1, <3>1, <3>2, <3>3 DEF Distinct
    <3>9. Pointers'
      BY <1>s, <2>1, <2>3, <3>4 DEF Pointers, Live
    <3>10. Marking'
      BY <1>s, <2>1, <2>3, <3>1 DEF Marking
    <3> QED
      BY <1>t, <2>1, <2>3, <3>7, <3>8, <3>9, <3>10 DEF IInv
  <2> QED
    BY <2>2, <2>3
<1>5. CASE SweepFree
  <2> DEFINE h == Head(rest)
  <2>1. /\ type' = type /\ UNCHANGED <<rooted, tempRoots>>
        /\ phase = "sweep" /\ phase' = "sweep" /\ ~fault
        /\ dark' = dark /\ gray' = gray /\ h \notin dark /\ rest # <<>>
        /\ kept' = kept /\ rest' = Tail(rest)
        /\ wrenFreeObj(h)
    BY <1>5 DEF SweepFree
  <2>2. CASE fault'
    BY <1>f, <2>1, <2>2
  <2>3. CASE ~fault'
    <3>1. h \in Obj /\ Elements(rest) = Elements(rest') \cup {h}
      BY <1>t, <2>1, TakeFirst DEF TypeOK
    <3>2. Distinct /\ h \notin Elements(kept)
      BY <1>s, <2>1, <3>1 DEF Distinct
    <3>3. /\ h \notin Elements(rest')
          /\ \A i, j \in DOMAIN rest' : rest'[i] = rest'[j] => i = j
      BY <1>t, <2>1, <3>2, TakeFirst DEF TypeOK, Distinct
    <3>4. Allocated' = Allocated \ {h}
      BY <2>1, <3>1, <3>2, <3>3 DEF Allocated
    <3>5. Stay' = Stay /\ h \notin Stay /\ Stay \subseteq Allocated
      BY <1>s, <2>1, <3>2 DEF Stay, NothingLost
    <3>6. /\ RootObjects \subseteq Stay
          /\ \A o \in Stay : Marked(o) \subseteq Stay
      BY <1>s, <2>1 DEF NothingLost
    <3>7. RootObjects' \subseteq Stay
      <4>1. \A r \in rooted : regs[r] # h
        BY <1>l, <1>t, <3>1, <3>5, <3>6, Constants DEF RootObjects
      <4>2. \A r \in rooted : regs'[r] = regs[r]
        BY <1>t, <2>1, <4>1 DEF wrenFreeObj, Dangling, TypeOK
      <4> QED
        BY <2>1, <3>6, <4>2 DEF RootObjects
    <3>8. \A o \in Stay : Marked(o)' \subseteq Stay
      <4>1. TAKE o \in Stay
      <4>2. o \in Obj /\ o # h /\ Marked(o) \subseteq Stay
        BY <1>l, <3>5, <3>6
      <4>3. ptr'[o] = {<<p[1], Dangling(p[2], h)>> : p \in ptr[o]}
        BY <2>1, <4>2 DEF wrenFreeObj
      <4>4. \A q \in ptr'[o] : q[1] \in blackenObject[type[o]] => q[2] \in Stay
        <5>1. TAKE q \in ptr'[o]
        <5>2. PICK p \in ptr[o] : q = <<p[1], Dangling(p[2], h)>>
          BY <4>3
        <5>3. p[1] \in blackenObject[type[o]] => p[2] \in Stay
          BY <4>2 DEF Marked
        <5> QED
          BY <3>5, <5>2, <5>3 DEF Dangling
      <4> QED
        BY <2>1, <4>4 DEF Marked
    <3>9. NothingLost'
      BY <2>1, <3>4, <3>5, <3>7, <3>8 DEF NothingLost
    <3>10. Distinct'
      BY <2>1, <3>1, <3>2, <3>3 DEF Distinct
    <3>11. Pointers'
      <4>1. \A r \in Reg : regs'[r] \in Live' \cup {Null}
        BY <1>s, <2>1, <3>4 DEF Pointers, Live, wrenFreeObj, Dangling
      <4>2. \A o \in Obj : \A q \in ptr'[o] : q[2] \in Live'
        <5>1. TAKE o \in Obj
        <5>2. TAKE q \in ptr'[o]
        <5>3. PICK p \in ptr[o] : q = <<p[1], Dangling(p[2], h)>>
          BY <2>1 DEF wrenFreeObj
        <5>4. p[2] \in Live
          BY <1>s, <2>1 DEF Pointers
        <5> QED
          BY <3>4, <5>3, <5>4 DEF Live, Dangling
      <4> QED
        BY <4>1, <4>2 DEF Pointers
    <3>12. Marking'
      BY <1>s, <2>1, <3>1 DEF Marking
    <3> QED
      BY <1>t, <2>1, <3>9, <3>10, <3>11, <3>12 DEF IInv
  <2> QED
    BY <2>2, <2>3
<1>6. CASE SweepEnds
  <2>1. /\ UNCHANGED heap /\ UNCHANGED <<regs, rooted, tempRoots>>
        /\ phase = "sweep" /\ phase' = "run" /\ ~fault /\ ~fault'
        /\ dark' = dark /\ gray' = gray /\ rest = <<>>
        /\ kept' = <<>> /\ rest' = kept
    BY <1>6 DEF SweepEnds
  <2>2. Elements(rest) = {} /\ Elements(kept') = {} /\ Elements(rest') = Elements(kept)
    BY <2>1, NoElements
  <2>3. dark = {} /\ gray = {}
    BY <1>s, <2>1, <2>2 DEF Marking
  <2>4. Allocated' = Allocated /\ Stay' = Stay
    BY <2>1, <2>2, <2>3 DEF Allocated, Stay
  <2>5. RootObjects' = RootObjects /\ \A o \in Obj : Marked(o)' = Marked(o)
    BY <2>1, <1>m, <1>r
  <2>6. NothingLost'
    BY <1>s, <1>l, <2>1, <2>4, <2>5 DEF NothingLost
  <2>7. Distinct'
    BY <1>s, <2>1, <2>2 DEF Distinct
  <2>8. Pointers'
    BY <1>s, <2>1, <2>4 DEF Pointers, Live
  <2>9. Marking'
    BY <2>1, <2>3 DEF Marking
  <2> QED
    BY <1>t, <2>1, <2>6, <2>7, <2>8, <2>9 DEF IInv
<1>7. CASE AllocateObj
  <2> DEFINE r == Head(code).r
  <2>0. PICK o \in Obj : o = CHOOSE x \in Obj : x \notin Allocated
    BY <1>7 DEF AllocateObj
  <2>1. /\ o \notin Allocated
        /\ ptr' = [ptr EXCEPT ![o] = {}] /\ type' = [type EXCEPT ![o] = Head(code).t]
        /\ rest' = <<o>> \o rest /\ regs' = [regs EXCEPT ![r] = o]
        /\ UNCHANGED <<rooted, tempRoots, kept, dark, gray, phase>>
        /\ phase = "run" /\ ~fault
    BY <1>7, <2>0 DEF AllocateObj, Step1, Advance
  <2>2. CASE fault'
    BY <1>f, <2>1, <2>2
  <2>3. CASE ~fault'
    <3> HIDE DEF r
    <3>1. NothingLost /\ Distinct /\ Pointers /\ Marking
      BY <1>s, <2>1
    <3>2. Elements(rest') = Elements(rest) \cup {o} /\ o \notin Elements(rest)
          /\ o \notin Elements(kept)
      BY <1>t, <2>1, PutFirst DEF TypeOK, Allocated
    <3>3. \A i, j \in DOMAIN rest' : rest'[i] = rest'[j] => i = j
      <4>1. rest \in Seq(Obj) /\ \A i, j \in DOMAIN rest : rest[i] = rest[j] => i = j
        BY <1>t, <3>1 DEF TypeOK, Distinct
      <4> QED
        BY <2>1, <3>2, <4>1, PutFirst
    <3>4. Allocated' = Allocated \cup {o} /\ Live' = Live \cup {o}
      BY <2>1, <3>2 DEF Allocated, Live
    <3>5. \A q \in Reg : regs'[q] = regs[q] \/ regs'[q] = o
      BY <1>t, <2>1 DEF TypeOK
    <3>6. RootObjects' \subseteq RootObjects \cup {o}
      BY <1>t, <2>1, <3>5 DEF RootObjects, TypeOK
    <3>7. \A x \in Obj : ptr'[x] = IF x = o THEN {} ELSE ptr[x]
      BY <1>t, <2>1 DEF TypeOK
    <3>8. \A x \in Obj : x # o => Marked(x)' = Marked(x)
      BY <1>t, <2>1, <3>7 DEF Marked, TypeOK
    <3>9. Marked(o)' = {}
      BY <2>1, <3>7 DEF Marked
    <3>10. NothingLost'
      <4>1. RootObjects \subseteq Allocated /\ \A x \in Allocated : Marked(x) \subseteq Allocated
        BY <2>1, <3>1 DEF NothingLost, Stay
      <4>2. Stay' = Allocated'
        BY <2>1 DEF Stay
      <4>3. \A x \in Allocated' : Marked(x)' \subseteq Allocated'
        BY <1>l, <3>4, <3>8, <3>9, <4>1
      <4> QED
        BY <3>4, <3>6, <4>1, <4>2, <4>3 DEF NothingLost
    <3>11. Distinct'
      BY <2>1, <3>1, <3>2, <3>3, NoElements DEF Distinct
    <3>12. Pointers'
      BY <3>1, <3>4, <3>5, <3>7 DEF Pointers
    <3>13. Marking'
      BY <2>1, <3>1 DEF Marking
    <3> QED
      BY <1>t, <2>1, <2>3, <3>10, <3>11, <3>12, <3>13 DEF IInv
  <2> QED
    BY <2>2, <2>3
<1>g. ASSUME NEW ops, Advance(ops)
      PROVE  /\ phase = "run" /\ phase' = "run" /\ ~fault /\ code # <<>>
             /\ UNCHANGED <<kept, dark, gray>>
             /\ Head(code).r \in Reg /\ Head(code).s \in Reg /\ Head(code).op \in ops
  BY <1>t, <1>g, StepType DEF Advance
<1>p. ASSUME phase = "run", ~fault
      PROVE  /\ RootObjects \subseteq Allocated /\ \A r \in Reg : regs[r] \in Live \cup {Null}
             /\ \A o \in Obj : \A p \in ptr[o] : p[2] \in Live
             /\ \A r \in rooted : regs[r] \in Allocated \cup {Null}
             /\ Elements(tempRoots) \subseteq Allocated \cup {Null}
  <2>1. RootObjects \subseteq Allocated /\ Pointers
    BY <1>s, <1>p DEF NothingLost, Stay
  <2> QED
    BY <2>1 DEF Pointers, RootObjects
<1>8. CASE Allocate \/ system_gc_returns \/ Read
  <2>1. /\ UNCHANGED <<heap, list, marks, phase>> /\ UNCHANGED <<regs, rooted, tempRoots>>
        /\ phase = "run" /\ ~fault
    BY <1>8 DEF Allocate, system_gc_returns, Read, Step1, Advance
  <2> QED
    BY <1>t, <1>p, <1>r, <2>1, RegistersOnly
<1>9. CASE wrenPushRoot
  <2>1. /\ UNCHANGED <<heap, list, marks, phase>> /\ UNCHANGED <<regs, rooted>>
        /\ phase = "run" /\ ~fault /\ Head(code).r \in Reg /\ Head(code).op = "push"
        /\ fault' = UsesDead /\ tempRoots' = Append(tempRoots, regs[Head(code).r])
    BY <1>9, <1>g DEF wrenPushRoot, Step1, Advance
  <2>2. CASE fault'
    BY <1>f, <2>1, <2>2
  <2>3. CASE ~fault'
    <3>1. regs[Head(code).r] # Dead
      BY <2>1, <2>3 DEF UsesDead, Used
    <3>2. regs[Head(code).r] \in Allocated \cup {Null}
      BY <1>p, <2>1, <3>1 DEF Live
    <3>3. Elements(tempRoots') = Elements(tempRoots) \cup {regs[Head(code).r]}
      <4> DEFINE S == Obj \cup {Null, Dead}
                 e == regs[Head(code).r]
      <4>1. e \in S /\ tempRoots \in Seq(S) /\ tempRoots' = Append(tempRoots, e)
        BY <1>t, <2>1 DEF TypeOK
      <4> HIDE DEF S, e
      <4>2. Elements(Append(tempRoots, e)) = Elements(tempRoots) \cup {e}
        BY <4>1, PutLast
      <4> QED
        BY <4>1, <4>2 DEF e
    <3>4. RootObjects' \subseteq Allocated
      BY <1>p, <2>1, <3>2, <3>3 DEF RootObjects
    <3> QED
      BY <1>t, <1>p, <2>1, <3>4, RegistersOnly
  <2> QED
    BY <2>2, <2>3
<1>10. CASE wrenPopRoot
  <2>1. /\ UNCHANGED <<heap, list, marks, phase>> /\ UNCHANGED <<regs, rooted>>
        /\ phase = "run" /\ ~fault /\ tempRoots' = SubSeq(tempRoots, 1, Len(tempRoots) - 1)
    BY <1>10 DEF wrenPopRoot, Step1, Advance
  <2>2. Elements(tempRoots') \subseteq Elements(tempRoots)
    <3>1. Len(tempRoots) \in Nat /\ DOMAIN tempRoots = 1..Len(tempRoots)
      BY <1>t, LenProperties DEF TypeOK
    <3>2. \A i \in 1..Len(tempRoots) - 1 : tempRoots[i] \in Elements(tempRoots)
      BY <3>1 DEF Elements
    <3>3. tempRoots' \in Seq(Elements(tempRoots))
      BY <2>1, <3>1, <3>2, SubSeqProperties
    <3> QED
      BY <3>3, ElementsOfList
  <2>3. RootObjects' \subseteq Allocated
    BY <1>p, <2>1, <2>2 DEF RootObjects
  <2> QED
    BY <1>t, <1>p, <2>1, <2>3, RegistersOnly
<1>11. CASE Assign
  <2> DEFINE s == Head(code)
  <2>1. /\ UNCHANGED <<heap, list, marks, phase>> /\ UNCHANGED <<rooted, tempRoots>>
        /\ phase = "run" /\ ~fault /\ s.r \in Reg /\ s.s \in Reg /\ fault' = UsesDead
        /\ regs' = [regs EXCEPT ![s.r] = IF s.op = "copy" THEN regs[s.s] ELSE Null]
    BY <1>11, <1>g DEF Assign, Step1, Advance
  <2>2. CASE fault'
    BY <1>f, <2>1, <2>2
  <2>3. CASE ~fault'
    <3>1. s.op = "copy" => regs[s.s] # Dead
      BY <2>1, <2>3 DEF UsesDead, Used
    <3>2. regs'[s.r] \in Allocated \cup {Null}
      BY <1>p, <1>t, <2>1, <3>1 DEF Live, TypeOK
    <3>3. \A r \in Reg : r # s.r => regs'[r] = regs[r]
      BY <1>t, <2>1 DEF TypeOK
    <3>4. \A r \in rooted : regs'[r] \in Allocated \cup {Null}
      BY <1>p, <1>t, <2>1, <3>2, <3>3 DEF TypeOK
    <3>5. RootObjects' \subseteq Allocated
      BY <1>p, <2>1, <3>4 DEF RootObjects
    <3>6. \A r \in Reg : regs'[r] \in Live \cup {Null}
      BY <1>p, <2>1, <3>2, <3>3 DEF Live
    <3> QED
      BY <1>t, <2>1, <3>5, <3>6, RegistersOnly
  <2> QED
    BY <2>2, <2>3
<1>12. CASE Store
  <2> DEFINE s == Head(code)
             o == regs[s.r]
             v == regs[s.s]
  <2>1. /\ UNCHANGED <<type, list, marks, phase>> /\ UNCHANGED <<regs, rooted, tempRoots>>
        /\ phase = "run" /\ ~fault /\ s.r \in Reg /\ s.s \in Reg /\ fault' = UsesDead
        /\ s.op \in {"link", "unlink", "erase"}
        /\ ptr' = IF o \notin Obj \/ (s.op # "erase" /\ v \notin Obj) THEN ptr
                  ELSE [ptr EXCEPT ![o] = CASE s.op = "link" -> @ \cup {<<s.f, v>>}
                                            [] s.op = "unlink" -> @ \ {<<s.f, v>>}
                                            [] OTHER -> {q \in @ : q[1] # s.f}]
    BY <1>12, <1>g DEF Store, Step1, Advance
  <2>2. CASE fault'
    BY <1>f, <2>1, <2>2
  <2>3. CASE ~fault'
    <3>1. NothingLost /\ Distinct /\ Pointers /\ Marking
      BY <1>s, <2>1
    <3>2. v # Dead
      BY <2>1, <2>3 DEF UsesDead, Used
    <3>3. v \in Obj => v \in Allocated
      BY <1>p, <2>1, <3>2, Constants DEF Live
    <3>4. \A x \in Obj : \A p \in ptr'[x] : p \in ptr[x] \/ (p[2] = v /\ v \in Allocated)
      BY <1>t, <2>1, <3>3 DEF TypeOK
    <3>5. Allocated' = Allocated /\ Live' = Live /\ Elements(kept)' = Elements(kept)
          /\ Elements(rest)' = Elements(rest) /\ RootObjects' = RootObjects
      BY <2>1, <1>a, <1>r
    <3>6. \A x \in Allocated : Marked(x)' \subseteq Allocated
      <4>1. \A x \in Allocated : Marked(x) \subseteq Allocated
        BY <2>1, <3>1 DEF NothingLost, Stay
      <4>2. \A x \in Allocated : \A p \in ptr'[x] :
              p[1] \in blackenObject[type[x]] => p[2] \in Allocated
        BY <1>l, <3>4, <4>1 DEF Marked
      <4> QED
        BY <2>1, <4>2 DEF Marked
    <3>7. NothingLost'
      BY <2>1, <3>1, <3>5, <3>6 DEF NothingLost, Stay
    <3>8. Distinct'
      BY <2>1, <3>1, <3>5 DEF Distinct
    <3>9. Pointers'
      BY <2>1, <3>1, <3>4, <3>5 DEF Pointers, Live
    <3>10. Marking'
      BY <2>1, <3>1 DEF Marking
    <3> QED
      BY <1>t, <2>1, <2>3, <3>7, <3>8, <3>9, <3>10 DEF IInv
  <2> QED
    BY <2>2, <2>3
<1>13. CASE Load
  <2> DEFINE s == Head(code)
  <2>1. /\ UNCHANGED <<heap, list, marks, phase>> /\ UNCHANGED <<rooted, tempRoots>>
        /\ phase = "run" /\ ~fault /\ s.r \in Reg
    BY <1>13, <1>g DEF Load, Advance
  <2>2. PICK v \in Yielded(s) : /\ regs' = [regs EXCEPT ![s.r] = v]
                                /\ fault' = (UsesDead \/ (v = Dead /\ s.r \in rooted))
    BY <1>13 DEF Load
  <2>3. CASE fault'
    BY <1>f, <2>1, <2>3
  <2>4. CASE ~fault'
    <3>1. v \in Live \cup {Null}
      BY <1>p, <2>1, <2>2, FoundIsPointer DEF Yielded
    <3>2. /\ regs'[s.r] = v
          /\ \A r \in Reg : r # s.r => regs'[r] = regs[r]
      BY <1>t, <2>1, <2>2 DEF TypeOK
    <3>3. \A r \in Reg : regs'[r] \in Live \cup {Null}
      BY <1>p, <2>1, <3>1, <3>2
    <3>4. s.r \in rooted => v \in Allocated \cup {Null}
      BY <2>2, <2>4, <3>1 DEF Live
    <3>5. \A r \in rooted : regs'[r] \in Allocated \cup {Null}
      BY <1>p, <1>t, <2>1, <3>2, <3>4 DEF TypeOK
    <3>6. RootObjects' \subseteq Allocated
      BY <1>p, <2>1, <3>5 DEF RootObjects
    <3> QED
      BY <1>t, <2>1, <3>3, <3>6, RegistersOnly
  <2> QED
    BY <2>3, <2>4
<1>14. CASE LoadNone
  <2>1. /\ UNCHANGED <<heap, list, marks, phase>> /\ UNCHANGED <<regs, rooted, tempRoots>>
        /\ phase = "run" /\ ~fault
    BY <1>14 DEF LoadNone
  <2> QED
    BY <1>t, <1>p, <1>r, <2>1, RegistersOnly
<1>15. CASE SetCompiler
  <2> DEFINE s == Head(code)
  <2>1. /\ UNCHANGED <<heap, list, marks, phase>> /\ UNCHANGED <<regs, tempRoots>>
        /\ phase = "run" /\ ~fault /\ fault' = UsesDead /\ s.r \in Reg
        /\ rooted' = IF s.op = "root" THEN rooted \cup Group(s.r) ELSE rooted \ Group(s.r)
    BY <1>15, <1>g DEF SetCompiler, Step1, Advance
  <2>2. CASE fault'
    BY <1>f, <2>1, <2>2
  <2>3. CASE ~fault'
    <3>1. s.op = "root" => \A r \in Group(s.r) : r \in Reg /\ regs[r] # Dead
      BY <2>1, <2>3, RegisterGroups DEF UsesDead, Used
    <3>2. \A r \in rooted' : regs[r] \in Allocated \cup {Null}
      BY <1>p, <2>1, <3>1 DEF Live
    <3>3. RootObjects' \subseteq Allocated
      BY <1>p, <2>1, <3>2 DEF RootObjects
    <3> QED
      BY <1>t, <1>p, <2>1, <3>3, RegistersOnly
  <2> QED
    BY <2>2, <2>3
<1>16. CASE Call
  <2>1. /\ UNCHANGED <<heap, list, marks, phase>> /\ UNCHANGED <<rooted, tempRoots>>
        /\ phase = "run" /\ ~fault
        /\ regs' = [r \in Reg |-> IF r \in Roots \cup Fixed THEN regs[r] ELSE Null]
    BY <1>16 DEF Call
  <2>2. \A r \in Reg : regs'[r] = regs[r] \/ regs'[r] = Null
    BY <2>1
  <2>3. RootObjects' \subseteq Allocated
    BY <1>p, <1>t, <2>1, <2>2 DEF RootObjects, TypeOK
  <2> QED
    BY <1>t, <1>p, <2>1, <2>2, <2>3, RegistersOnly
<1>17. CASE wrenFreeVM
  BY <1>t, <1>17 DEF wrenFreeVM, IInv
<1>18. CASE FreeNext
  BY <1>t, <1>18 DEF FreeNext, IInv
<1> QED
  BY <1>0, <1>1, <1>2, <1>3, <1>4, <1>5, <1>6, <1>7, <1>8, <1>9, <1>10, <1>11, <1>12, <1>13,
     <1>14, <1>15, <1>16, <1>17, <1>18 DEF Next

-----------------------------------------------------------------------------
(* What the roots reach                                                    *)

\* The roots, and what the blacken functions follow from there on
Closed(S) == RootObjects \subseteq S /\ \A o \in S : Marked(o) \subseteq S

\* One step further
More(S) == S \cup UNION {Marked(o) : o \in S}

LEMMA MoreIsLarger ==
  ASSUME NEW S
  PROVE  /\ S \subseteq More(S)
         /\ \A C : (S \subseteq C /\ \A o \in C : Marked(o) \subseteq C) => More(S) \subseteq C
         /\ RootObjects \subseteq S /\ More(S) \subseteq S => Closed(S)
         /\ Closed(S) => More(S) = S
BY DEF More, Closed

\* If the roots lead to objects only, Reached is the smallest closed set: each
\* step is closed or adds an object, so that there is none to add in the end.
LEMMA ReachedIsLeast ==
  ASSUME NEW U \in SUBSET Obj, Closed(U)
  PROVE  /\ Closed(Reached)
         /\ \A C : Closed(C) => Reached \subseteq C
<1> DEFINE N == Cardinality(Obj)
           T == SUBSET U
           step == [i \in 1..N |-> [S \in T |-> More(S)]]
           Is(f) == f = [n \in 0..N |-> IF n = 0 THEN RootObjects
                                       ELSE LET S == f[n - 1] IN S \cup UNION {Marked(o) : o \in S}]
           Reach == CHOOSE f : Is(f)
<1>1. N \in Nat /\ IsFiniteSet(Obj)
  BY Constants, FS_CardinalityType
<1>2. RootObjects \in T /\ \A S \in T : More(S) \in T
  <2>1. ASSUME NEW S \in T PROVE More(S) \in T
    BY MoreIsLarger DEF Closed
  <2> QED
    BY <2>1 DEF Closed
<1>3. PICK f \in [0..N -> T] : Recursion(f, N, RootObjects, step)
  <2>1. step \in [1..N -> [T -> T]]
    <3> HIDE DEF T, N
    <3> QED
      BY <1>2
  <2> HIDE DEF N, T, step
  <2> QED
    BY <1>1, <1>2, <2>1, RecursionExists
<1>4. f[0] = RootObjects /\ \A i \in 1..N : f[i] = More(f[i - 1])
  <2>1. f[0] = RootObjects
    BY <1>3 DEF Recursion
  <2> SUFFICES ASSUME NEW i \in 1..N PROVE f[i] = More(f[i - 1])
    BY <2>1
  <2>2. f[i - 1] \in T
    BY <1>1, <1>3
  <2>3. f[i] = step[i][f[i - 1]]
    BY <1>3 DEF Recursion
  <2> HIDE DEF T, N
  <2> QED
    BY <2>2, <2>3
<1>5. Is(f)
  <2> HIDE DEF T, N
  <2> QED
    BY <1>1, <1>3, <1>4 DEF More
<1>6. Is(Reach)
  <2> HIDE DEF Is
  <2> QED
    BY <1>5
<1>7. Reached = Reach[N]
  BY DEF Reached
<1>8. Reach[0] = RootObjects /\ \A i \in 1..N : Reach[i] = More(Reach[i - 1])
  <2> HIDE DEF Reach, N
  <2> QED
    BY <1>1, <1>6 DEF More
<1> HIDE DEF Reach, Is
<1>9. \A C : Closed(C) => Reach[N] \subseteq C
  <2> SUFFICES ASSUME NEW C, Closed(C) PROVE Reach[N] \subseteq C
    OBVIOUS
  <2> DEFINE I == {i \in 0..N : Reach[i] \subseteq C}
  <2> HIDE DEF N
  <2>1. 0 \in I
    BY <1>1, <1>8 DEF Closed
  <2>2. ASSUME NEW i \in 0..N, i < N, i \in I PROVE i + 1 \in I
    <3>1. Reach[i + 1] = More(Reach[i])
      BY <1>1, <1>8, <2>2
    <3> QED
      BY <1>1, <2>2, <3>1, MoreIsLarger DEF Closed
  <2> HIDE DEF I
  <2>3. 0..N \subseteq I
    BY <1>1, <2>1, <2>2, IntervalInduction
  <2> QED
    BY <1>1, <2>3 DEF I
<1>10. RootObjects \subseteq Reach[N] /\ Reach[N] \subseteq Obj
       /\ (Closed(Reach[N]) \/ Cardinality(Reach[N]) >= N)
  <2> DEFINE Far(i) == Closed(Reach[i]) \/ Cardinality(Reach[i]) >= i
             I == {i \in 0..N : RootObjects \subseteq Reach[i] /\ Reach[i] \subseteq U /\ Far(i)}
  <2> HIDE DEF N
  <2>1. ASSUME NEW S \in SUBSET U PROVE IsFiniteSet(S) /\ Cardinality(S) \in Nat
    BY <1>1, <2>1, FS_Subset, FS_CardinalityType
  <2>2. 0 \in I
    <3>1. RootObjects \subseteq U
      BY DEF Closed
    <3>2. Cardinality(RootObjects) >= 0
      BY <2>1, <3>1
    <3> QED
      BY <1>1, <1>8, <3>1, <3>2
  <2>3. ASSUME NEW i \in 0..N, i < N, i \in I PROVE i + 1 \in I
    <3>1. Reach[i + 1] = More(Reach[i]) /\ i + 1 \in 0..N /\ i \in Nat
      BY <1>1, <1>8, <2>3
    <3>2. RootObjects \subseteq Reach[i] /\ Reach[i] \subseteq U /\ Far(i)
      BY <2>3
    <3>3. Reach[i] \subseteq Reach[i + 1] /\ Reach[i + 1] \subseteq U
      BY <3>1, <3>2, MoreIsLarger DEF Closed
    <3>4. Far(i + 1)
      <4>1. CASE Closed(Reach[i])
        BY <3>1, <4>1, MoreIsLarger
      <4>2. CASE ~Closed(Reach[i])
        <5>1. Reach[i] # Reach[i + 1]
          BY <3>1, <3>2, <4>2, MoreIsLarger
        <5>2. /\ IsFiniteSet(Reach[i + 1]) /\ Cardinality(Reach[i]) <= Cardinality(Reach[i + 1])
              /\ Cardinality(Reach[i + 1]) # Cardinality(Reach[i])
              /\ Cardinality(Reach[i]) \in Nat /\ Cardinality(Reach[i + 1]) \in Nat
          BY <2>1, <3>2, <3>3, <5>1, FS_Subset
        <5>3. Cardinality(Reach[i]) >= i
          BY <3>2, <4>2
        <5> QED
          BY <3>1, <5>2, <5>3
      <4> QED
        BY <4>1, <4>2
    <3> QED
      BY <3>1, <3>2, <3>3, <3>4
  <2> HIDE DEF I
  <2>4. 0..N \subseteq I
    BY <1>1, <2>2, <2>3, IntervalInduction
  <2> QED
    BY <1>1, <2>4 DEF I
<1>11. Closed(Reach[N])
  <2> SUFFICES ASSUME ~Closed(Reach[N]) PROVE Closed(Reach[N])
    OBVIOUS
  <2>1. Cardinality(Reach[N]) <= N /\ Cardinality(Reach[N]) \in Nat
        /\ (Cardinality(Obj) = Cardinality(Reach[N]) => Obj = Reach[N])
    BY <1>1, <1>10, FS_Subset, FS_CardinalityType
  <2>2. Obj = Reach[N]
    BY <1>1, <1>10, <2>1
  <2>3. \A o \in U : Marked(o) \subseteq Reach[N]
    BY <2>2 DEF Closed
  <2>4. Reach[N] \subseteq U
    BY <1>9
  <2> QED
    BY <1>10, <2>3, <2>4 DEF Closed
<1> QED
  BY <1>7, <1>9, <1>11

\* What stays has all that is reached (NothingLost).
LEMMA ReachedStays ==
  IInv => (~fault /\ phase # "free" =>
             /\ Closed(Reached) /\ Reached \subseteq Stay
             /\ \A C : Closed(C) => Reached \subseteq C)
<1> SUFFICES ASSUME IInv, ~fault, phase # "free"
             PROVE  /\ Closed(Reached) /\ Reached \subseteq Stay
                    /\ \A C : Closed(C) => Reached \subseteq C
  OBVIOUS
<1>1. NothingLost /\ Allocated \subseteq Obj
  BY ListType DEF IInv
<1>2. Stay \in SUBSET Obj /\ Closed(Stay)
  BY <1>1 DEF NothingLost, Closed
<1> QED
  BY <1>2, ReachedIsLeast

LEMMA InitReached == Init => OnlyReached
BY DEF Init, OnlyReached, Collecting

\* A collection stays within what is reached.
LEMMA NextReached == IInv /\ OnlyReached /\ [Next]_vars => OnlyReached'
<1> SUFFICES ASSUME IInv, OnlyReached, [Next]_vars PROVE OnlyReached'
  OBVIOUS
<1> USE DEF heap, list, marks, collector, mutator
<1>t. TypeOK /\ IInv'
  BY NextSound DEF IInv
<1>c. /\ phase = "mark" => ~fault
      /\ ~fault /\ phase # "free" => Distinct /\ Marking /\ Stay \subseteq Allocated
  BY DEF IInv, NothingLost
<1>l. Allocated \subseteq Obj
  BY <1>t, ListType
<1>o. Collecting => /\ code # <<>> /\ Head(code).op \in {"new", "grow", "gc"}
                    /\ phase = "run" => ~fault
                    /\ ~fault => Seen \subseteq Reached
  BY DEF OnlyReached
<1>h. ~fault /\ phase # "free" => Closed(Reached)
  BY ReachedStays
<1>r. ASSUME UNCHANGED <<heap, regs, rooted, tempRoots>>
      PROVE  RootObjects' = RootObjects /\ Reached' = Reached
  BY <1>r DEF RootObjects, Reached, Marked
<1>n. ASSUME phase' \in {"run", "free"}, collected' = FALSE \/ phase' = "free" PROVE OnlyReached'
  BY <1>n DEF OnlyReached, Collecting
<1>a. ASSUME NEW ops, Advance(ops) PROVE OnlyReached'
  BY <1>a, <1>n DEF Advance
<1>0. CASE UNCHANGED vars
  <2>1. /\ Stay' = Stay /\ Reached' = Reached
        /\ UNCHANGED <<phase, collected, code, fault, dark>>
    BY <1>0, <1>r DEF vars, Stay, Allocated
  <2> QED
    BY <1>o, <2>1 DEF OnlyReached, Collecting, Seen
<1>1. CASE wrenCollectGarbage
  <2>1. /\ phase' = "mark" /\ dark' = RootObjects /\ phase = "run" /\ ~fault
        /\ code # <<>> /\ Head(code).op \in {"new", "grow", "gc"}
        /\ code' = code /\ UNCHANGED <<heap, regs, rooted, tempRoots>>
    BY <1>1 DEF wrenCollectGarbage
  <2>2. RootObjects \subseteq Reached
    BY <1>h, <2>1 DEF Closed
  <2> QED
    BY <1>r, <2>1, <2>2 DEF OnlyReached, Seen
<1>2. CASE wrenBlackenObjects
  <2> DEFINE o == CHOOSE x \in gray : TRUE
  <2>1. /\ phase = "mark" /\ phase' = "mark" /\ o \in gray
        /\ dark' = dark \cup (Marked(o) \ dark)
        /\ code' = code /\ UNCHANGED <<heap, regs, rooted, tempRoots>>
    BY <1>2 DEF wrenBlackenObjects
  <2> HIDE DEF o
  <2>2. dark \subseteq Reached /\ gray \subseteq dark
    BY <1>c, <1>o, <2>1 DEF Collecting, Seen, Marking
  <2>3. dark' \subseteq Reached
    BY <1>c, <1>h, <2>1, <2>2 DEF Closed
  <2> QED
    BY <1>o, <1>r, <2>1, <2>3 DEF OnlyReached, Seen, Collecting
<1>3. CASE MarkEnds
  <2>1. /\ phase = "mark" /\ phase' = "sweep" /\ UNCHANGED <<kept, dark, code, fault>>
        /\ UNCHANGED <<heap, regs, rooted, tempRoots>>
    BY <1>3 DEF MarkEnds
  <2>2. kept = <<>> /\ dark \subseteq Reached
    BY <1>c, <1>o, <2>1 DEF Collecting, Seen, Distinct
  <2>3. Stay' = dark
    BY <2>1, <2>2, NoElements DEF Stay
  <2> QED
    BY <1>o, <1>r, <2>1, <2>2, <2>3 DEF OnlyReached, Seen, Collecting
<1>4. CASE SweepKeep
  <2>1. /\ phase = "sweep" /\ phase' = "sweep" /\ rest # <<>> /\ Head(rest) \in dark
        /\ dark' = dark \ {Head(rest)} /\ kept' = Append(kept, Head(rest))
        /\ UNCHANGED <<code, fault>> /\ UNCHANGED <<heap, regs, rooted, tempRoots>>
    BY <1>4 DEF SweepKeep
  <2>2. Head(rest) \in Obj
    BY <1>t, <2>1, TakeFirst DEF TypeOK
  <2>3. Elements(kept)' = Elements(kept) \cup {Head(rest)}
    BY <1>t, <2>1, <2>2, PutLast DEF TypeOK
  <2>4. Stay' = Stay
    BY <2>1, <2>3 DEF Stay
  <2> QED
    BY <1>o, <1>r, <2>1, <2>4 DEF OnlyReached, Seen, Collecting
<1>5. CASE SweepFree
  <2> DEFINE o == Head(rest)
  <2>1. /\ phase = "sweep" /\ phase' = "sweep" /\ ~fault /\ rest # <<>> /\ o \notin dark
        /\ wrenFreeObj(o) /\ UNCHANGED <<type, kept, dark, code, rooted, tempRoots>>
    BY <1>5 DEF SweepFree
  <2>2. Stay' = Stay /\ code # <<>> /\ Head(code).op \in {"new", "grow", "gc"}
    BY <1>o, <2>1 DEF Stay, Collecting
  <2>3. o \in Obj /\ o \notin Stay
    <3>1. o \in Obj /\ o \in Elements(rest)
      BY <1>t, <2>1, TakeFirst DEF TypeOK
    <3> QED
      BY <1>c, <2>1, <3>1 DEF Stay, Distinct
  <2>4. SUFFICES ASSUME ~fault' PROVE Stay \subseteq Reached'
    BY <2>1, <2>2 DEF OnlyReached, Seen
  <2>5. /\ RootObjects \subseteq Stay /\ Stay \subseteq Obj
        /\ \A x \in Stay : Marked(x) \subseteq Stay
    BY <1>c, <1>l, <2>1 DEF IInv, NothingLost
  <2>6. \A x \in Stay : Marked(x)' = Marked(x)
    <3>1. ASSUME NEW x \in Stay, NEW q \in ptr[x], q[1] \in blackenObject[type[x]]
          PROVE  q[2] # o /\ Dangling(q[2], o) = q[2]
      BY <2>3, <2>5, <3>1 DEF Marked, Dangling
    <3>2. ASSUME NEW x \in Stay
          PROVE  ptr'[x] = {<<p[1], Dangling(p[2], o)>> : p \in ptr[x]}
      BY <2>1, <2>3, <2>5 DEF wrenFreeObj
    <3>3. ASSUME NEW x \in Stay, NEW v \in Marked(x) PROVE v \in Marked(x)'
      <4>1. PICK q \in ptr[x] : q[1] \in blackenObject[type[x]] /\ q[2] = v
        BY DEF Marked
      <4>2. <<q[1], v>> \in ptr'[x]
        BY <3>1, <3>2, <4>1
      <4> QED
        BY <2>1, <4>1, <4>2 DEF Marked
    <3>4. ASSUME NEW x \in Stay, NEW v \in Marked(x)' PROVE v \in Marked(x)
      <4>1. PICK q \in ptr'[x] : q[1] \in blackenObject[type[x]] /\ q[2] = v
        BY <2>1 DEF Marked
      <4>2. PICK p \in ptr[x] : q = <<p[1], Dangling(p[2], o)>>
        BY <3>2
      <4> QED
        BY <3>1, <4>1, <4>2 DEF Marked
    <3> QED
      BY <3>3, <3>4
  <2>7. RootObjects \subseteq RootObjects'
    <3>1. \A r \in rooted : regs[r] # o /\ r \in Reg
      BY <1>t, <2>3, <2>5, Constants DEF RootObjects, TypeOK
    <3>2. \A r \in rooted : regs'[r] = regs[r]
      BY <2>1, <3>1 DEF wrenFreeObj, Dangling
    <3> QED
      BY <2>1, <3>2 DEF RootObjects
  <2>8. Closed(Reached)' /\ Reached' \subseteq Stay'
    <3>1. IInv' => (~fault /\ phase # "free" =>
                      /\ Closed(Reached) /\ Reached \subseteq Stay
                      /\ \A C : Closed(C) => Reached \subseteq C)'
      BY ReachedStays, PTL
    <3> QED
      BY <1>t, <2>1, <2>4, <3>1
  <2>9. Closed(Reached')
    BY <2>2, <2>6, <2>7, <2>8 DEF Closed
  <2>10. Reached \subseteq Reached'
    BY <2>1, <2>9, ReachedStays
  <2> QED
    BY <1>o, <2>1, <2>10 DEF Collecting, Seen
<1>6. CASE SweepEnds
  <2>1. /\ phase = "sweep" /\ phase' = "run" /\ ~fault /\ rest = <<>>
        /\ kept' = <<>> /\ rest' = kept /\ UNCHANGED <<code, fault>>
        /\ UNCHANGED <<heap, regs, rooted, tempRoots>>
    BY <1>6 DEF SweepEnds
  <2>2. Stay' \subseteq Stay
    BY <2>1, NoElements DEF Stay, Allocated
  <2> QED
    BY <1>o, <1>r, <2>1, <2>2 DEF OnlyReached, Seen, Collecting
<1>7. CASE \/ AllocateObj \/ Allocate \/ system_gc_returns \/ wrenPushRoot \/ wrenPopRoot
           \/ Assign \/ Store \/ Load \/ Read \/ SetCompiler
  BY <1>7, <1>a DEF AllocateObj, Allocate, system_gc_returns, wrenPushRoot, wrenPopRoot,
     Assign, Store, Load, Read, SetCompiler, Step1
<1>8. CASE LoadNone \/ Call
  <2>1. phase = "run" /\ phase' = "run" /\ collected' = collected
        /\ (code = <<>> \/ Head(code).op = "pick")
    BY <1>8 DEF LoadNone, Call
  <2>2. ~collected
    BY <1>o, <2>1 DEF Collecting
  <2> QED
    BY <1>n, <1>t, <2>1, <2>2 DEF TypeOK
<1>9. CASE wrenFreeVM \/ FreeNext
  BY <1>9, <1>n DEF wrenFreeVM, FreeNext
<1> QED
  BY <1>0, <1>1, <1>2, <1>3, <1>4, <1>5, <1>6, <1>7, <1>8, <1>9 DEF Next

\* A list that has no element twice has as many as it is long.
LEMMA LengthOfList ==
  ASSUME NEW S, NEW s \in Seq(S), \A i, j \in DOMAIN s : s[i] = s[j] => i = j
  PROVE  Cardinality(Elements(s)) = Len(s)
<1>1. Len(s) \in Nat /\ DOMAIN s = 1..Len(s) /\ s \in [1..Len(s) -> Elements(s)]
  BY LenProperties DEF Elements
<1>2. s \in Bijection(1..Len(s), Elements(s))
  BY <1>1 DEF Bijection, Injection, Surjection, IsInjective, Elements
<1>3. IsFiniteSet(1..Len(s)) /\ Cardinality(1..Len(s)) = Len(s)
  BY <1>1, FS_Interval
<1> QED
  BY <1>2, <1>3, FS_Bijection DEF ExistsBijection

-----------------------------------------------------------------------------
(* The theorems *)

\* Whatever functions run, every state of the collector and of the heap is as
\* IInv says (wrenCollectGarbage, wrenBlackenObjects and the sweep).
THEOREM Invariance == Spec => []IInv
<1>1. Init => IInv
  BY InitSound
<1>2. IInv /\ [Next]_vars => IInv'
  BY NextSound
<1> QED
  BY <1>1, <1>2, PTL DEF Spec

\* Every variable stays within its type (the structures of wren_vm.h and the
\* object headers of wren_value.h).
THEOREM TypeCorrect == Spec => []TypeOK
<1>1. IInv => TypeOK
  BY DEF IInv
<1> QED
  BY <1>1, Invariance, PTL

\* For any number of objects, whatever the C functions do between two
\* collections: as long as none of them has used a freed object, a collection
\* frees no object that the roots reach (wrenCollectGarbage).
THEOREM CollectorSafe == Spec => []NothingLost
<1>1. IInv => NothingLost
  BY DEF IInv, NothingLost
<1> QED
  BY <1>1, Invariance, PTL

\* No pointer of an object or of the C code leads to memory that was freed and
\* not known to be: it leads to an allocated object or is Dead (wrenFreeObj).
THEOREM NoWildPointer == Spec => [](~fault /\ phase # "free" => Pointers)
<1>1. IInv => (~fault /\ phase # "free" => Pointers)
  BY DEF IInv
<1> QED
  BY <1>1, Invariance, PTL

\* When a collection is over, the list is in one piece, has every object once,
\* and no object is marked: the next collection starts clean (the sweep of
\* wrenCollectGarbage).
THEOREM SweepComplete ==
  Spec => [](phase = "run" /\ ~fault => dark = {} /\ gray = {} /\ kept = <<>> /\ Distinct)
<1>1. IInv => (phase = "run" /\ ~fault => dark = {} /\ gray = {} /\ kept = <<>> /\ Distinct)
  BY DEF IInv, Marking, Distinct
<1> QED
  BY <1>1, Invariance, PTL

\* A collection leaves nothing that the roots do not reach, and everything that
\* they do, whatever the objects and the functions are: right after it the list
\* vm->first has the reachable objects, each once and unmarked
\* (wrenCollectGarbage).
THEOREM NoGarbage == Spec => []NoGarbageLeft
<1>1. Init => IInv /\ OnlyReached
  BY InitSound, InitReached
<1>2. IInv /\ OnlyReached /\ [Next]_vars => IInv' /\ OnlyReached'
  BY NextSound, NextReached
<1>3. IInv /\ OnlyReached => NoGarbageLeft
  <2> SUFFICES ASSUME IInv, OnlyReached, phase = "run", collected
               PROVE  /\ Allocated = Reached
                      /\ Len(rest) = Cardinality(Allocated)
                      /\ dark = {}
    BY DEF NoGarbageLeft
  <2>1. ~fault /\ Stay = Allocated /\ Allocated \subseteq Reached
    BY DEF OnlyReached, Collecting, Seen, Stay
  <2>2. Reached \subseteq Allocated
    BY <2>1, ReachedStays
  <2>3. Distinct /\ Marking /\ rest \in Seq(Obj)
    BY <2>1 DEF IInv, TypeOK
  <2>4. Allocated = Elements(rest) /\ dark = {}
    BY <2>3, NoElements DEF Distinct, Marking, Allocated
  <2>5. Cardinality(Elements(rest)) = Len(rest)
    BY <2>3, LengthOfList DEF Distinct
  <2> QED
    BY <2>1, <2>2, <2>4, <2>5
<1> QED
  BY <1>1, <1>2, <1>3, PTL DEF Spec

-----------------------------------------------------------------------------
(* Temporary roots and compilers are given back                            *)

\* How many temporary roots there may be
Depth == 0..WREN_MAX_TEMP_ROOTS

\* A step leads from d temporary roots and the rooted registers R to e and S; a
\* function that looks for something and may return without it holds none.
Goes(s, d, R, e, S) ==
  /\ s.op = "push" => e = d + 1
  /\ s.op = "pop" => e = d - 1
  /\ s.op \notin {"push", "pop"} => e = d
  /\ s.op = "root" => S = R \cup Group(s.r)
  /\ s.op = "unroot" => S = R \ Group(s.r)
  /\ s.op \notin {"root", "unroot"} => S = R
  /\ s.op = "pick" => d = 0 /\ R = Roots

\* The steps of c, one after the other, do, and there is room all the way.
Leads(c, d, R, e, S) ==
  /\ \E T : c \in Seq(T)
  /\ \E f \in [0..Len(c) -> Depth], g \in [0..Len(c) -> SUBSET Reg] :
       /\ f[0] = d /\ g[0] = R /\ f[Len(c)] = e /\ g[Len(c)] = S
       /\ \A i \in 1..Len(c) : Goes(c[i], f[i - 1], g[i - 1], f[i], g[i])

\* A function that begins and ends without temporary roots and without a compiler
Disciplined(c) == Leads(c, 0, Roots, 0, Roots)

LEMMA LeadsNone ==
  ASSUME NEW d, NEW R, NEW e, NEW S
  PROVE  Leads(<<>>, d, R, e, S) <=> d = e /\ R = S /\ d \in Depth /\ R \in SUBSET Reg
<1>1. Len(<<>>) = 0 /\ 0..0 = {0} /\ 1..0 = {}
  OBVIOUS
<1>2. ASSUME Leads(<<>>, d, R, e, S) PROVE d = e /\ R = S /\ d \in Depth /\ R \in SUBSET Reg
  BY <1>1, <1>2 DEF Leads
<1>3. ASSUME d = e, R = S, d \in Depth, R \in SUBSET Reg PROVE Leads(<<>>, d, R, e, S)
  <2> DEFINE f == [i \in 0..0 |-> d]
             g == [i \in 0..0 |-> R]
  <2>1. f \in [0..0 -> Depth] /\ g \in [0..0 -> SUBSET Reg] /\ f[0] = d /\ g[0] = R
    BY <1>1, <1>3
  <2> HIDE DEF f, g
  <2> QED
    BY <2>1, <1>1, <1>3, EmptySeq DEF Leads
<1> QED
  BY <1>2, <1>3

LEMMA LeadsNext ==
  ASSUME NEW c \in Seq(Step), c # <<>>, NEW d, NEW R, NEW e, NEW S, Leads(c, d, R, e, S)
  PROVE  /\ d \in Depth
         /\ \E n, N : Goes(Head(c), d, R, n, N) /\ Leads(Tail(c), n, N, e, S)
<1> DEFINE k == Len(c)
           t == Tail(c)
<1>1. PICK f \in [0..k -> Depth], g \in [0..k -> SUBSET Reg] :
        /\ f[0] = d /\ g[0] = R /\ f[k] = e /\ g[k] = S
        /\ \A i \in 1..k : Goes(c[i], f[i - 1], g[i - 1], f[i], g[i])
  BY DEF Leads
<1>2. /\ k \in Nat /\ k >= 1 /\ Len(t) = k - 1 /\ Head(c) = c[1] /\ t \in Seq(Step)
      /\ \A i \in 1..k - 1 : t[i] = c[i + 1]
  BY HeadTailProperties, EmptySeq, LenProperties
<1> HIDE DEF k, t
<1> DEFINE f1 == [i \in 0..k - 1 |-> f[i + 1]]
           g1 == [i \in 0..k - 1 |-> g[i + 1]]
<1>3. \A i \in 0..k - 1 : i + 1 \in 0..k /\ i + 1 \in 1..k
  BY <1>2
<1>4. f1 \in [0..k - 1 -> Depth] /\ g1 \in [0..k - 1 -> SUBSET Reg]
  BY <1>1, <1>3
<1>5. /\ 0 \in 0..k - 1 /\ k - 1 \in 0..k - 1 /\ 0 + 1 = 1 /\ (k - 1) + 1 = k /\ 1 \in 1..k
      /\ 0 \in 0..k /\ 1 - 1 = 0
  BY <1>2
<1>6. f1[0] = f[1] /\ g1[0] = g[1] /\ f1[k - 1] = e /\ g1[k - 1] = S
  BY <1>1, <1>5
<1>7. ASSUME NEW i \in 1..k - 1 PROVE Goes(t[i], f1[i - 1], g1[i - 1], f1[i], g1[i])
  <2>1. /\ i + 1 \in 1..k /\ i - 1 \in 0..k - 1 /\ i \in 0..k - 1
        /\ (i - 1) + 1 = (i + 1) - 1 /\ t[i] = c[i + 1]
    BY <1>2
  <2>2. f1[i - 1] = f[(i + 1) - 1] /\ g1[i - 1] = g[(i + 1) - 1] /\ f1[i] = f[i + 1] /\ g1[i] = g[i + 1]
    BY <2>1
  <2> HIDE DEF f1, g1
  <2> QED
    BY <2>1, <2>2, <1>1
<1> HIDE DEF f1, g1
<1>8. Leads(t, f[1], g[1], e, S)
  <2>1. \E T : t \in Seq(T)
    BY <1>2
  <2>2. /\ f1 \in [0..Len(t) -> Depth] /\ g1 \in [0..Len(t) -> SUBSET Reg]
        /\ f1[0] = f[1] /\ g1[0] = g[1] /\ f1[Len(t)] = e /\ g1[Len(t)] = S
        /\ \A i \in 1..Len(t) : Goes(t[i], f1[i - 1], g1[i - 1], f1[i], g1[i])
    BY <1>2, <1>4, <1>6, <1>7
  <2> QED
    BY <2>1, <2>2 DEF Leads
<1>9. Goes(Head(c), d, R, f[1], g[1])
  BY <1>1, <1>2, <1>5
<1>10. d \in Depth
  BY <1>1, <1>5
<1> QED
  BY <1>8, <1>9, <1>10 DEF t

\* One function, then another
LEMMA LeadsOn ==
  ASSUME NEW a, NEW b, NEW d, NEW R, NEW e, NEW S, NEW k, NEW K,
         Leads(a, d, R, e, S), Leads(b, e, S, k, K)
  PROVE  Leads(a \o b, d, R, k, K)
<1> DEFINE m == Len(a)
           n == Len(b)
           c == a \o b
<1>1. PICK T, U : a \in Seq(T) /\ b \in Seq(U)
  BY DEF Leads
<1>2. a \in Seq(T \cup U) /\ b \in Seq(T \cup U)
  BY <1>1
<1>3. /\ m \in Nat /\ n \in Nat /\ c \in Seq(T \cup U) /\ Len(c) = m + n
      /\ \A i \in 1..m + n : c[i] = IF i <= m THEN a[i] ELSE b[i - m]
  BY <1>2, ConcatProperties, LenProperties
<1>4. PICK f \in [0..m -> Depth], g \in [0..m -> SUBSET Reg] :
        /\ f[0] = d /\ g[0] = R /\ f[m] = e /\ g[m] = S
        /\ \A i \in 1..m : Goes(a[i], f[i - 1], g[i - 1], f[i], g[i])
  BY DEF Leads
<1>5. PICK u \in [0..n -> Depth], v \in [0..n -> SUBSET Reg] :
        /\ u[0] = e /\ v[0] = S /\ u[n] = k /\ v[n] = K
        /\ \A i \in 1..n : Goes(b[i], u[i - 1], v[i - 1], u[i], v[i])
  BY DEF Leads
<1> HIDE DEF m, n, c
<1> DEFINE F == [i \in 0..m + n |-> IF i <= m THEN f[i] ELSE u[i - m]]
           G == [i \in 0..m + n |-> IF i <= m THEN g[i] ELSE v[i - m]]
<1>6. \A i \in 0..m + n : (i <= m => i \in 0..m) /\ (~(i <= m) => i - m \in 0..n)
  BY <1>3
<1>7. F \in [0..m + n -> Depth] /\ G \in [0..m + n -> SUBSET Reg]
  BY <1>4, <1>5, <1>6
<1>8. /\ \A i \in 0..m : F[i] = f[i] /\ G[i] = g[i]
      /\ \A i \in 0..n : F[m + i] = u[i] /\ G[m + i] = v[i]
  <2>1. \A i \in 0..m : i \in 0..m + n /\ i <= m
    BY <1>3
  <2>2. \A i \in 0..n : m + i \in 0..m + n /\ (m + i <= m => i = 0 /\ m + i = m) /\ (m + i) - m = i
    BY <1>3
  <2>3. \A i \in 0..m : F[i] = f[i] /\ G[i] = g[i]
    BY <2>1
  <2>4. ASSUME NEW i \in 0..n PROVE F[m + i] = u[i] /\ G[m + i] = v[i]
    BY <2>2, <1>4, <1>5
  <2> QED
    BY <2>3, <2>4
<1> HIDE DEF F, G
<1>9. F[0] = d /\ G[0] = R /\ F[m + n] = k /\ G[m + n] = K
  <2>1. 0 \in 0..m /\ n \in 0..n
    BY <1>3
  <2> QED
    BY <2>1, <1>4, <1>5, <1>8
<1>10. ASSUME NEW i \in 1..m + n PROVE Goes(c[i], F[i - 1], G[i - 1], F[i], G[i])
  <2>1. CASE i <= m
    <3>1. i \in 1..m /\ i \in 0..m /\ i - 1 \in 0..m
      BY <1>3, <2>1
    <3> QED
      BY <3>1, <2>1, <1>3, <1>4, <1>8
  <2>2. CASE ~(i <= m)
    <3> DEFINE j == i - m
    <3>1. j \in 1..n /\ j \in 0..n /\ j - 1 \in 0..n /\ i = m + j /\ i - 1 = m + (j - 1)
      BY <1>3, <2>2
    <3>2. c[i] = b[j]
      BY <1>3, <2>2
    <3> HIDE DEF j
    <3>3. F[i] = u[j] /\ G[i] = v[j] /\ F[i - 1] = u[j - 1] /\ G[i - 1] = v[j - 1]
      BY <3>1, <1>8
    <3> QED
      BY <3>1, <3>2, <3>3, <1>5
  <2> QED
    BY <2>1, <2>2
<1>11. Leads(c, d, R, k, K)
  BY <1>3, <1>7, <1>9, <1>10 DEF Leads
<1> QED
  BY <1>11 DEF c

LEMMA LeadsOne ==
  ASSUME NEW s, NEW d \in Depth, NEW R \in SUBSET Reg, NEW e \in Depth, NEW S \in SUBSET Reg,
         Goes(s, d, R, e, S)
  PROVE  Leads(<<s>>, d, R, e, S)
<1> DEFINE f == [i \in 0..1 |-> IF i = 0 THEN d ELSE e]
           g == [i \in 0..1 |-> IF i = 0 THEN R ELSE S]
<1>1. /\ f \in [0..1 -> Depth] /\ g \in [0..1 -> SUBSET Reg]
      /\ f[0] = d /\ g[0] = R /\ f[1] = e /\ g[1] = S
  OBVIOUS
<1>2. <<s>> \in Seq({s}) /\ Len(<<s>>) = 1 /\ <<s>>[1] = s
  OBVIOUS
<1> DEFINE c == <<s>>
<1> HIDE DEF f, g, c
<1>3. \A i \in 1..1 : i = 1 /\ i - 1 = 0
  OBVIOUS
<1>4. \A i \in 1..1 : Goes(c[i], f[i - 1], g[i - 1], f[i], g[i])
  BY <1>1, <1>2, <1>3 DEF c
<1> QED
  BY <1>1, <1>2, <1>4 DEF Leads, c

\* What the rest of the function at hand will do
Held == TypeOK /\ Leads(code, Len(tempRoots), rooted, 0, Roots)

Balanced == Disciplined(Boot) /\ \A c \in Calls : Disciplined(c)

\* A step of the function
LEMMA HeldStep ==
  ASSUME Held, TypeOK', code # <<>>, code' = Tail(code),
         \A e, S : Goes(Head(code), Len(tempRoots), rooted, e, S) =>
                     e = Len(tempRoots') /\ S = rooted'
  PROVE  Held'
<1>1. code \in Seq(Step)
  BY DEF Held, TypeOK
<1>2. PICK n, N : Goes(Head(code), Len(tempRoots), rooted, n, N) /\ Leads(Tail(code), n, N, 0, Roots)
  BY <1>1, LeadsNext DEF Held
<1>3. Leads(code', Len(tempRoots'), rooted', 0, Roots)
  BY <1>2
<1> QED
  BY <1>3 DEF Held

LEMMA HeldEnds ==
  ASSUME Held
  PROVE  /\ code = <<>> => Len(tempRoots) = 0 /\ rooted = Roots
         /\ code # <<>> /\ Head(code).op = "pick" => Len(tempRoots) = 0 /\ rooted = Roots
         /\ Len(tempRoots) \in Depth
<1>1. code \in Seq(Step)
  BY DEF Held, TypeOK
<1>2. CASE code = <<>>
  BY <1>2, LeadsNone DEF Held
<1>3. CASE code # <<>>
  <2>1. PICK n, N : Goes(Head(code), Len(tempRoots), rooted, n, N)
    BY <1>1, <1>3, LeadsNext DEF Held
  <2>2. Len(tempRoots) \in Depth
    BY <1>1, <1>3, LeadsNext DEF Held
  <2> QED
    BY <2>1, <2>2, <1>3 DEF Goes
<1> QED
  BY <1>2, <1>3

LEMMA HeldNext == Balanced /\ IInv /\ Held /\ [Next]_vars => Held'
<1> SUFFICES ASSUME Balanced, IInv, Held, [Next]_vars PROVE Held'
  OBVIOUS
<1>t. TypeOK /\ TypeOK' /\ tempRoots \in Seq(Obj \cup {Null, Dead}) /\ Len(tempRoots) \in Nat
  BY NextType, LenProperties DEF Held, TypeOK
<1>1. ASSUME UNCHANGED <<code, tempRoots, rooted>> PROVE Held'
  BY <1>1, <1>t DEF Held
<1>2. CASE UNCHANGED vars
  BY <1>2, <1>1 DEF vars, mutator
<1>3. CASE wrenCollectGarbage \/ wrenBlackenObjects \/ MarkEnds \/ SweepKeep \/ SweepEnds \/ wrenFreeVM
  BY <1>3, <1>1 DEF wrenCollectGarbage, wrenBlackenObjects, MarkEnds, SweepKeep, SweepEnds,
                    wrenFreeVM, mutator
<1>4. CASE SweepFree \/ FreeNext
  BY <1>4, <1>1 DEF SweepFree, FreeNext
<1>5. CASE AllocateObj \/ Allocate \/ system_gc_returns \/ Assign \/ Store \/ Load \/ Read
  <2>1. /\ code # <<>> /\ code' = Tail(code) /\ UNCHANGED <<tempRoots, rooted>>
        /\ Head(code).op \notin {"push", "pop", "root", "unroot"}
    BY <1>5 DEF AllocateObj, Allocate, system_gc_returns, Assign, Store, Load, Read, Step1, Advance
  <2>2. ASSUME NEW e, NEW S, Goes(Head(code), Len(tempRoots), rooted, e, S)
        PROVE  e = Len(tempRoots') /\ S = rooted'
    BY <2>1, <2>2 DEF Goes
  <2> QED
    BY <2>1, <2>2, <1>t, HeldStep
<1>6. CASE wrenPushRoot
  <2>1. /\ code # <<>> /\ code' = Tail(code) /\ UNCHANGED rooted /\ Head(code).op = "push"
        /\ tempRoots' = Append(tempRoots, regs[Head(code).r])
    BY <1>6 DEF wrenPushRoot, Step1, Advance
  <2>2. Len(tempRoots') = Len(tempRoots) + 1
    BY <2>1, <1>t
  <2>3. ASSUME NEW e, NEW S, Goes(Head(code), Len(tempRoots), rooted, e, S)
        PROVE  e = Len(tempRoots') /\ S = rooted'
    BY <2>1, <2>2, <2>3 DEF Goes
  <2> QED
    BY <2>1, <2>3, <1>t, HeldStep
<1>7. CASE wrenPopRoot
  <2>1. /\ code # <<>> /\ code' = Tail(code) /\ UNCHANGED rooted /\ Head(code).op = "pop"
        /\ tempRoots # <<>> /\ tempRoots' = SubSeq(tempRoots, 1, Len(tempRoots) - 1)
    BY <1>7 DEF wrenPopRoot, Step1, Advance
  <2>2. Len(tempRoots') = Len(tempRoots) - 1
    <3>1. Len(tempRoots) # 0
      BY <2>1, <1>t, EmptySeq
    <3>2. 1 \in Int /\ Len(tempRoots) - 1 \in Int /\ \A i \in 1..Len(tempRoots) - 1 : i \in 1..Len(tempRoots)
      BY <1>t
    <3>3. \A i \in 1..Len(tempRoots) - 1 : tempRoots[i] \in Obj \cup {Null, Dead}
      BY <3>2, <1>t, ElementOfSeq
    <3>4. Len(tempRoots') = IF 1 <= Len(tempRoots) - 1 THEN Len(tempRoots) - 1 - 1 + 1 ELSE 0
      BY <2>1, <3>2, <3>3, SubSeqProperties
    <3>5. \A n \in Nat : n # 0 => (IF 1 <= n - 1 THEN n - 1 - 1 + 1 ELSE 0) = n - 1
      OBVIOUS
    <3>6. Len(tempRoots) \in Nat
      BY <1>t
    <3> QED
      BY <3>1, <3>4, <3>5, <3>6
  <2>3. ASSUME NEW e, NEW S, Goes(Head(code), Len(tempRoots), rooted, e, S)
        PROVE  e = Len(tempRoots') /\ S = rooted'
    BY <2>1, <2>2, <2>3 DEF Goes
  <2> QED
    BY <2>1, <2>3, <1>t, HeldStep
<1>8. CASE SetCompiler
  <2>1. /\ code # <<>> /\ code' = Tail(code) /\ UNCHANGED tempRoots
        /\ Head(code).op \in {"root", "unroot"}
        /\ rooted' = IF Head(code).op = "root" THEN rooted \cup Group(Head(code).r)
                     ELSE rooted \ Group(Head(code).r)
    BY <1>8 DEF SetCompiler, Step1, Advance
  <2>2. ASSUME NEW e, NEW S, Goes(Head(code), Len(tempRoots), rooted, e, S)
        PROVE  e = Len(tempRoots') /\ S = rooted'
    BY <2>1, <2>2 DEF Goes
  <2> QED
    BY <2>1, <2>2, <1>t, HeldStep
<1>9. CASE LoadNone
  <2>1. /\ code # <<>> /\ Head(code).op = "pick" /\ code' = <<>> /\ UNCHANGED <<tempRoots, rooted>>
    BY <1>9 DEF LoadNone
  <2>2. Len(tempRoots') = 0 /\ rooted' = Roots /\ 0 \in Depth /\ Roots \in SUBSET Reg
    BY <2>1, HeldEnds, RegisterGroups DEF Depth, WREN_MAX_TEMP_ROOTS
  <2>3. Leads(<<>>, Len(tempRoots'), rooted', 0, Roots)
    BY <2>2, LeadsNone
  <2> QED
    BY <2>1, <2>3, <1>t DEF Held
<1>10. CASE Call
  <2>1. code = <<>> /\ code' \in Calls /\ UNCHANGED <<tempRoots, rooted>>
    BY <1>10 DEF Call
  <2>2. Len(tempRoots') = 0 /\ rooted' = Roots
    BY <2>1, HeldEnds
  <2>3. Leads(code', Len(tempRoots'), rooted', 0, Roots)
    BY <2>1, <2>2 DEF Balanced, Disciplined
  <2> QED
    BY <2>3, <1>t DEF Held
<1> QED
  BY <1>2, <1>3, <1>4, <1>5, <1>6, <1>7, <1>8, <1>9, <1>10 DEF Next

\* When each function by itself takes and gives back its temporary roots in
\* turn, and does not return early while it has any, then none is left behind
\* in any run, whatever collections and early returns happen, and there is always
\* room for one more (wrenPushRoot's assertion).
THEOREM RootsGivenBack == Balanced /\ Spec => []RootsReturned
<1>1. Balanced /\ Init => Held
  <2> SUFFICES ASSUME Balanced, Init PROVE Held
    OBVIOUS
  <2>1. code = Boot /\ tempRoots = <<>> /\ rooted = Roots /\ TypeOK
    BY InitType DEF Init
  <2>2. Len(<<>>) = 0
    OBVIOUS
  <2> QED
    BY <2>1, <2>2 DEF Held, Balanced, Disciplined
<1>2. Held => RootsReturned
  <2> SUFFICES ASSUME Held PROVE RootsReturned
    OBVIOUS
  <2>1. tempRoots \in Seq(Obj \cup {Null, Dead})
    BY DEF Held, TypeOK
  <2>2. Len(tempRoots) = 0 => tempRoots = <<>>
    BY <2>1, EmptySeq
  <2>3. \A n \in Depth : n <= WREN_MAX_TEMP_ROOTS
    BY DEF Depth, WREN_MAX_TEMP_ROOTS
  <2> QED
    BY <2>2, <2>3, HeldEnds DEF RootsReturned
<1>3. Balanced => (Spec => []RootsReturned)
  <2> SUFFICES ASSUME Balanced PROVE Spec => []RootsReturned
    OBVIOUS
  <2>1. Init => IInv /\ Held
    BY <1>1, InitSound
  <2>2. IInv /\ Held /\ [Next]_vars => IInv' /\ Held'
    BY HeldNext, NextSound
  <2> QED
    BY <2>1, <2>2, <1>2, PTL DEF Spec
<1> QED
  BY <1>3

-----------------------------------------------------------------------------
(* The C functions of WrenNatives are disciplined                          *)

LEMMA CutTwo == ASSUME NEW a, NEW b PROVE <<a, b>> = <<a>> \o <<b>>
<1> DEFINE p == <<a, b>>
           q == <<a>> \o <<b>>
<1>1. <<a>> \in Seq({a, b}) /\ <<b>> \in Seq({a, b}) /\ Len(<<a>>) = 1 /\ Len(<<b>>) = 1
  OBVIOUS
<1>2. q \in Seq({a, b}) /\ Len(q) = 2 /\ q[1] = a /\ q[2] = b
  BY <1>1, ConcatProperties
<1>3. p \in Seq({a, b}) /\ Len(p) = 2 /\ p[1] = a /\ p[2] = b
  OBVIOUS
<1> HIDE DEF p, q
<1>4. \A i \in 1..2 : p[i] = q[i]
  BY <1>2, <1>3
<1>5. p = q
  BY <1>2, <1>3, <1>4, SeqEqual
<1> QED
  BY <1>5 DEF p, q

LEMMA CutThree == ASSUME NEW a, NEW b, NEW c PROVE <<a, b, c>> = <<a>> \o <<b, c>>
OBVIOUS

LEMMA CutFour == ASSUME NEW a, NEW b, NEW c, NEW d PROVE <<a, b, c, d>> = <<a>> \o <<b, c, d>>
OBVIOUS

LEMMA CutFive == ASSUME NEW a, NEW b, NEW c, NEW d, NEW e PROVE <<a, b, c, d, e>> = <<a>> \o <<b, c, d, e>>
OBVIOUS

\* A step that changes nothing here
Idle(s) == s.op \notin {"push", "pop", "root", "unroot", "pick"}

LEMMA IdleSteps ==
  ASSUME NEW r, NEW f, NEW s, NEW t
  PROVE  /\ Idle(New(r, t)) /\ Idle(Grow) /\ Idle(Gc) /\ Idle(Use(r))
         /\ Idle(Copy(r, s)) /\ Idle(Clear(r)) /\ Idle(Get(r, s, f, t))
         /\ Idle(Link(r, f, s)) /\ Idle(Unlink(r, f, s)) /\ Idle(Erase(r, f))
         /\ Idle(Result(r)) /\ Idle(Discard(r))
BY DEF Idle, New, Grow, Gc, Use, Copy, Clear, Get, Link, Unlink, Erase, Result, Discard, The

LEMMA LeadsIdle ==
  ASSUME NEW s, Idle(s), NEW d \in Depth, NEW R \in SUBSET Reg
  PROVE  Leads(<<s>>, d, R, d, R)
<1>1. Goes(s, d, R, d, R)
  BY DEF Goes, Idle
<1> QED
  BY <1>1, LeadsOne

LEMMA LeadsRoots ==
  ASSUME NEW r, NEW d \in Depth, d + 1 \in Depth, NEW R \in SUBSET Reg
  PROVE  Leads(<<Push(r)>>, d, R, d + 1, R) /\ Leads(<<Pop>>, d + 1, R, d, R)
<1>1. (d + 1) - 1 = d
  BY DEF Depth
<1>2. Goes(Push(r), d, R, d + 1, R) /\ Goes(Pop, d + 1, R, d, R)
  BY <1>1 DEF Goes, Push, Pop, The
<1> QED
  BY <1>2, LeadsOne

LEMMA LeadsTwo ==
  ASSUME NEW R, NEW a, NEW b, NEW i, NEW j, NEW k,
         Leads(<<a>>, i, R, j, R), Leads(<<b>>, j, R, k, R)
  PROVE  Leads(<<a, b>>, i, R, k, R)
<1>1. Leads(<<a>> \o <<b>>, i, R, k, R)
  BY LeadsOn, Zenon
<1>2. <<a, b>> = <<a>> \o <<b>>
  BY CutTwo
<1> QED
  BY <1>1, <1>2, Zenon

LEMMA LeadsThree ==
  ASSUME NEW R, NEW a, NEW b, NEW c, NEW i, NEW j, NEW k, NEW l,
         Leads(<<a>>, i, R, j, R), Leads(<<b>>, j, R, k, R), Leads(<<c>>, k, R, l, R)
  PROVE  Leads(<<a, b, c>>, i, R, l, R)
<1>1. Leads(<<b, c>>, j, R, l, R)
  BY LeadsTwo
<1>2. Leads(<<a>> \o <<b, c>>, i, R, l, R)
  BY <1>1, LeadsOn, Zenon
<1>3. <<a, b, c>> = <<a>> \o <<b, c>>
  BY CutThree
<1> QED
  BY <1>2, <1>3, Zenon

LEMMA LeadsFour ==
  ASSUME NEW R, NEW a, NEW b, NEW c, NEW d, NEW i, NEW j, NEW k, NEW l, NEW m,
         Leads(<<a>>, i, R, j, R), Leads(<<b>>, j, R, k, R), Leads(<<c>>, k, R, l, R),
         Leads(<<d>>, l, R, m, R)
  PROVE  Leads(<<a, b, c, d>>, i, R, m, R)
<1>1. Leads(<<b, c, d>>, j, R, m, R)
  BY LeadsThree
<1>2. Leads(<<a>> \o <<b, c, d>>, i, R, m, R)
  BY <1>1, LeadsOn, Zenon
<1>3. <<a, b, c, d>> = <<a>> \o <<b, c, d>>
  BY CutFour
<1> QED
  BY <1>2, <1>3, Zenon

LEMMA LeadsFive ==
  ASSUME NEW R, NEW a, NEW b, NEW c, NEW d, NEW e, NEW i, NEW j, NEW k, NEW l, NEW m, NEW n,
         Leads(<<a>>, i, R, j, R), Leads(<<b>>, j, R, k, R), Leads(<<c>>, k, R, l, R),
         Leads(<<d>>, l, R, m, R), Leads(<<e>>, m, R, n, R)
  PROVE  Leads(<<a, b, c, d, e>>, i, R, n, R)
<1>1. Leads(<<b, c, d, e>>, j, R, n, R)
  BY LeadsFour
<1>2. Leads(<<a>> \o <<b, c, d, e>>, i, R, n, R)
  BY <1>1, LeadsOn, Zenon
<1>3. <<a, b, c, d, e>> = <<a>> \o <<b, c, d, e>>
  BY CutFive
<1> QED
  BY <1>2, <1>3, Zenon

LEMMA LeadsSix ==
  ASSUME NEW R, NEW a, NEW b, NEW c, NEW d, NEW e, NEW f,
         NEW i, NEW j, NEW k, NEW l, NEW m, NEW n, NEW o,
         Leads(<<a>>, i, R, j, R), Leads(<<b>>, j, R, k, R), Leads(<<c>>, k, R, l, R),
         Leads(<<d>>, l, R, m, R), Leads(<<e>>, m, R, n, R), Leads(<<f>>, n, R, o, R)
  PROVE  Leads(<<a, b, c, d, e, f>>, i, R, o, R)
<1>1. Leads(<<b, c, d, e, f>>, j, R, o, R)
  BY LeadsFive
<1>2. Leads(<<a>> \o <<b, c, d, e, f>>, i, R, o, R)
  BY <1>1, LeadsOn, Zenon
<1>3. <<a, b, c, d, e, f>> = <<a>> \o <<b, c, d, e, f>>
  OBVIOUS
<1> QED
  BY <1>2, <1>3, Zenon

\* Functions that take no temporary root
LEMMA LeadsFlat ==
  ASSUME NEW d \in Depth, NEW R \in SUBSET Reg, NEW x, NEW y, NEW z
  PROVE  /\ Leads(wrenBindMethod(x), d, R, d, R)
         /\ Leads(wrenBindSuperclass(x, y), d, R, d, R)
         /\ Leads(wrenStringFormat(x, y, z), d, R, d, R)
         /\ Leads(wrenNewClosure(x, y), d, R, d, R)
         /\ Leads(wrenNewFiber(x, y), d, R, d, R)
         /\ Leads(wrenNewFunction(x, y), d, R, d, R)
         /\ Leads(wrenMapSet(x, y, z), d, R, d, R)
         /\ Leads(wrenMapClear(x), d, R, d, R)
<1>i. \A s : Idle(s) => Leads(<<s>>, d, R, d, R)
  BY LeadsIdle
<1>1. Leads(wrenBindMethod(x), d, R, d, R)
  <2>1. Leads(<<Use(x)>>, d, R, d, R) /\ Leads(<<Grow>>, d, R, d, R)
    BY <1>i, IdleSteps
  <2> QED
    BY <2>1, LeadsTwo DEF wrenBindMethod
<1>2. Leads(wrenBindSuperclass(x, y), d, R, d, R)
  <2>1. Leads(<<Link(x, "superclass", y)>>, d, R, d, R) /\ Leads(<<Use(y)>>, d, R, d, R)
    BY <1>i, IdleSteps
  <2>2. Leads(<<Link(x, "superclass", y), Use(y)>>, d, R, d, R)
    BY <2>1, LeadsTwo
  <2>3. Leads(<<Link(x, "superclass", y), Use(y)>> \o wrenBindMethod(x), d, R, d, R)
    BY <2>2, <1>1, LeadsOn
  <2> QED
    BY <2>1, <2>3, LeadsOn DEF wrenBindSuperclass
<1>3. Leads(wrenStringFormat(x, y, z), d, R, d, R)
  <2>1. /\ Leads(<<Use(y)>>, d, R, d, R) /\ Leads(<<Use(z)>>, d, R, d, R)
        /\ Leads(<<New(x, "string")>>, d, R, d, R)
    BY <1>i, IdleSteps
  <2> QED
    BY <2>1, LeadsFive DEF wrenStringFormat
<1>4. Leads(wrenNewClosure(x, y), d, R, d, R)
  <2>1. Leads(<<New(x, "closure")>>, d, R, d, R) /\ Leads(<<Link(x, "fn", y)>>, d, R, d, R)
    BY <1>i, IdleSteps
  <2> QED
    BY <2>1, LeadsTwo DEF wrenNewClosure
<1>5. Leads(wrenNewFiber(x, y), d, R, d, R)
  <2>1. /\ Leads(<<Grow>>, d, R, d, R) /\ Leads(<<Use(y)>>, d, R, d, R)
        /\ Leads(<<New(x, "fiber")>>, d, R, d, R) /\ Leads(<<Link(x, "frames", y)>>, d, R, d, R)
        /\ Leads(<<Link(x, "stack", y)>>, d, R, d, R)
    BY <1>i, IdleSteps
  <2> QED
    BY <2>1, LeadsSix DEF wrenNewFiber
<1>6. Leads(wrenNewFunction(x, y), d, R, d, R)
  <2>1. /\ Leads(<<Grow>>, d, R, d, R) /\ Leads(<<New(x, "fn")>>, d, R, d, R)
        /\ Leads(<<Link(x, "module", y)>>, d, R, d, R)
    BY <1>i, IdleSteps
  <2> QED
    BY <2>1, LeadsThree DEF wrenNewFunction
<1>7. Leads(wrenMapSet(x, y, z), d, R, d, R)
  <2>1. /\ Leads(<<Grow>>, d, R, d, R) /\ Leads(<<Link(x, "entries", y)>>, d, R, d, R)
        /\ Leads(<<Link(x, "entries", z)>>, d, R, d, R)
    BY <1>i, IdleSteps
  <2> QED
    BY <2>1, LeadsThree DEF wrenMapSet
<1>8. Leads(wrenMapClear(x), d, R, d, R)
  BY <1>i, IdleSteps DEF wrenMapClear
<1> QED
  BY <1>1, <1>2, <1>3, <1>4, <1>5, <1>6, <1>7, <1>8

\* Functions that take one temporary root
LEMMA LeadsRooted ==
  ASSUME NEW d \in Depth, d + 1 \in Depth, NEW R \in SUBSET Reg, NEW x, NEW y, NEW z, NEW f
  PROVE  /\ Leads(wrenNewSingleClass(x, y), d, R, d, R)
         /\ Leads(wrenListInsert(x, y), d, R, d, R)
         /\ Leads(wrenNewModule(x, y), d, R, d, R)
         /\ Leads(wrenSymbolTableAdd(x, f), d, R, d, R)
         /\ Leads(wrenMakeHandle(x), d, R, d, R)
         /\ Leads(addConstant(x, y, z, TRUE), d, R, d, R)
         /\ Leads(addConstant(x, y, z, FALSE), d, R, d, R)
<1>i. \A s : Idle(s) => Leads(<<s>>, d, R, d, R) /\ Leads(<<s>>, d + 1, R, d + 1, R)
  BY LeadsIdle
<1>r. \A s : Leads(<<Push(s)>>, d, R, d + 1, R) /\ Leads(<<Pop>>, d + 1, R, d, R)
  BY LeadsRoots
<1>1. Leads(wrenNewSingleClass(x, y), d, R, d, R)
  <2>1. Leads(<<New(x, "class")>>, d, R, d, R) /\ Leads(<<Link(x, "name", y)>>, d, R, d, R)
    BY <1>i, IdleSteps
  <2> QED
    BY <2>1, <1>r, LeadsFour DEF wrenNewSingleClass
<1>2. Leads(wrenListInsert(x, y), d, R, d, R)
  <2>1. Leads(<<Grow>>, d + 1, R, d + 1, R) /\ Leads(<<Link(x, "elements", y)>>, d, R, d, R)
    BY <1>i, IdleSteps
  <2> QED
    BY <2>1, <1>r, LeadsFour DEF wrenListInsert
<1>3. Leads(wrenNewModule(x, y), d, R, d, R)
  <2>1. Leads(<<New(x, "module")>>, d, R, d, R) /\ Leads(<<Link(x, "name", y)>>, d + 1, R, d + 1, R)
    BY <1>i, IdleSteps
  <2> QED
    BY <2>1, <1>r, LeadsFour DEF wrenNewModule
<1>4. Leads(wrenSymbolTableAdd(x, f), d, R, d, R)
  <2>1. /\ Leads(<<New("symbol", "string")>>, d, R, d, R) /\ Leads(<<Grow>>, d + 1, R, d + 1, R)
        /\ Leads(<<Link(x, f, "symbol")>>, d + 1, R, d + 1, R)
    BY <1>i, IdleSteps
  <2> QED
    BY <2>1, <1>r, LeadsFive DEF wrenSymbolTableAdd
<1>5. Leads(wrenMakeHandle(x), d, R, d, R)
  <2>1. Leads(<<Grow>>, d + 1, R, d + 1, R) /\ Leads(<<Copy("handle", x)>>, d, R, d, R)
    BY <1>i, IdleSteps
  <2> QED
    BY <2>1, <1>r, LeadsFour DEF wrenMakeHandle
<1>6. Leads(<<Push(z), Grow, Link(x, "constants", z), Pop>>, d, R, d, R)
  <2>1. Leads(<<Grow>>, d + 1, R, d + 1, R) /\ Leads(<<Link(x, "constants", z)>>, d + 1, R, d + 1, R)
    BY <1>i, IdleSteps
  <2> QED
    BY <2>1, <1>r, LeadsFour
<1>7. Leads(wrenMapSet(y, z, "-"), d, R, d, R) /\ Leads(<<New(y, "map")>>, d, R, d, R)
  BY <1>i, IdleSteps, LeadsFlat
<1>8. Leads(<<>>, d, R, d, R)
  BY LeadsNone
<1>9. Leads(addConstant(x, y, z, TRUE), d, R, d, R)
  <2>1. Leads(<<Push(z), Grow, Link(x, "constants", z), Pop>> \o <<New(y, "map")>>, d, R, d, R)
    BY <1>6, <1>7, LeadsOn
  <2>2. Leads((<<Push(z), Grow, Link(x, "constants", z), Pop>> \o <<New(y, "map")>>)
               \o wrenMapSet(y, z, "-"), d, R, d, R)
    BY <2>1, <1>7, LeadsOn
  <2> QED
    BY <2>2 DEF addConstant
<1>10. Leads(addConstant(x, y, z, FALSE), d, R, d, R)
  <2>1. Leads(<<Push(z), Grow, Link(x, "constants", z), Pop>> \o <<>>, d, R, d, R)
    BY <1>6, <1>8, LeadsOn
  <2>2. Leads((<<Push(z), Grow, Link(x, "constants", z), Pop>> \o <<>>)
               \o wrenMapSet(y, z, "-"), d, R, d, R)
    BY <2>1, <1>7, LeadsOn
  <2> QED
    BY <2>2 DEF addConstant
<1> QED
  BY <1>1, <1>2, <1>3, <1>4, <1>5, <1>9, <1>10

\* Functions that take two
LEMMA LeadsTwice ==
  ASSUME NEW d \in Depth, d + 1 \in Depth, d + 2 \in Depth, NEW R \in SUBSET Reg,
         NEW x, NEW y, NEW z
  PROVE  /\ Leads(wrenNewClass(x, y, z), d, R, d, R)
         /\ Leads(wrenDefineVariable(x, y), d, R, d, R)
         /\ Leads(EnterModule(TRUE), d, R, d, R)
         /\ Leads(EnterModule(FALSE), d, R, d, R)
<1>a. (d + 1) + 1 \in Depth /\ (d + 1) + 1 = d + 2
  BY DEF Depth
<1>i. \A s : Idle(s) => /\ Leads(<<s>>, d, R, d, R) /\ Leads(<<s>>, d + 1, R, d + 1, R)
                        /\ Leads(<<s>>, d + 2, R, d + 2, R)
  BY LeadsIdle
<1>r. \A s : Leads(<<Push(s)>>, d, R, d + 1, R) /\ Leads(<<Pop>>, d + 1, R, d, R)
  BY LeadsRoots
<1>q. \A s : Leads(<<Push(s)>>, d + 1, R, d + 2, R) /\ Leads(<<Pop>>, d + 2, R, d + 1, R)
  BY <1>a, LeadsRoots
<1>1. Leads(wrenNewClass(x, y, z), d, R, d, R)
  <2> DEFINE a == wrenStringFormat("metaName", z, z)
             b == wrenNewSingleClass("meta", "metaName")
             c == <<Link("meta", "classObj", "Class"), Pop, Push("meta")>>
             e == wrenBindSuperclass("meta", "Class")
             f == wrenNewSingleClass(x, z)
             g == <<Push(x), Link(x, "classObj", "meta")>>
             h == wrenBindSuperclass(x, y)
  <2>1. Leads(a, d, R, d, R) /\ Leads(e, d + 1, R, d + 1, R) /\ Leads(h, d + 2, R, d + 2, R)
    BY LeadsFlat
  <2>2. Leads(b, d + 1, R, d + 1, R) /\ Leads(f, d + 1, R, d + 1, R)
    BY <1>a, LeadsRooted
  <2>3. Leads(c, d + 1, R, d + 1, R)
    <3>1. Leads(<<Link("meta", "classObj", "Class")>>, d + 1, R, d + 1, R)
      BY <1>i, IdleSteps
    <3> QED
      BY <3>1, <1>r, LeadsThree
  <2>4. Leads(g, d + 1, R, d + 2, R)
    <3>1. Leads(<<Link(x, "classObj", "meta")>>, d + 2, R, d + 2, R)
      BY <1>i, IdleSteps
    <3> QED
      BY <3>1, <1>q, LeadsTwo
  <2>5. Leads(<<Pop, Pop>>, d + 2, R, d, R)
    BY <1>r, <1>q, LeadsTwo
  <2>6. wrenNewClass(x, y, z)
          = a \o <<Push("metaName")>> \o b \o c \o e \o f \o g \o h \o <<Pop, Pop>>
    BY DEF wrenNewClass
  <2> HIDE DEF a, b, c, e, f, g, h
  <2>7. Leads(a \o <<Push("metaName")>>, d, R, d + 1, R)
    BY <2>1, <1>r, LeadsOn
  <2>8. Leads(a \o <<Push("metaName")>> \o b \o c \o e \o f, d, R, d + 1, R)
    BY <2>7, <2>2, <2>3, <2>1, LeadsOn
  <2>9. Leads(a \o <<Push("metaName")>> \o b \o c \o e \o f \o g \o h, d, R, d + 2, R)
    BY <2>8, <2>4, <2>1, LeadsOn
  <2> QED
    BY <2>9, <2>5, <2>6, LeadsOn
<1>2. \A v, w : Leads(wrenDefineVariable(v, w), d, R, d, R)
  <2> SUFFICES ASSUME NEW v, NEW w PROVE Leads(wrenDefineVariable(v, w), d, R, d, R)
    OBVIOUS
  <2> DEFINE a == wrenSymbolTableAdd(v, "variableNames")
             b == <<Grow, Link(v, "variables", w), Pop>>
  <2>1. Leads(a, d + 1, R, d + 1, R)
    BY <1>a, LeadsRooted
  <2>2. Leads(b, d + 1, R, d, R)
    <3>1. Leads(<<Grow>>, d + 1, R, d + 1, R) /\ Leads(<<Link(v, "variables", w)>>, d + 1, R, d + 1, R)
      BY <1>i, IdleSteps
    <3> QED
      BY <3>1, <1>r, LeadsThree
  <2>3. wrenDefineVariable(v, w) = <<Push(w)>> \o a \o b
    BY DEF wrenDefineVariable
  <2> HIDE DEF a, b
  <2>4. Leads(<<Push(w)>> \o a, d, R, d + 1, R)
    BY <2>1, <1>r, LeadsOn
  <2> QED
    BY <2>2, <2>3, <2>4, LeadsOn
<1>3. Leads(EnterModule(TRUE), d, R, d, R)
  <2> DEFINE a == wrenNewModule("module", "name")
             b == wrenMapSet("modules", "name", "module")
             c == wrenDefineVariable("module", "Class")
  <2>1. Leads(a, d, R, d, R) /\ Leads(b, d + 1, R, d + 1, R) /\ Leads(c, d, R, d, R)
    BY <1>2, LeadsRooted, LeadsFlat
  <2>2. EnterModule(TRUE) = a \o <<Push("module")>> \o b \o <<Pop>> \o c
    BY DEF EnterModule
  <2> HIDE DEF a, b, c
  <2>3. Leads(a \o <<Push("module")>> \o b, d, R, d + 1, R)
    BY <2>1, <1>r, LeadsOn
  <2>4. Leads(a \o <<Push("module")>> \o b \o <<Pop>>, d, R, d, R)
    BY <2>3, <1>r, LeadsOn
  <2> QED
    BY <2>1, <2>2, <2>4, LeadsOn
<1>4. Leads(EnterModule(FALSE), d, R, d, R)
  BY <1>i, IdleSteps DEF EnterModule
<1> QED
  BY <1>1, <1>2, <1>3, <1>4

-----------------------------------------------------------------------------
(* The compiler *)

\* What is rooted while a compiler is at work, one inside it, a class
Outer == Roots \cup Group("fn")
Inner == Outer \cup Group("innerFn")
InClass == Outer \cup Group("classAttributes")

LEMMA Compilers ==
  /\ Outer \in SUBSET Reg /\ Inner \in SUBSET Reg /\ InClass \in SUBSET Reg
  /\ Outer \ Group("fn") = Roots /\ Inner \ Group("innerFn") = Outer
  /\ InClass \ Group("classAttributes") = Outer
<1>1. /\ Group("fn") = Parser \cup Compiler /\ Group("innerFn") = InnerCompiler
      /\ Group("classAttributes") = EnclosingClass
  BY DEF Group
<1>2. Outer \in SUBSET Reg /\ Inner \in SUBSET Reg /\ InClass \in SUBSET Reg
  BY <1>1 DEF Outer, Inner, InClass, Reg
<1>3. Roots \cap (Parser \cup Compiler) = {}
  BY DEF Roots, Parser, Compiler
<1>4. Roots \cap InnerCompiler = {} /\ Roots \cap EnclosingClass = {}
  BY DEF Roots, InnerCompiler, EnclosingClass
<1>5. Parser \cap InnerCompiler = {} /\ Parser \cap EnclosingClass = {}
  BY DEF Parser, InnerCompiler, EnclosingClass
<1>6. Compiler \cap InnerCompiler = {} /\ Compiler \cap EnclosingClass = {}
  BY DEF Compiler, InnerCompiler, EnclosingClass
<1>7. Outer \ Group("fn") = Roots
  BY <1>1, <1>3 DEF Outer
<1>8. Inner \ Group("innerFn") = Outer
  BY <1>1, <1>4, <1>5, <1>6 DEF Inner, Outer
<1>9. InClass \ Group("classAttributes") = Outer
  BY <1>1, <1>4, <1>5, <1>6 DEF InClass, Outer
<1> QED
  BY <1>2, <1>7, <1>8, <1>9

LEMMA LeadsCompilers ==
  ASSUME NEW d \in Depth
  PROVE  /\ Leads(<<Root("fn")>>, d, Roots, d, Outer)
         /\ Leads(<<Unroot("fn")>>, d, Outer, d, Roots)
         /\ Leads(<<Root("innerFn")>>, d, Outer, d, Inner)
         /\ Leads(<<Unroot("innerFn")>>, d, Inner, d, Outer)
         /\ Leads(<<Root("classAttributes")>>, d, Outer, d, InClass)
         /\ Leads(<<Unroot("classAttributes")>>, d, InClass, d, Outer)
<1>1. \A r, S : Goes(Root(r), d, S, d, S \cup Group(r)) /\ Goes(Unroot(r), d, S, d, S \ Group(r))
  BY DEF Goes, Root, Unroot, The
<1>2. /\ Goes(Root("fn"), d, Roots, d, Outer) /\ Goes(Root("innerFn"), d, Outer, d, Inner)
      /\ Goes(Root("classAttributes"), d, Outer, d, InClass)
  BY <1>1 DEF Outer, Inner, InClass
<1>3. /\ Goes(Unroot("fn"), d, Outer, d, Roots) /\ Goes(Unroot("innerFn"), d, Inner, d, Outer)
      /\ Goes(Unroot("classAttributes"), d, InClass, d, Outer)
  BY <1>1, Compilers
<1>4. Roots \in SUBSET Reg
  BY DEF Reg
<1> QED
  BY <1>2, <1>3, <1>4, Compilers, LeadsOne

LEMMA LeadsInit ==
  ASSUME NEW d \in Depth, NEW R \in SUBSET Reg, NEW S \in SUBSET Reg, NEW f, NEW c, NEW a,
         Leads(<<Root(f)>>, d, R, d, S)
  PROVE  Leads(initCompiler(f, c, a), d, R, d, S)
<1>1. /\ Leads(<<Clear(f)>>, d, R, d, R) /\ Leads(<<Clear(c)>>, d, R, d, R)
      /\ Leads(<<Clear(a)>>, d, R, d, R) /\ Leads(<<New(a, "map")>>, d, S, d, S)
  BY LeadsIdle, IdleSteps
<1>2. Leads(<<Root(f)>> \o <<New(a, "map")>>, d, R, d, S)
  BY <1>1, LeadsOn
<1>3. Leads(<<Root(f), New(a, "map")>>, d, R, d, S)
  BY <1>2, CutTwo
<1>4. Leads(<<Clear(a)>> \o <<Root(f), New(a, "map")>>, d, R, d, S)
  BY <1>1, <1>3, LeadsOn
<1>5. Leads(<<Clear(a), Root(f), New(a, "map")>>, d, R, d, S)
  BY <1>4, CutThree
<1>6. Leads(<<Clear(c)>> \o <<Clear(a), Root(f), New(a, "map")>>, d, R, d, S)
  BY <1>1, <1>5, LeadsOn
<1>7. Leads(<<Clear(c), Clear(a), Root(f), New(a, "map")>>, d, R, d, S)
  BY <1>6, CutFour
<1>8. Leads(<<Clear(f)>> \o <<Clear(c), Clear(a), Root(f), New(a, "map")>>, d, R, d, S)
  BY <1>1, <1>7, LeadsOn
<1>9. Leads(<<Clear(f), Clear(c), Clear(a), Root(f), New(a, "map")>>, d, R, d, S)
  <2>1. <<Clear(f), Clear(c), Clear(a), Root(f), New(a, "map")>>
          = <<Clear(f)>> \o <<Clear(c), Clear(a), Root(f), New(a, "map")>>
    BY CutFive
  <2> QED
    BY <1>8, <2>1, Zenon
<1>10. Leads(wrenNewFunction(f, "module"), d, S, d, S)
  BY LeadsFlat
<1> QED
  BY <1>9, <1>10, LeadsOn DEF initCompiler

LEMMA LeadsToken ==
  ASSUME NEW d \in Depth, NEW R \in SUBSET Reg
  PROVE  Leads(nextToken(TRUE), d, R, d, R) /\ Leads(nextToken(FALSE), d, R, d, R)
<1> DEFINE a == <<Copy("previous", "current"), Copy("current", "next")>>
<1>1. Leads(a, d, R, d, R) /\ Leads(<<Grow, New("next", "string")>>, d, R, d, R)
  <2>1. /\ Leads(<<Copy("previous", "current")>>, d, R, d, R)
        /\ Leads(<<Copy("current", "next")>>, d, R, d, R)
        /\ Leads(<<Grow>>, d, R, d, R) /\ Leads(<<New("next", "string")>>, d, R, d, R)
    BY LeadsIdle, IdleSteps
  <2> QED
    BY <2>1, LeadsTwo
<1>2. Leads(<<>>, d, R, d, R)
  BY LeadsNone
<1>3. nextToken(TRUE) = a \o <<Grow, New("next", "string")>> /\ nextToken(FALSE) = a \o <<>>
  BY DEF nextToken
<1> HIDE DEF a
<1> QED
  BY <1>1, <1>2, <1>3, LeadsOn

\* What may be compiled: a string literal, a function, attributes, classes with
\* attributes; each takes three temporary roots at most.
LEMMA LeadsLiteral ==
  ASSUME NEW d \in Depth, d + 1 \in Depth
  PROVE  Leads(Literal, d, Outer, d, Outer)
<1>1. Leads(nextToken(TRUE), d, Outer, d, Outer)
  BY LeadsToken, Compilers
<1>2. Leads(addConstant("fn", "constants", "previous", TRUE), d, Outer, d, Outer)
  BY LeadsRooted, Compilers
<1> QED
  BY <1>1, <1>2, LeadsOn DEF Literal

LEMMA LeadsFunction ==
  ASSUME NEW d \in Depth, d + 1 \in Depth
  PROVE  Leads(Function, d, Outer, d, Outer)
<1> DEFINE a == initCompiler("innerFn", "innerConstants", "innerAttributes")
           b == nextToken(TRUE)
           c == addConstant("innerFn", "innerConstants", "previous", TRUE)
           g == addConstant("fn", "constants", "innerFn", TRUE)
<1>1. Leads(a, d, Outer, d, Inner)
  BY LeadsCompilers, LeadsInit, Compilers
<1>2. Leads(b, d, Inner, d, Inner)
  BY LeadsToken, Compilers
<1>3. Leads(c, d, Inner, d, Inner) /\ Leads(g, d, Inner, d, Inner)
  BY LeadsRooted, Compilers
<1>4. Leads(<<Grow>>, d, Inner, d, Inner) /\ Leads(<<Unroot("innerFn")>>, d, Inner, d, Outer)
  BY LeadsIdle, IdleSteps, LeadsCompilers, Compilers
<1>5. Function = a \o b \o c \o endInner(TRUE) /\ endInner(TRUE) = <<Grow>> \o g \o <<Unroot("innerFn")>>
  BY DEF Function, endInner
<1> HIDE DEF a, b, c, g
<1>6. Leads(endInner(TRUE), d, Inner, d, Outer)
  BY <1>3, <1>4, <1>5, LeadsOn
<1>7. Leads(a \o b \o c, d, Outer, d, Inner)
  BY <1>1, <1>2, <1>3, LeadsOn
<1> QED
  BY <1>5, <1>6, <1>7, LeadsOn

LEMMA LeadsAttribute ==
  ASSUME NEW d \in Depth
  PROVE  Leads(matchAttribute(TRUE), d, Outer, d, Outer) /\ Leads(matchAttribute(FALSE), d, Outer, d, Outer)
<1> DEFINE t == nextToken(TRUE)
           f == nextToken(FALSE)
           g == <<Copy("group", "previous")>>
           k == <<Copy("key", "previous")>>
           v == <<Copy("value", "previous")>>
           n == <<Clear("group"), Copy("key", "previous")>>
<1>1. Leads(t, d, Outer, d, Outer) /\ Leads(f, d, Outer, d, Outer)
  BY LeadsToken, Compilers
<1>2. Leads(g, d, Outer, d, Outer) /\ Leads(k, d, Outer, d, Outer) /\ Leads(v, d, Outer, d, Outer)
  BY LeadsIdle, IdleSteps, Compilers
<1>3. Leads(n, d, Outer, d, Outer)
  <2>1. Leads(<<Clear("group")>>, d, Outer, d, Outer)
    BY LeadsIdle, IdleSteps, Compilers
  <2> QED
    BY <2>1, <1>2, LeadsTwo
<1>4. /\ matchAttribute(TRUE) = t \o f \o t \o (g \o f \o t \o k \o f \o f) \o v
      /\ matchAttribute(FALSE) = t \o f \o t \o (n \o f \o t) \o v
  BY DEF matchAttribute
<1> HIDE DEF t, f, g, k, v, n
<1>5. Leads(t \o f \o t, d, Outer, d, Outer)
  BY <1>1, LeadsOn
<1>6. Leads(g \o f \o t, d, Outer, d, Outer) /\ Leads(n \o f \o t, d, Outer, d, Outer)
  BY <1>1, <1>2, <1>3, LeadsOn
<1>7. Leads(g \o f \o t \o k \o f \o f, d, Outer, d, Outer)
  BY <1>6, <1>1, <1>2, LeadsOn
<1>8. /\ Leads(t \o f \o t \o (g \o f \o t \o k \o f \o f), d, Outer, d, Outer)
      /\ Leads(t \o f \o t \o (n \o f \o t), d, Outer, d, Outer)
  BY <1>5, <1>6, <1>7, LeadsOn
<1> QED
  BY <1>2, <1>4, <1>8, LeadsOn

LEMMA LeadsAddAttribute ==
  ASSUME NEW d \in Depth, d + 1 \in Depth, d + 2 \in Depth, d + 3 \in Depth
  PROVE  Leads(addToAttributeGroup, d, Outer, d, Outer)
<1> DEFINE a == <<Push("group"), Push("key"), Push("value"), New("groupMap", "map")>>
           b == wrenMapSet("attributes", "group", "groupMap")
           c == <<New("items", "list")>>
           e == wrenMapSet("groupMap", "key", "items")
           f == <<Grow, Link("items", "elements", "value"), Pop, Pop, Pop>>
<1>1. (d + 1) + 1 = d + 2 /\ (d + 2) + 1 = d + 3
  BY DEF Depth
<1>2. /\ \A s : Leads(<<Push(s)>>, d, Outer, d + 1, Outer)
      /\ \A s : Leads(<<Push(s)>>, d + 1, Outer, d + 2, Outer)
      /\ \A s : Leads(<<Push(s)>>, d + 2, Outer, d + 3, Outer)
      /\ Leads(<<Pop>>, d + 1, Outer, d, Outer) /\ Leads(<<Pop>>, d + 2, Outer, d + 1, Outer)
      /\ Leads(<<Pop>>, d + 3, Outer, d + 2, Outer)
  BY <1>1, LeadsRoots, Compilers
<1>3. /\ Leads(<<New("groupMap", "map")>>, d + 3, Outer, d + 3, Outer)
      /\ Leads(c, d + 3, Outer, d + 3, Outer)
      /\ Leads(<<Grow>>, d + 3, Outer, d + 3, Outer)
      /\ Leads(<<Link("items", "elements", "value")>>, d + 3, Outer, d + 3, Outer)
  BY LeadsIdle, IdleSteps, Compilers
<1>4. Leads(a, d, Outer, d + 3, Outer)
  BY <1>2, <1>3, LeadsFour
<1>5. Leads(f, d + 3, Outer, d, Outer)
  BY <1>2, <1>3, LeadsFive
<1>6. Leads(b, d + 3, Outer, d + 3, Outer) /\ Leads(e, d + 3, Outer, d + 3, Outer)
  BY LeadsFlat, Compilers
<1>7. addToAttributeGroup = a \o b \o c \o e \o f
  BY DEF addToAttributeGroup
<1>8. Leads(c, d + 3, Outer, d + 3, Outer)
  BY <1>3
<1> HIDE DEF a, b, c, e, f
<1>9. Leads(a \o b \o c \o e, d, Outer, d + 3, Outer)
  BY <1>4, <1>6, <1>8, LeadsOn
<1> QED
  BY <1>5, <1>7, <1>9, LeadsOn

LEMMA LeadsClass ==
  ASSUME NEW d \in Depth, d + 1 \in Depth
  PROVE  /\ Leads(classDefinition(TRUE), d, Outer, d, Outer)
         /\ Leads(classDefinition(FALSE), d, Outer, d, Outer)
<1>c. ASSUME NEW x, NEW i \in Depth, NEW R \in SUBSET Reg
      PROVE  Leads(copyAttributes(x), i, R, i, R)
  <2> DEFINE a == <<Get("group", "attributes", "entries", "string"),
                    Get("groupMap", "attributes", "entries", "map")>>
             b == wrenMapSet(x, "group", "groupMap")
             c == wrenMapClear("attributes")
  <2>1. Leads(a, i, R, i, R)
    <3>1. /\ Leads(<<Get("group", "attributes", "entries", "string")>>, i, R, i, R)
          /\ Leads(<<Get("groupMap", "attributes", "entries", "map")>>, i, R, i, R)
      BY LeadsIdle, IdleSteps
    <3> QED
      BY <3>1, LeadsTwo
  <2>2. Leads(b, i, R, i, R) /\ Leads(c, i, R, i, R)
    BY LeadsFlat
  <2>3. copyAttributes(x) = a \o b \o c
    BY DEF copyAttributes
  <2> HIDE DEF a, b, c
  <2> QED
    BY <2>1, <2>2, <2>3, LeadsOn
<1>i. \A s : Idle(s) => /\ Leads(<<s>>, d, Outer, d, Outer) /\ Leads(<<s>>, d, InClass, d, InClass)
                        /\ Leads(<<s>>, d + 1, InClass, d + 1, InClass)
  BY LeadsIdle, Compilers
<1>1. Leads(copyMethodAttributes, d, InClass, d, InClass)
  <2> DEFINE a == <<New("methodAttr", "map"), Push("methodAttr")>>
             b == copyAttributes("methodAttr")
             c == <<New("methodAttributes", "map"), New("key", "string")>>
             e == wrenMapSet("methodAttributes", "key", "methodAttr")
  <2>1. /\ Leads(<<Push("methodAttr")>>, d, InClass, d + 1, InClass)
        /\ Leads(<<Pop>>, d + 1, InClass, d, InClass)
    BY LeadsRoots, Compilers
  <2>2. /\ Leads(<<New("methodAttr", "map")>>, d, InClass, d, InClass)
        /\ Leads(<<New("methodAttributes", "map")>>, d + 1, InClass, d + 1, InClass)
        /\ Leads(<<New("key", "string")>>, d + 1, InClass, d + 1, InClass)
    BY <1>i, IdleSteps
  <2>3. Leads(a, d, InClass, d + 1, InClass) /\ Leads(c, d + 1, InClass, d + 1, InClass)
    BY <2>1, <2>2, LeadsTwo
  <2>4. Leads(b, d + 1, InClass, d + 1, InClass) /\ Leads(e, d + 1, InClass, d + 1, InClass)
    BY <1>c, LeadsFlat, Compilers
  <2>5. copyMethodAttributes = a \o b \o c \o e \o <<Pop>>
    BY DEF copyMethodAttributes
  <2> HIDE DEF a, b, c, e
  <2>6. Leads(a \o b \o c \o e, d, InClass, d + 1, InClass)
    BY <2>3, <2>4, LeadsOn
  <2> QED
    BY <2>1, <2>5, <2>6, LeadsOn
<1> DEFINE n == <<New("name", "string")>>
           a == addConstant("fn", "constants", "name", TRUE)
           c == <<Clear("methodAttributes"), Clear("classAttributes")>>
           r == <<Root("classAttributes")>>
           u == <<Unroot("classAttributes")>>
           m == <<New("classAttributes", "map")>>
           e == copyAttributes("classAttributes")
<1>2. Leads(n, d, Outer, d, Outer) /\ Leads(m, d, Outer, d, Outer)
  BY <1>i, IdleSteps
<1>3. Leads(c, d, Outer, d, Outer)
  <2>1. /\ Leads(<<Clear("methodAttributes")>>, d, Outer, d, Outer)
        /\ Leads(<<Clear("classAttributes")>>, d, Outer, d, Outer)
    BY <1>i, IdleSteps
  <2> QED
    BY <2>1, LeadsTwo
<1>4. Leads(a, d, Outer, d, Outer) /\ Leads(e, d, Outer, d, Outer)
  BY <1>c, LeadsRooted, Compilers
<1>5. Leads(r, d, Outer, d, InClass) /\ Leads(u, d, InClass, d, Outer)
  BY LeadsCompilers
<1>6. /\ classDefinition(TRUE) = n \o a \o c \o (r \o copyMethodAttributes) \o u
      /\ classDefinition(FALSE) = n \o a \o c \o (m \o e \o r) \o u
  BY DEF classDefinition
<1> HIDE DEF n, a, c, r, u, m, e
<1>7. Leads(n \o a \o c, d, Outer, d, Outer)
  BY <1>2, <1>3, <1>4, LeadsOn
<1>8. Leads(r \o copyMethodAttributes, d, Outer, d, InClass)
  BY <1>1, <1>5, LeadsOn
<1>9. Leads(m \o e \o r, d, Outer, d, InClass)
  BY <1>2, <1>4, <1>5, LeadsOn
<1>10. /\ Leads(n \o a \o c \o (r \o copyMethodAttributes), d, Outer, d, InClass)
       /\ Leads(n \o a \o c \o (m \o e \o r), d, Outer, d, InClass)
  BY <1>7, <1>8, <1>9, LeadsOn
<1> QED
  BY <1>5, <1>6, <1>10, LeadsOn

\* A program the compiler is given, three temporary roots at the most
Body(b) == \A d \in 0..WREN_MAX_TEMP_ROOTS - 3 : Leads(b, d, Outer, d, Outer)

LEMMA Bodies ==
  /\ Body(<<>>) /\ Body(Literal) /\ Body(Function)
  /\ Body(matchAttribute(TRUE)) /\ Body(matchAttribute(FALSE)) /\ Body(addToAttributeGroup)
  /\ Body(classDefinition(TRUE)) /\ Body(classDefinition(FALSE))
  /\ \A a, b : Body(a) /\ Body(b) => Body(a \o b)
<1>1. \A d \in 0..WREN_MAX_TEMP_ROOTS - 3 : d \in Depth /\ d + 1 \in Depth /\ d + 2 \in Depth /\ d + 3 \in Depth
  BY DEF Depth, WREN_MAX_TEMP_ROOTS
<1>2. Body(<<>>)
  BY <1>1, LeadsNone, Compilers DEF Body
<1>3. Body(Literal) /\ Body(Function)
  BY <1>1, LeadsLiteral, LeadsFunction DEF Body
<1>4. Body(matchAttribute(TRUE)) /\ Body(matchAttribute(FALSE))
  BY <1>1, LeadsAttribute DEF Body
<1>5. Body(addToAttributeGroup)
  BY <1>1, LeadsAddAttribute DEF Body
<1>6. Body(classDefinition(TRUE)) /\ Body(classDefinition(FALSE))
  BY <1>1, LeadsClass DEF Body
<1>7. \A a, b : Body(a) /\ Body(b) => Body(a \o b)
  BY LeadsOn DEF Body
<1> QED
  BY <1>2, <1>3, <1>4, <1>5, <1>6, <1>7

\* lib/wren_vm.c asks for it with at most one of its own.
LEMMA LeadsCompile ==
  ASSUME NEW b, Body(b), NEW named \in BOOLEAN, NEW d \in 0..WREN_MAX_TEMP_ROOTS - 3
  PROVE  Leads(wrenCompile(named, b), d, Roots, d, Roots)
<1> DEFINE c == <<Clear("previous"), Clear("current"), Clear("next")>>
           n == nextToken(named)
           t == nextToken(TRUE)
           i == initCompiler("fn", "constants", "attributes")
<1>1. d \in Depth /\ Roots \in SUBSET Reg
  BY DEF Depth, WREN_MAX_TEMP_ROOTS, Reg
<1>2. Leads(c, d, Roots, d, Roots)
  <2>1. /\ Leads(<<Clear("previous")>>, d, Roots, d, Roots) /\ Leads(<<Clear("current")>>, d, Roots, d, Roots)
        /\ Leads(<<Clear("next")>>, d, Roots, d, Roots)
    BY <1>1, LeadsIdle, IdleSteps
  <2> QED
    BY <2>1, LeadsThree
<1>3. Leads(n, d, Roots, d, Roots) /\ Leads(t, d, Roots, d, Roots)
  <2>1. CASE named = TRUE
    BY <1>1, <2>1, LeadsToken
  <2>2. CASE named = FALSE
    BY <1>1, <2>2, LeadsToken
  <2> QED
    BY <2>1, <2>2
<1>4. Leads(i, d, Roots, d, Outer)
  BY <1>1, LeadsCompilers, LeadsInit, Compilers
<1>5. Leads(b, d, Outer, d, Outer)
  BY DEF Body
<1>6. Leads(endCompiler, d, Outer, d, Roots)
  <2>1. Leads(<<Grow>>, d, Outer, d, Outer) /\ Leads(<<Unroot("fn")>>, d, Outer, d, Roots)
    BY <1>1, LeadsIdle, IdleSteps, LeadsCompilers, Compilers
  <2>2. Leads(<<Grow>> \o <<Unroot("fn")>>, d, Outer, d, Roots)
    BY <2>1, LeadsOn
  <2> QED
    BY <2>2, CutTwo DEF endCompiler
<1>7. wrenCompile(named, b) = c \o n \o t \o i \o b \o endCompiler
  BY DEF wrenCompile
<1> HIDE DEF c, n, t, i
<1>8. Leads(c \o n \o t \o i, d, Roots, d, Outer)
  BY <1>2, <1>3, <1>4, LeadsOn
<1> QED
  BY <1>5, <1>6, <1>7, <1>8, LeadsOn

-----------------------------------------------------------------------------
(* Functions that are called by themselves *)

\* A step that takes no temporary root
Quiet(s) == s.op \notin {"push", "pop", "root", "unroot"}

LEMMA QuietSteps ==
  ASSUME NEW r, NEW f, NEW s, NEW t
  PROVE  /\ Quiet(New(r, t)) /\ Quiet(Grow) /\ Quiet(Gc) /\ Quiet(Use(r))
         /\ Quiet(Copy(r, s)) /\ Quiet(Clear(r)) /\ Quiet(Pick(r, s, f, t)) /\ Quiet(Arg(r, t))
         /\ Quiet(Link(r, f, s)) /\ Quiet(Unlink(r, f, s)) /\ Quiet(Erase(r, f))
         /\ Quiet(Result(r)) /\ Quiet(Discard(r))
BY DEF Quiet, New, Grow, Gc, Use, Copy, Clear, Pick, Arg, Link, Unlink, Erase, Result, Discard, The

LEMMA QuietOne ==
  ASSUME NEW s, Quiet(s)
  PROVE  Disciplined(<<s>>)
<1>1. Goes(s, 0, Roots, 0, Roots)
  BY DEF Goes, Quiet
<1>2. 0 \in Depth /\ Roots \in SUBSET Reg
  BY DEF Depth, WREN_MAX_TEMP_ROOTS, Reg
<1> QED
  BY <1>1, <1>2, LeadsOne DEF Disciplined

\* One function after another
LEMMA DisciplinedOn ==
  ASSUME NEW a, NEW b, Disciplined(a), Disciplined(b)
  PROVE  Disciplined(a \o b)
BY LeadsOn DEF Disciplined

LEMMA QuietTwo ==
  ASSUME NEW a, NEW b, Quiet(a), Quiet(b)
  PROVE  Disciplined(<<a, b>>)
BY QuietOne, LeadsTwo DEF Disciplined

LEMMA QuietThree ==
  ASSUME NEW a, NEW b, NEW c, Quiet(a), Quiet(b), Quiet(c)
  PROVE  Disciplined(<<a, b, c>>)
BY QuietOne, LeadsThree DEF Disciplined

LEMMA QuietFour ==
  ASSUME NEW a, NEW b, NEW c, NEW d, Quiet(a), Quiet(b), Quiet(c), Quiet(d)
  PROVE  Disciplined(<<a, b, c, d>>)
BY QuietOne, LeadsFour DEF Disciplined

LEMMA QuietFive ==
  ASSUME NEW a, NEW b, NEW c, NEW d, NEW e, Quiet(a), Quiet(b), Quiet(c), Quiet(d), Quiet(e)
  PROVE  Disciplined(<<a, b, c, d, e>>)
BY QuietOne, LeadsFive DEF Disciplined

LEMMA QuietSix ==
  ASSUME NEW a, NEW b, NEW c, NEW d, NEW e, NEW f,
         Quiet(a), Quiet(b), Quiet(c), Quiet(d), Quiet(e), Quiet(f)
  PROVE  Disciplined(<<a, b, c, d, e, f>>)
BY QuietOne, LeadsSix DEF Disciplined

LEMMA QuietSeven ==
  ASSUME NEW a, NEW b, NEW c, NEW d, NEW e, NEW f, NEW g,
         Quiet(a), Quiet(b), Quiet(c), Quiet(d), Quiet(e), Quiet(f), Quiet(g)
  PROVE  Disciplined(<<a, b, c, d, e, f, g>>)
<1>1. Disciplined(<<a>> \o <<b, c, d, e, f, g>>)
  BY QuietOne, QuietSix, DisciplinedOn
<1>2. <<a, b, c, d, e, f, g>> = <<a>> \o <<b, c, d, e, f, g>>
  OBVIOUS
<1> QED
  BY <1>1, <1>2, Zenon

\* Those that only read, write and allocate
LEMMA PlainFunctions ==
  /\ Disciplined(getModuleVariable) /\ Disciplined(endClass) /\ Disciplined(wrenNewInstance)
  /\ Disciplined(wrenSetSlotNewForeign) /\ Disciplined(callForeignMethod)
  /\ Disciplined(closeUpvalues) /\ Disciplined(loadOpenUpvalue) /\ Disciplined(loadClosedUpvalue)
  /\ Disciplined(wrenSetSlotHandle) /\ Disciplined(wrenReleaseHandle) /\ Disciplined(runtimeError)
  /\ Disciplined(fiber_call) /\ Disciplined(fiber_transfer)
  /\ Disciplined(list_new) /\ Disciplined(list_add) /\ Disciplined(list_iteratorValue)
  /\ Disciplined(map_new) /\ Disciplined(system_gc) /\ Disciplined(pop)
  /\ Disciplined(metaGetModuleVariables) /\ Disciplined(captureUpvalue)
<1>1. Disciplined(getModuleVariable) /\ Disciplined(wrenSetSlotNewForeign)
  BY QuietSteps, QuietFour DEF getModuleVariable, wrenSetSlotNewForeign
<1>2. Disciplined(endClass) /\ Disciplined(wrenNewInstance)
  BY QuietSteps, QuietFive DEF endClass, wrenNewInstance
<1>3. Disciplined(callForeignMethod) /\ Disciplined(wrenSetSlotHandle)
  BY QuietSteps, QuietThree DEF callForeignMethod, wrenSetSlotHandle
<1>4. Disciplined(closeUpvalues)
  BY QuietSteps, QuietSix DEF closeUpvalues
<1>5. Disciplined(loadOpenUpvalue) /\ Disciplined(loadClosedUpvalue) /\ Disciplined(captureUpvalue)
  BY QuietSteps, QuietFour DEF loadOpenUpvalue, loadClosedUpvalue, captureUpvalue
<1>6. Disciplined(wrenReleaseHandle) /\ Disciplined(system_gc)
  BY QuietSteps, QuietOne DEF wrenReleaseHandle, system_gc
<1>7. Disciplined(runtimeError) /\ Disciplined(fiber_transfer) /\ Disciplined(list_new)
  BY QuietSteps, QuietTwo DEF runtimeError, fiber_transfer, list_new
<1>8. Disciplined(map_new) /\ Disciplined(pop)
  BY QuietSteps, QuietTwo DEF map_new, pop
<1>9. Disciplined(fiber_call) /\ Disciplined(list_iteratorValue)
  BY QuietSteps, QuietThree DEF fiber_call, list_iteratorValue
<1>10. Disciplined(list_add)
  BY QuietSteps, QuietFour DEF list_add
<1>11. Disciplined(metaGetModuleVariables)
  BY QuietSteps, QuietSeven DEF metaGetModuleVariables
<1> QED
  BY <1>1, <1>2, <1>3, <1>4, <1>5, <1>6, <1>7, <1>8, <1>9, <1>10, <1>11

\* What the helpers do when no temporary root is held
LEMMA Helpers ==
  ASSUME NEW x, NEW y, NEW z, NEW f
  PROVE  /\ Disciplined(wrenBindMethod(x)) /\ Disciplined(wrenStringFormat(x, y, z))
         /\ Disciplined(wrenNewClosure(x, y)) /\ Disciplined(wrenNewFiber(x, y))
         /\ Disciplined(wrenNewFunction(x, y)) /\ Disciplined(wrenMapSet(x, y, z))
         /\ Disciplined(wrenMapClear(x)) /\ Disciplined(wrenListInsert(x, y))
         /\ Disciplined(wrenSymbolTableAdd(x, f)) /\ Disciplined(wrenMakeHandle(x))
         /\ Disciplined(wrenNewClass(x, y, z))
<1>1. 0 \in Depth /\ 0 + 1 \in Depth /\ 0 + 2 \in Depth /\ Roots \in SUBSET Reg
  BY DEF Depth, WREN_MAX_TEMP_ROOTS, Reg
<1>2. /\ Disciplined(wrenBindMethod(x)) /\ Disciplined(wrenStringFormat(x, y, z))
      /\ Disciplined(wrenNewClosure(x, y)) /\ Disciplined(wrenNewFiber(x, y))
      /\ Disciplined(wrenNewFunction(x, y)) /\ Disciplined(wrenMapSet(x, y, z))
      /\ Disciplined(wrenMapClear(x))
  BY <1>1, LeadsFlat DEF Disciplined
<1>3. /\ Disciplined(wrenListInsert(x, y)) /\ Disciplined(wrenSymbolTableAdd(x, f))
      /\ Disciplined(wrenMakeHandle(x))
  BY <1>1, LeadsRooted DEF Disciplined
<1>4. Disciplined(wrenNewClass(x, y, z))
  BY <1>1, LeadsTwice DEF Disciplined
<1> QED
  BY <1>2, <1>3, <1>4

LEMMA DataFunctions ==
  /\ Disciplined(list_insert) /\ Disciplined(list_removeAt) /\ Disciplined(map_subscriptSetter)
  /\ Disciplined(map_remove) /\ Disciplined(map_clear) /\ Disciplined(range_toString)
  /\ Disciplined(object_toString)
<1>r. /\ \A s : Leads(<<Push(s)>>, 0, Roots, 1, Roots) /\ Leads(<<Push(s)>>, 1, Roots, 2, Roots)
      /\ Leads(<<Pop>>, 2, Roots, 1, Roots) /\ Leads(<<Pop>>, 1, Roots, 0, Roots)
  <2>1. 0 \in Depth /\ 1 \in Depth /\ 2 \in Depth /\ 0 + 1 = 1 /\ 1 + 1 = 2 /\ Roots \in SUBSET Reg
    BY DEF Depth, WREN_MAX_TEMP_ROOTS, Reg
  <2> QED
    BY <2>1, LeadsRoots
<1>i. \A s : Idle(s) => /\ Leads(<<s>>, 0, Roots, 0, Roots) /\ Leads(<<s>>, 1, Roots, 1, Roots)
                        /\ Leads(<<s>>, 2, Roots, 2, Roots)
  <2>1. 0 \in Depth /\ 1 \in Depth /\ 2 \in Depth /\ Roots \in SUBSET Reg
    BY DEF Depth, WREN_MAX_TEMP_ROOTS, Reg
  <2> QED
    BY <2>1, LeadsIdle
<1>1. Disciplined(list_insert)
  <2>1. Disciplined(<<Arg("list", "list"), Arg("value", "any")>>)
    BY QuietSteps, QuietTwo
  <2> QED
    BY <2>1, Helpers, DisciplinedOn DEF list_insert
<1>2. Disciplined(list_removeAt)
  <2>1. Disciplined(wrenListRemoveAt("list", "value"))
    <3>1. Leads(<<Pick("value", "list", "elements", "any")>>, 0, Roots, 0, Roots)
      BY QuietSteps, QuietOne DEF Disciplined
    <3>2. /\ Leads(<<Unlink("list", "elements", "value")>>, 1, Roots, 1, Roots)
          /\ Leads(<<Grow>>, 1, Roots, 1, Roots)
      BY <1>i, IdleSteps
    <3> QED
      BY <3>1, <3>2, <1>r, LeadsFive DEF wrenListRemoveAt, Disciplined
  <2>2. Disciplined(<<Arg("list", "list")>>) /\ Disciplined(<<Result("value")>>)
    BY QuietSteps, QuietOne
  <2>3. Disciplined(<<Arg("list", "list")>> \o wrenListRemoveAt("list", "value"))
    BY <2>1, <2>2, DisciplinedOn
  <2> QED
    BY <2>2, <2>3, DisciplinedOn DEF list_removeAt
<1>3. Disciplined(map_subscriptSetter)
  <2>1. Disciplined(<<Arg("map", "map"), Arg("key", "string"), Arg("value", "any")>>)
    BY QuietSteps, QuietThree
  <2> QED
    BY <2>1, Helpers, DisciplinedOn DEF map_subscriptSetter
<1>4. Disciplined(map_remove)
  <2>1. Disciplined(wrenMapRemoveKey("map", "key", "value"))
    <3>1. Leads(<<Pick("value", "map", "entries", "any")>>, 0, Roots, 0, Roots)
      BY QuietSteps, QuietOne DEF Disciplined
    <3>2. /\ Leads(<<Unlink("map", "entries", "key")>>, 0, Roots, 0, Roots)
          /\ Leads(<<Unlink("map", "entries", "value")>>, 0, Roots, 0, Roots)
          /\ Leads(<<Grow>>, 1, Roots, 1, Roots)
      BY <1>i, IdleSteps
    <3> QED
      BY <3>1, <3>2, <1>r, LeadsSix DEF wrenMapRemoveKey, Disciplined
  <2>2. /\ Disciplined(<<Arg("map", "map"), Arg("key", "string")>>)
        /\ Disciplined(<<Result("value")>>)
    BY QuietSteps, QuietOne, QuietTwo
  <2>3. Disciplined(<<Arg("map", "map"), Arg("key", "string")>> \o wrenMapRemoveKey("map", "key", "value"))
    BY <2>1, <2>2, DisciplinedOn
  <2> QED
    BY <2>2, <2>3, DisciplinedOn DEF map_remove
<1>5. Disciplined(map_clear)
  <2>1. Disciplined(<<Arg("map", "map")>>)
    BY QuietSteps, QuietOne
  <2> QED
    BY <2>1, Helpers, DisciplinedOn DEF map_clear
<1>6. Disciplined(range_toString)
  <2> DEFINE a == <<Use("fiber"), New("from", "string"), Push("from"), New("to", "string"), Push("to")>>
             b == wrenStringFormat("text", "from", "to")
             c == <<Pop, Pop, Result("text")>>
  <2>1. Leads(a, 0, Roots, 2, Roots)
    <3>1. /\ Leads(<<Use("fiber")>>, 0, Roots, 0, Roots) /\ Leads(<<New("from", "string")>>, 0, Roots, 0, Roots)
          /\ Leads(<<New("to", "string")>>, 1, Roots, 1, Roots)
      BY <1>i, IdleSteps
    <3> QED
      BY <3>1, <1>r, LeadsFive
  <2>2. Leads(b, 2, Roots, 2, Roots)
    <3>1. 2 \in Depth /\ Roots \in SUBSET Reg
      BY DEF Depth, WREN_MAX_TEMP_ROOTS, Reg
    <3> QED
      BY <3>1, LeadsFlat
  <2>3. Leads(c, 2, Roots, 0, Roots)
    <3>1. Leads(<<Result("text")>>, 0, Roots, 0, Roots)
      BY <1>i, IdleSteps
    <3> QED
      BY <3>1, <1>r, LeadsThree
  <2>4. range_toString = a \o b \o c
    BY DEF range_toString
  <2> HIDE DEF a, b, c
  <2> QED
    BY <2>1, <2>2, <2>3, <2>4, LeadsOn DEF Disciplined
<1>7. Disciplined(object_toString)
  <2>1. Disciplined(<<Arg("class", "class"), Pick("name", "class", "name", "string")>>)
    BY QuietSteps, QuietTwo
  <2>2. Disciplined(<<Result("text")>>)
    BY QuietSteps, QuietOne
  <2>3. Disciplined(<<Arg("class", "class"), Pick("name", "class", "name", "string")>>
                     \o wrenStringFormat("text", "name", "name"))
    BY <2>1, Helpers, DisciplinedOn
  <2> QED
    BY <2>2, <2>3, DisciplinedOn DEF object_toString
<1> QED
  BY <1>1, <1>2, <1>3, <1>4, <1>5, <1>6, <1>7

LEMMA ClassFunctions ==
  /\ Disciplined(createClass) /\ Disciplined(validateSuperclass) /\ Disciplined(bindForeignClass)
  /\ Disciplined(bindMethod)
<1>1. Disciplined(createClass)
  <2> DEFINE a == <<Arg("name", "string"), Arg("superclass", "class"), Discard("superclass")>>
             b == wrenNewClass("class", "superclass", "name")
             c == <<Discard("name"), Result("class")>>
  <2>1. Disciplined(a) /\ Disciplined(c)
    BY QuietSteps, QuietTwo, QuietThree
  <2>2. Disciplined(b) /\ createClass = a \o b \o c
    BY Helpers DEF createClass
  <2> HIDE DEF a, b, c
  <2> QED
    BY <2>1, <2>2, DisciplinedOn
<1>2. Disciplined(validateSuperclass)
  <2> DEFINE a == <<Arg("name", "string"), Arg("superclass", "class"), Discard("superclass"),
                    Pick("text", "superclass", "name", "string")>>
             b == wrenStringFormat("error", "name", "text")
             c == <<Link("fiber", "error", "error")>>
  <2>1. Disciplined(a) /\ Disciplined(c)
    BY QuietSteps, QuietOne, QuietFour
  <2>2. Disciplined(b) /\ validateSuperclass = a \o b \o c
    BY Helpers DEF validateSuperclass
  <2> HIDE DEF a, b, c
  <2> QED
    BY <2>1, <2>2, DisciplinedOn
<1>3. Disciplined(bindForeignClass)
  <2>1. Disciplined(<<Arg("class", "class")>>)
    BY QuietSteps, QuietOne
  <2>2. Disciplined(<<Arg("class", "class")>> \o wrenSymbolTableAdd("methodNames", "data"))
    BY <2>1, Helpers, DisciplinedOn
  <2> QED
    BY <2>2, Helpers, DisciplinedOn DEF bindForeignClass
<1>4. Disciplined(bindMethod)
  <2> DEFINE a == <<Arg("class", "class"), Arg("closure", "closure")>>
             b == wrenBindMethod("class")
             c == <<Link("class", "methods", "closure"), Discard("class"), Discard("closure")>>
  <2>1. Disciplined(a) /\ Disciplined(c)
    BY QuietSteps, QuietTwo, QuietThree
  <2>2. Disciplined(b) /\ bindMethod = a \o b \o c
    BY Helpers DEF bindMethod
  <2> HIDE DEF a, b, c
  <2> QED
    BY <2>1, <2>2, DisciplinedOn
<1> QED
  BY <1>1, <1>2, <1>3, <1>4

LEMMA FiberFunctions ==
  /\ Disciplined(CLOSURE) /\ Disciplined(wrenEnsureSlots) /\ Disciplined(wrenGetSlotHandle)
  /\ Disciplined(wrenMakeCallHandle) /\ Disciplined(fiber_new)
<1>1. Disciplined(CLOSURE)
  <2> DEFINE a == <<Arg("frame", "closure"), Pick("fn", "frame", "fn", "fn")>>
             b == wrenNewClosure("closure", "fn")
             c == <<Result("closure")>>
             e == <<Link("closure", "upvalues", "upvalue")>>
  <2>1. Disciplined(a) /\ Disciplined(c) /\ Disciplined(e)
    BY QuietSteps, QuietOne, QuietTwo
  <2>2. Disciplined(b) /\ Disciplined(captureUpvalue)
    BY Helpers, PlainFunctions
  <2>3. CLOSURE = a \o b \o c \o captureUpvalue \o e
    BY DEF CLOSURE
  <2> HIDE DEF a, b, c, e
  <2> QED
    BY <2>1, <2>2, <2>3, DisciplinedOn
<1>2. Disciplined(wrenEnsureSlots)
  <2>1. Disciplined(<<Copy("fiber", "newFiber")>>)
    BY QuietSteps, QuietOne
  <2> QED
    BY <2>1, Helpers, DisciplinedOn DEF wrenEnsureSlots
<1>3. Disciplined(wrenGetSlotHandle)
  <2>1. Disciplined(<<Arg("value", "any")>>)
    BY QuietSteps, QuietOne
  <2> QED
    BY <2>1, Helpers, DisciplinedOn DEF wrenGetSlotHandle
<1>4. Disciplined(wrenMakeCallHandle)
  <2> DEFINE a == wrenSymbolTableAdd("methodNames", "data")
             b == wrenNewFunction("fn", "-")
             c == wrenMakeHandle("fn")
             e == wrenNewClosure("closure", "fn")
             f == <<Copy("handle", "closure"), Use("fn"), Grow, Use("fn")>>
  <2>1. Disciplined(a) /\ Disciplined(b) /\ Disciplined(c) /\ Disciplined(e)
    BY Helpers
  <2>2. Disciplined(f)
    BY QuietSteps, QuietFour
  <2>3. wrenMakeCallHandle = a \o b \o c \o e \o f
    BY DEF wrenMakeCallHandle
  <2> HIDE DEF a, b, c, e, f
  <2> QED
    BY <2>1, <2>2, <2>3, DisciplinedOn
<1>5. Disciplined(fiber_new)
  <2> DEFINE a == <<Arg("closure", "closure")>>
             b == wrenNewFiber("newFiber", "closure")
             c == <<Result("newFiber")>>
  <2>1. Disciplined(a) /\ Disciplined(c)
    BY QuietSteps, QuietOne
  <2>2. Disciplined(b) /\ fiber_new = a \o b \o c
    BY Helpers DEF fiber_new
  <2> HIDE DEF a, b, c
  <2> QED
    BY <2>1, <2>2, DisciplinedOn
<1> QED
  BY <1>1, <1>2, <1>3, <1>4, <1>5

\* Temporary roots at the outset
LEMMA Lowest ==
  /\ \A s : Idle(s) => Leads(<<s>>, 0, Roots, 0, Roots) /\ Leads(<<s>>, 1, Roots, 1, Roots)
  /\ \A s : Leads(<<Push(s)>>, 0, Roots, 1, Roots) /\ Leads(<<Pop>>, 1, Roots, 0, Roots)
  /\ \A s : Leads(<<Push(s)>>, 1, Roots, 2, Roots) /\ Leads(<<Pop>>, 2, Roots, 1, Roots)
<1>1. /\ 0 \in Depth /\ 1 \in Depth /\ 2 \in Depth /\ 0 + 1 = 1 /\ 1 + 1 = 2
      /\ Roots \in SUBSET Reg
  BY DEF Depth, WREN_MAX_TEMP_ROOTS, Reg
<1>2. \A s : Idle(s) => Leads(<<s>>, 0, Roots, 0, Roots) /\ Leads(<<s>>, 1, Roots, 1, Roots)
  BY <1>1, LeadsIdle
<1>3. \A s : Leads(<<Push(s)>>, 0, Roots, 1, Roots) /\ Leads(<<Pop>>, 1, Roots, 0, Roots)
  BY <1>1, LeadsRoots
<1>4. \A s : Leads(<<Push(s)>>, 1, Roots, 2, Roots) /\ Leads(<<Pop>>, 2, Roots, 1, Roots)
  BY <1>1, LeadsRoots
<1> QED
  BY <1>2, <1>3, <1>4

LEMMA NewVM == Disciplined(wrenNewVM)
<1>1. /\ 0 \in Depth /\ 1 \in Depth /\ 0 + 1 \in Depth /\ 1 + 1 \in Depth /\ 1 + 2 \in Depth
      /\ Roots \in SUBSET Reg
  BY DEF Depth, WREN_MAX_TEMP_ROOTS, Reg
<1>2. Disciplined(defineClass("Class"))
  <2> DEFINE a == <<New("name", "string"), Push("name")>>
             b == wrenNewSingleClass("Class", "name")
             c == wrenDefineVariable("core", "Class")
  <2>1. Leads(a, 0, Roots, 1, Roots)
    <3>1. Leads(<<New("name", "string")>>, 0, Roots, 0, Roots)
      BY Lowest, IdleSteps
    <3> QED
      BY <3>1, Lowest, LeadsTwo
  <2>2. Leads(b, 1, Roots, 1, Roots)
    BY <1>1, LeadsRooted
  <2>3. Leads(c, 1, Roots, 1, Roots)
    BY <1>1, LeadsTwice
  <2>4. defineClass("Class") = a \o b \o c \o <<Pop>>
    BY DEF defineClass
  <2> HIDE DEF a, b, c
  <2>5. Leads(a \o b \o c, 0, Roots, 1, Roots)
    BY <2>1, <2>2, <2>3, LeadsOn
  <2> QED
    BY <2>4, <2>5, Lowest, LeadsOn DEF Disciplined
<1>3. Disciplined(wrenInitializeCore)
  <2> DEFINE a == wrenNewModule("core", "-")
             b == wrenMapSet("modules", "-", "core")
             c == defineClass("Class")
             e == <<Link("Class", "classObj", "Class")>>
  <2>1. Leads(a, 0, Roots, 0, Roots)
    BY <1>1, LeadsRooted
  <2>2. Leads(b, 1, Roots, 1, Roots)
    BY <1>1, LeadsFlat
  <2>3. Leads(c, 0, Roots, 0, Roots) /\ Leads(e, 0, Roots, 0, Roots)
    BY <1>2, Lowest, IdleSteps DEF Disciplined
  <2>4. wrenInitializeCore = a \o <<Push("core")>> \o b \o <<Pop>> \o c \o e
    BY DEF wrenInitializeCore
  <2> HIDE DEF a, b, c, e
  <2>5. Leads(a \o <<Push("core")>> \o b, 0, Roots, 1, Roots)
    BY <2>1, <2>2, Lowest, LeadsOn
  <2>6. Leads(a \o <<Push("core")>> \o b \o <<Pop>>, 0, Roots, 0, Roots)
    BY <2>5, Lowest, LeadsOn
  <2> QED
    BY <2>3, <2>4, <2>6, LeadsOn DEF Disciplined
<1>4. Disciplined(<<New("methodNames", "symbols"), New("modules", "map")>>)
  BY QuietSteps, QuietTwo
<1> QED
  BY <1>3, <1>4, DisciplinedOn DEF wrenNewVM

-----------------------------------------------------------------------------
(* The entry points of the compiler                                        *)

\* They compile with the name of the module held.
LEMMA LeadsModule ==
  ASSUME NEW c, Leads(c, 1, Roots, 1, Roots), NEW new \in BOOLEAN, NEW compiled \in BOOLEAN
  PROVE  Leads(compileInModule(new, c, compiled), 1, Roots, 1, Roots)
<1> DEFINE a == EnterModule(new)
           e == IF compiled THEN <<Push("fn")>> \o wrenNewClosure("closure", "fn") \o <<Pop>>
                            ELSE <<Clear("closure")>>
<1>1. Leads(a, 1, Roots, 1, Roots)
  <2>1. 1 \in Depth /\ 1 + 1 \in Depth /\ 1 + 2 \in Depth /\ Roots \in SUBSET Reg
    BY DEF Depth, WREN_MAX_TEMP_ROOTS, Reg
  <2>2. Leads(EnterModule(TRUE), 1, Roots, 1, Roots) /\ Leads(EnterModule(FALSE), 1, Roots, 1, Roots)
    BY <2>1, LeadsTwice
  <2>3. CASE new = TRUE
    BY <2>2, <2>3
  <2>4. CASE new = FALSE
    BY <2>2, <2>4
  <2> QED
    BY <2>3, <2>4
<1>2. Leads(e, 1, Roots, 1, Roots)
  <2>1. CASE compiled
    <3>1. Leads(wrenNewClosure("closure", "fn"), 2, Roots, 2, Roots)
      <4>1. 2 \in Depth /\ Roots \in SUBSET Reg
        BY DEF Depth, WREN_MAX_TEMP_ROOTS, Reg
      <4> QED
        BY <4>1, LeadsFlat
    <3>2. Leads(<<Push("fn")>> \o wrenNewClosure("closure", "fn"), 1, Roots, 2, Roots)
      BY <3>1, Lowest, LeadsOn
    <3>3. Leads(<<Push("fn")>> \o wrenNewClosure("closure", "fn") \o <<Pop>>, 1, Roots, 1, Roots)
      BY <3>2, Lowest, LeadsOn
    <3> QED
      BY <2>1, <3>3
  <2>2. CASE ~compiled
    <3>1. Leads(<<Clear("closure")>>, 1, Roots, 1, Roots)
      BY Lowest, IdleSteps
    <3> QED
      BY <2>2, <3>1
  <2> QED
    BY <2>1, <2>2
<1>3. compileInModule(new, c, compiled) = a \o c \o e
  BY DEF compileInModule
<1> HIDE DEF a, e
<1> QED
  BY <1>1, <1>2, <1>3, LeadsOn

LEMMA Interprets ==
  ASSUME NEW c, Leads(c, 1, Roots, 1, Roots), NEW new \in BOOLEAN, NEW compiled \in BOOLEAN
  PROVE  Disciplined(wrenInterpret(new, c, compiled))
<1> DEFINE a == <<New("name", "string"), Push("name")>>
           b == compileInModule(new, c, compiled)
           e == IF compiled
                  THEN <<Push("closure")>> \o wrenNewFiber("newFiber", "closure")
                       \o <<Pop, Copy("fiber", "newFiber")>>
                  ELSE <<>>
<1>1. Leads(a, 0, Roots, 1, Roots)
  <2>1. Leads(<<New("name", "string")>>, 0, Roots, 0, Roots)
    BY Lowest, IdleSteps
  <2> QED
    BY <2>1, Lowest, LeadsTwo
<1>2. Leads(b, 1, Roots, 1, Roots)
  BY LeadsModule
<1>3. Disciplined(wrenCompileSource(new, c, compiled))
  <2>1. wrenCompileSource(new, c, compiled) = a \o b \o <<Pop>>
    BY DEF wrenCompileSource
  <2> HIDE DEF a, b
  <2>2. Leads(a \o b, 0, Roots, 1, Roots)
    BY <1>1, <1>2, LeadsOn
  <2> QED
    BY <2>1, <2>2, Lowest, LeadsOn DEF Disciplined
<1>4. Disciplined(e)
  <2>1. CASE compiled
    <3> DEFINE f == wrenNewFiber("newFiber", "closure")
               g == <<Pop, Copy("fiber", "newFiber")>>
    <3>1. Leads(f, 1, Roots, 1, Roots)
      <4>1. 1 \in Depth /\ Roots \in SUBSET Reg
        BY DEF Depth, WREN_MAX_TEMP_ROOTS, Reg
      <4> QED
        BY <4>1, LeadsFlat
    <3>2. Leads(g, 1, Roots, 0, Roots)
      <4>1. Leads(<<Copy("fiber", "newFiber")>>, 0, Roots, 0, Roots)
        BY Lowest, IdleSteps
      <4> QED
        BY <4>1, Lowest, LeadsTwo
    <3>3. e = <<Push("closure")>> \o f \o g
      BY <2>1
    <3> HIDE DEF f, g, e
    <3>4. Leads(<<Push("closure")>> \o f, 0, Roots, 1, Roots)
      BY <3>1, Lowest, LeadsOn
    <3> QED
      BY <3>2, <3>3, <3>4, LeadsOn DEF Disciplined
  <2>2. CASE ~compiled
    <3>1. 0 \in Depth /\ Roots \in SUBSET Reg
      BY DEF Depth, WREN_MAX_TEMP_ROOTS, Reg
    <3>2. Disciplined(<<>>)
      BY <3>1, LeadsNone DEF Disciplined
    <3> QED
      BY <2>2, <3>2
  <2> QED
    BY <2>1, <2>2
<1>5. wrenInterpret(new, c, compiled) = wrenCompileSource(new, c, compiled) \o e
  BY DEF wrenInterpret
<1> HIDE DEF e
<1> QED
  BY <1>3, <1>4, <1>5, DisciplinedOn

Outcome == {"loaded before", "not found", "not compiled", "loaded"}

LEMMA Imports ==
  ASSUME NEW c, Leads(c, 1, Roots, 1, Roots), NEW o \in Outcome
  PROVE  Disciplined(importModule(o, c))
<1> DEFINE a == <<Use("fiber"), New("name", "string")>>
           p == <<Push("name")>>
           x == wrenStringFormat("error", "name", "name")
           z == <<Link("fiber", "error", "error"), Pop>>
           before == <<Pick("module", "modules", "entries", "module"), Result("module")>>
           missing == p \o x \o z
           bad == p \o compileInModule(TRUE, c, FALSE) \o x \o z
           good == p \o compileInModule(TRUE, c, TRUE) \o <<Pop, Result("closure")>>
<1>1. Disciplined(a) /\ Disciplined(before)
  BY QuietSteps, QuietTwo
<1>2. Leads(x, 1, Roots, 1, Roots)
  <2>1. 1 \in Depth /\ Roots \in SUBSET Reg
    BY DEF Depth, WREN_MAX_TEMP_ROOTS, Reg
  <2> QED
    BY <2>1, LeadsFlat
<1>3. Leads(z, 1, Roots, 0, Roots)
  <2>1. Leads(<<Link("fiber", "error", "error")>>, 1, Roots, 1, Roots)
    BY Lowest, IdleSteps
  <2> QED
    BY <2>1, Lowest, LeadsTwo
<1>4. Leads(<<Pop, Result("closure")>>, 1, Roots, 0, Roots)
  <2>1. Leads(<<Result("closure")>>, 0, Roots, 0, Roots)
    BY Lowest, IdleSteps
  <2> QED
    BY <2>1, Lowest, LeadsTwo
<1>5. Leads(p, 0, Roots, 1, Roots)
  BY Lowest
<1>6. /\ Leads(compileInModule(TRUE, c, FALSE), 1, Roots, 1, Roots)
      /\ Leads(compileInModule(TRUE, c, TRUE), 1, Roots, 1, Roots)
  BY LeadsModule
<1>7. /\ o = "loaded before" => importModule(o, c) = a \o before
      /\ o = "not found" => importModule(o, c) = a \o missing
      /\ o = "not compiled" => importModule(o, c) = a \o bad
      /\ o = "loaded" => importModule(o, c) = a \o good
  BY DEF importModule
<1>8. Disciplined(missing)
  <2> HIDE DEF p, x, z
  <2> QED
    BY <1>2, <1>3, <1>5, LeadsOn DEF Disciplined
<1>9. Disciplined(bad)
  <2> HIDE DEF p, x, z
  <2> QED
    BY <1>2, <1>3, <1>5, <1>6, LeadsOn DEF Disciplined
<1>10. Disciplined(good)
  <2> HIDE DEF p
  <2> QED
    BY <1>4, <1>5, <1>6, LeadsOn DEF Disciplined
<1> HIDE DEF a, before, missing, bad, good
<1>11. /\ Disciplined(a \o before) /\ Disciplined(a \o missing) /\ Disciplined(a \o bad)
       /\ Disciplined(a \o good)
  BY <1>1, <1>8, <1>9, <1>10, DisciplinedOn
<1> QED
  BY <1>7, <1>11 DEF Outcome

\* Every C function of WrenNatives that is called by itself gives back the
\* temporary roots and the compilers it took, on each of its paths; so does one
\* after another.  The entry points of the compiler do whatever program they are
\* given that is put together from literals, functions, attributes and classes.
THEOREM NativesGiveBack ==
  /\ Disciplined(wrenNewVM)
  /\ \A new, named, compiled \in BOOLEAN : \A b : Body(b) =>
       Disciplined(wrenInterpret(new, wrenCompile(named, b), compiled))
  /\ \A o \in Outcome, named \in BOOLEAN : \A b : Body(b) =>
       Disciplined(importModule(o, wrenCompile(named, b)))
  /\ \A c \in {getModuleVariable, metaGetModuleVariables, createClass, validateSuperclass,
               bindForeignClass, bindMethod, endClass, wrenNewInstance, wrenSetSlotNewForeign,
               callForeignMethod, captureUpvalue, CLOSURE, closeUpvalues, loadOpenUpvalue,
               loadClosedUpvalue} : Disciplined(c)
  /\ \A c \in {wrenEnsureSlots, wrenGetSlotHandle, wrenSetSlotHandle, wrenReleaseHandle,
               wrenMakeCallHandle, runtimeError, fiber_new, fiber_call, fiber_transfer} :
       Disciplined(c)
  /\ \A c \in {list_new, list_add, list_insert, list_removeAt, list_iteratorValue, map_new,
               map_subscriptSetter, map_remove, map_clear, range_toString, object_toString,
               system_gc, pop} : Disciplined(c)
  /\ \A a, b : Disciplined(a) /\ Disciplined(b) => Disciplined(a \o b)
<1>1. ASSUME NEW named \in BOOLEAN, NEW b, Body(b)
      PROVE  Leads(wrenCompile(named, b), 1, Roots, 1, Roots)
  <2>1. 1 \in 0..WREN_MAX_TEMP_ROOTS - 3
    BY DEF WREN_MAX_TEMP_ROOTS
  <2> QED
    BY <1>1, <2>1, LeadsCompile
<1>2. \A new, named, compiled \in BOOLEAN : \A b : Body(b) =>
        Disciplined(wrenInterpret(new, wrenCompile(named, b), compiled))
  BY <1>1, Interprets
<1>3. \A o \in Outcome, named \in BOOLEAN : \A b : Body(b) =>
        Disciplined(importModule(o, wrenCompile(named, b)))
  BY <1>1, Imports
<1>4. \A c \in {getModuleVariable, metaGetModuleVariables, createClass, validateSuperclass,
                bindForeignClass, bindMethod, endClass, wrenNewInstance, wrenSetSlotNewForeign,
                callForeignMethod, captureUpvalue, CLOSURE, closeUpvalues, loadOpenUpvalue,
                loadClosedUpvalue} : Disciplined(c)
  BY PlainFunctions, ClassFunctions, FiberFunctions
<1>5. \A c \in {wrenEnsureSlots, wrenGetSlotHandle, wrenSetSlotHandle, wrenReleaseHandle,
                wrenMakeCallHandle, runtimeError, fiber_new, fiber_call, fiber_transfer} :
        Disciplined(c)
  BY PlainFunctions, FiberFunctions
<1>6. \A c \in {list_new, list_add, list_insert, list_removeAt, list_iteratorValue, map_new,
                map_subscriptSetter, map_remove, map_clear, range_toString, object_toString,
                system_gc, pop} : Disciplined(c)
  BY PlainFunctions, DataFunctions
<1> QED
  BY <1>2, <1>3, <1>4, <1>5, <1>6, NewVM, DisciplinedOn
==============================================================================
