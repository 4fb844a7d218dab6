-------------------------- MODULE RegisterListProofs --------------------------
(***************************************************************************)
(* The transfers of lists of registers, for every set of registers and     *)
(* every size of the region: StackFrames keeps its types, and no frame is  *)
(* overwritten while it is open; BlockTransfer keeps its types, and a      *)
(* block that STM has stored comes back by LDM.                            *)
(***************************************************************************)
EXTENDS StackFrames, BlockTransfer, FiniteSetTheorems, TLAPS

-----------------------------------------------------------------------------
LEMMA ListsAreFinite ==
  ASSUME NEW list \in Lists
  PROVE  IsFiniteSet(list) /\ Size(list) \in Nat /\ list \subseteq 0 .. 7
<1>1. list \subseteq 0 .. 7
  BY RegistersAssumption DEF Lists
<1>2. list \in SUBSET Nat /\ \A i \in list : i <= 7
  BY <1>1
<1>3. IsFiniteSet(list)
  BY <1>2, FS_BoundedSetOfNaturals
<1> QED
  BY <1>1, <1>3, FS_CardinalityType DEF Size

(* Ranks are distinct and smaller than the number of the registers. *)
LEMMA RankBounds ==
  ASSUME NEW list \in Lists, NEW i \in list
  PROVE  Rank(i, list) \in Nat /\ Rank(i, list) < Size(list)
<1> DEFINE lower == {j \in list : j < i}
<1>1. IsFiniteSet(list) /\ lower \in SUBSET list /\ i \notin lower
  BY ListsAreFinite
<1>2. /\ IsFiniteSet(lower) /\ Cardinality(lower) <= Cardinality(list)
      /\ Cardinality(list) = Cardinality(lower) => list = lower
  BY <1>1, FS_Subset
<1>3. Cardinality(lower) \in Nat /\ Cardinality(list) \in Nat
  BY <1>1, <1>2, FS_CardinalityType
<1> QED
  BY <1>1, <1>2, <1>3 DEF Rank, Size

LEMMA RanksDiffer ==
  ASSUME NEW list \in Lists, NEW i \in list, NEW j \in list, i < j
  PROVE  Rank(i, list) < Rank(j, list)
<1> DEFINE belowI == {m \in list : m < i}
           belowJ == {m \in list : m < j}
<1>1. IsFiniteSet(list) /\ list \subseteq 0 .. 7
  BY ListsAreFinite
<1>2. belowJ \in SUBSET list /\ belowI \in SUBSET belowJ
  <2>1. ASSUME NEW m \in list, m < i PROVE m < j
    BY <1>1, <2>1
  <2> QED
    BY <2>1
<1>3. i \in belowJ /\ i \notin belowI
  BY <1>1
<1>4. IsFiniteSet(belowI) /\ IsFiniteSet(belowJ)
  BY <1>1, <1>2, FS_Subset
<1>5. /\ Cardinality(belowI) <= Cardinality(belowJ)
      /\ Cardinality(belowJ) = Cardinality(belowI) => belowJ = belowI
  BY <1>2, <1>4, FS_Subset
<1>6. Cardinality(belowI) \in Nat /\ Cardinality(belowJ) \in Nat
  BY <1>4, FS_CardinalityType
<1>7. Cardinality(belowI) < Cardinality(belowJ)
  BY <1>3, <1>5, <1>6
<1> QED
  BY <1>7 DEF Rank, Size

LEMMA RankInjective ==
  ASSUME NEW list \in Lists, NEW i \in list, NEW j \in list,
         Rank(i, list) = Rank(j, list)
  PROVE  i = j
<1>1. i \in 0 .. 7 /\ j \in 0 .. 7
  BY ListsAreFinite
<1>2. ~(i < j)
  <2> SUFFICES ASSUME i < j PROVE FALSE
    OBVIOUS
  <2>1. Rank(i, list) < Rank(j, list)
    BY RanksDiffer
  <2>2. Rank(i, list) \in Nat
    BY RankBounds
  <2> QED
    BY <2>1, <2>2
<1>3. ~(j < i)
  <2> SUFFICES ASSUME j < i PROVE FALSE
    OBVIOUS
  <2>1. Rank(j, list) < Rank(i, list)
    BY RanksDiffer
  <2>2. Rank(i, list) \in Nat
    BY RankBounds
  <2> QED
    BY <2>1, <2>2
<1> QED
  BY <1>1, <1>2, <1>3

(* The register 13 is never in a list, so M costs a word. *)
LEMMA LinkRegisterTakesAWord ==
  ASSUME NEW list \in Lists, NEW M \in BOOLEAN
  PROVE  Size(list \cup (IF M THEN {13} ELSE {})) = Size(list) + (IF M THEN 1 ELSE 0)
<1>1. IsFiniteSet(list) /\ 13 \notin list /\ Size(list) \in Nat
  BY ListsAreFinite
<1>2. CASE M
  <2>1. Cardinality(list \cup {13}) = Cardinality(list) + 1
    BY <1>1, FS_AddElement
  <2> QED
    BY <1>2, <2>1 DEF Size
<1>3. CASE ~M
  <2>1. list \cup (IF M THEN {13} ELSE {}) = list
    BY <1>3
  <2> QED
    BY <1>1, <1>3, <2>1
<1> QED
  BY <1>2, <1>3

(* Shifting a list does not change its size. *)
LEMMA ShiftedListHasTheSize ==
  ASSUME NEW list \in Lists
  PROVE  Size({i + 7 : i \in list}) = Size(list)
<1> DEFINE shifted == {i + 7 : i \in list}
           f == [i \in list |-> i + 7]
<1>1. IsFiniteSet(list) /\ list \subseteq 0 .. 7
  BY ListsAreFinite
<1>2. f \in Bijection(list, shifted)
  BY <1>1 DEF Bijection, Injection, Surjection, IsInjective
<1>3. ExistsBijection(list, shifted)
  BY <1>2 DEF ExistsBijection
<1> QED
  BY <1>1, <1>3, FS_Bijection DEF Size

-----------------------------------------------------------------------------
(* A store of a list changes the words from its address on, one for each   *)
(* register.                                                               *)
LEMMA StoredList ==
  ASSUME memory \in [0 .. Words - 1 -> Value], NEW list \in Lists,
         NEW values \in [list -> Value], NEW address \in Int,
         StoreAll(values, address)
  PROVE  /\ outside' \in BOOLEAN
         /\ memory' \in [0 .. Words - 1 -> Value]
         /\ ~outside' => \A i \in list :
              /\ address + Rank(i, list) \in 0 .. Words - 1
              /\ memory'[address + Rank(i, list)] = values[i]
         /\ \A a \in 0 .. Words - 1 :
              (a < address \/ a >= address + Size(list)) => memory'[a] = memory[a]
<1> DEFINE to(i) == address + Rank(i, list)
<1>1. /\ DOMAIN values = list /\ DOMAIN memory = 0 .. Words - 1
      /\ \A i \in list : values[i] \in Value
  OBVIOUS
<1>2. /\ outside' = \E i \in list : to(i) \notin 0 .. Words - 1
      /\ memory' = IF outside' THEN memory
                   ELSE [a \in 0 .. Words - 1 |->
                           IF \E i \in list : to(i) = a
                           THEN values[CHOOSE i \in list : to(i) = a] ELSE memory[a]]
  BY <1>1 DEF StoreAll
<1>3. outside' \in BOOLEAN
  BY <1>2
<1>4. CASE outside'
  BY <1>2, <1>3, <1>4
<1>5. CASE ~outside'
  <2> DEFINE at(a) == CHOOSE i \in list : to(i) = a
  <2>1. /\ \A i \in list : to(i) \in 0 .. Words - 1
        /\ memory' = [a \in 0 .. Words - 1 |->
                       IF \E i \in list : to(i) = a THEN values[at(a)] ELSE memory[a]]
    BY <1>2, <1>5
  <2>2. \A a : (\E i \in list : to(i) = a) => at(a) \in list /\ to(at(a)) = a
    OBVIOUS
  <2>3. memory' \in [0 .. Words - 1 -> Value]
    <3> SUFFICES ASSUME NEW a \in 0 .. Words - 1
                 PROVE  (IF \E i \in list : to(i) = a THEN values[at(a)] ELSE memory[a]) \in Value
      BY <2>1
    <3>1. memory[a] \in Value
      OBVIOUS
    <3>2. (\E i \in list : to(i) = a) => values[at(a)] \in Value
      BY <1>1, <2>2
    <3> QED
      BY <3>1, <3>2
  <2>4. ASSUME NEW i \in list
        PROVE  to(i) \in 0 .. Words - 1 /\ memory'[to(i)] = values[i]
    <3>1. memory'[to(i)] = values[at(to(i))]
      BY <2>1
    <3>2. at(to(i)) \in list /\ to(at(to(i))) = to(i)
      BY <2>2
    <3>3. Rank(at(to(i)), list) \in Nat /\ Rank(i, list) \in Nat
      BY <3>2, RankBounds
    <3>4. Rank(at(to(i)), list) = Rank(i, list)
      BY <3>2, <3>3
    <3>5. at(to(i)) = i
      BY <3>2, <3>4, RankInjective
    <3> QED
      BY <1>1, <2>1, <3>1, <3>5
  <2>5. ASSUME NEW a \in 0 .. Words - 1, a < address \/ a >= address + Size(list)
        PROVE  memory'[a] = memory[a]
    <3>1. \A i \in list : to(i) # a
      <4> SUFFICES ASSUME NEW i \in list PROVE to(i) # a
        OBVIOUS
      <4>1. Rank(i, list) \in Nat /\ Rank(i, list) < Size(list) /\ Size(list) \in Nat
        BY RankBounds, ListsAreFinite
      <4> QED
        BY <2>5, <4>1
    <3> QED
      BY <2>1, <3>1
  <2> QED
    BY <1>3, <1>5, <2>3, <2>4, <2>5
<1> QED
  BY <1>4, <1>5

(* What a load of a list leaves in the registers. *)
LEMMA LoadedList ==
  ASSUME memory \in [0 .. Words - 1 -> Value], regs \in [Registers -> Value],
         NEW list, NEW address \in Int, ~LoadLeaves(list, address)
  PROVE  Loaded(list, address) \in [Registers -> Value]
<1>1. \A i \in list : address + Rank(i, list) \in 0 .. Words - 1
  BY DEF LoadLeaves
<1>2. \A i \in list : memory[address + Rank(i, list)] \in Value
  BY <1>1
<1>3. Loaded(list, address)
        = [i \in Registers |-> IF i \in list THEN memory[address + Rank(i, list)]
                               ELSE regs[i]]
  BY DEF Loaded
<1> QED
  BY <1>2, <1>3

-----------------------------------------------------------------------------
FrameRecord ==
  [list : Lists, M : BOOLEAN, locals : Nat, before : Int, at : Int,
   saved : UNION {[list -> Value] : list \in Lists}]

(* A frame lies between the SP before it and the lowest address it took,   *)
(* with room for what the matching POP will take SP past.                  *)
FrameFits(f) ==
  /\ f.at + Size(f.list) + f.locals <= f.before /\ f.before <= Words
  /\ f.locals > 0 => f.list = {}

(* FramesIntact is not inductive: a later store could hit a frame if SP    *)
(* had moved above it.  SP lies below every open frame, and every frame    *)
(* begins at or below the older ones.                                      *)
Stacked ==
  /\ \A k \in DOMAIN frames : FrameFits(frames[k]) /\ sp <= frames[k].at
  /\ \A k, l \in DOMAIN frames : k < l => frames[l].before <= frames[k].at

(* What was stored was stored into the region. *)
FramesInside ==
  ~outside => \A k \in DOMAIN frames : \A i \in frames[k].list :
                frames[k].at + Rank(i, frames[k].list) \in 0 .. Words - 1

FramesTyped == frames \in Seq(FrameRecord)

IInv == TypeOK /\ FramesTyped /\ Stacked /\ FramesInside /\ FramesIntact

LEMMA RecordOfFrame ==
  ASSUME NEW f \in FrameRecord
  PROVE  f.list \in Lists /\ f.locals \in Nat /\ f.before \in Int /\ f.at \in Int
  BY DEF FrameRecord

LEMMA InitHolds == Init => IInv
<1> SUFFICES ASSUME Init PROVE IInv
  OBVIOUS
<1>1. DOMAIN frames = {}
  BY DEF Init
<1>2. TypeOK
  <2>1. sp \in Int /\ sp <= Words
    BY WordsAssumption DEF Init
  <2>2. memory \in [0 .. Words - 1 -> Value] /\ regs \in [Registers -> Value]
    BY DEF Init
  <2>3. outside \in BOOLEAN
    BY DEF Init
  <2> QED
    BY <1>1, <2>1, <2>2, <2>3 DEF TypeOK
<1>3. FramesTyped
  BY DEF Init, FramesTyped
<1> QED
  BY <1>1, <1>2, <1>3 DEF IInv, Stacked, FramesInside, FramesIntact

(* A frame put on top of the others, below SP, keeps what holds of them:   *)
(* for PUSH and for SUB SP alike.                                          *)
LEMMA FrameAdded ==
  ASSUME IInv, NEW f \in FrameRecord, frames' = Append(frames, f),
         sp' = f.at, f.before = sp, FrameFits(f), f.at <= sp,
         f.saved \in [f.list -> Value],
         outside' \in BOOLEAN, memory' \in [0 .. Words - 1 -> Value],
         ~outside' => ~outside,
         ~outside' => \A i \in f.list :
                        /\ f.at + Rank(i, f.list) \in 0 .. Words - 1
                        /\ memory'[f.at + Rank(i, f.list)] = f.saved[i],
         \A a \in 0 .. Words - 1 : a >= sp => memory'[a] = memory[a],
         regs' \in [Registers -> Value]
  PROVE  IInv'
<1>1. /\ frames \in Seq(FrameRecord) /\ Len(frames) \in Nat
      /\ DOMAIN frames = 1 .. Len(frames)
      /\ sp \in Int /\ sp <= Words
  BY DEF IInv, FramesTyped, TypeOK
<1>2. /\ DOMAIN frames' = 1 .. Len(frames) + 1
      /\ frames'[Len(frames) + 1] = f
      /\ \A k \in 1 .. Len(frames) : frames'[k] = frames[k]
      /\ FramesTyped'
  BY <1>1 DEF FramesTyped
<1>3. f.at \in Int /\ f.list \in Lists
  BY RecordOfFrame
<1>4. \A k \in 1 .. Len(frames) :
        /\ frames[k] \in FrameRecord /\ FrameFits(frames[k]) /\ sp <= frames[k].at
        /\ frames[k].saved \in [frames[k].list -> Value]
        /\ frames[k].at \in Int /\ frames[k].list \in Lists
  <2> SUFFICES ASSUME NEW k \in 1 .. Len(frames)
               PROVE  /\ frames[k] \in FrameRecord /\ FrameFits(frames[k])
                      /\ sp <= frames[k].at
                      /\ frames[k].saved \in [frames[k].list -> Value]
                      /\ frames[k].at \in Int /\ frames[k].list \in Lists
    OBVIOUS
  <2>1. frames[k] \in FrameRecord
    BY <1>1
  <2>2. FrameFits(frames[k]) /\ sp <= frames[k].at
    BY <1>1 DEF IInv, Stacked
  <2>3. frames[k].saved \in [frames[k].list -> Value]
    BY <1>1 DEF IInv, TypeOK
  <2> QED
    BY <2>1, <2>2, <2>3, RecordOfFrame
<1>5. TypeOK'
  <2>1. sp' \in Int /\ sp' <= Words
    BY <1>1, <1>3, WordsAssumption
  <2>2. \A k \in DOMAIN frames' : frames'[k].saved \in [frames'[k].list -> Value]
    BY <1>2, <1>4
  <2> QED
    BY <2>1, <2>2 DEF TypeOK
<1>6. Stacked'
  <2>1. \A k \in DOMAIN frames' : FrameFits(frames'[k]) /\ sp' <= frames'[k].at
    BY <1>1, <1>2, <1>3, <1>4
  <2>2. ASSUME NEW k \in DOMAIN frames', NEW l \in DOMAIN frames', k < l
        PROVE  frames'[l].before <= frames'[k].at
    <3>1. CASE l = Len(frames) + 1
      BY <1>1, <1>2, <1>4, <2>2, <3>1
    <3>2. CASE l # Len(frames) + 1
      <4>1. k \in DOMAIN frames /\ l \in DOMAIN frames
        BY <1>1, <1>2, <2>2, <3>2
      <4>2. frames'[k] = frames[k] /\ frames'[l] = frames[l]
        BY <1>1, <1>2, <4>1
      <4>3. \A m, n \in DOMAIN frames : m < n => frames[n].before <= frames[m].at
        BY DEF IInv, Stacked
      <4>4. frames[l].before <= frames[k].at
        BY <2>2, <4>1, <4>3
      <4> QED
        BY <4>2, <4>4
    <3> QED
      BY <3>1, <3>2
  <2> QED
    BY <2>1, <2>2 DEF Stacked, FrameFits
<1>7. FramesInside' /\ FramesIntact'
  <2> SUFFICES ASSUME ~outside', NEW k \in DOMAIN frames', NEW i \in frames'[k].list
               PROVE  LET a == frames'[k].at + Rank(i, frames'[k].list)
                      IN  a \in 0 .. Words - 1 /\ memory'[a] = frames'[k].saved[i]
    BY DEF FramesInside, FramesIntact
  <2>1. CASE k = Len(frames) + 1
    BY <1>2, <2>1
  <2>2. CASE k # Len(frames) + 1
    <3> DEFINE a == frames[k].at + Rank(i, frames[k].list)
    <3>1. k \in 1 .. Len(frames) /\ frames'[k] = frames[k]
      BY <1>1, <1>2, <2>2
    <3>2. i \in frames[k].list
      BY <3>1
    <3>3. a \in 0 .. Words - 1 /\ memory[a] = frames[k].saved[i]
      BY <1>1, <3>1, <3>2 DEF IInv, FramesInside, FramesIntact
    <3>4. Rank(i, frames[k].list) \in Nat
      BY <1>4, <3>1, <3>2, RankBounds
    <3>5. a >= sp
      BY <1>1, <1>4, <3>1, <3>4
    <3> QED
      BY <3>1, <3>3, <3>5
  <2> QED
    BY <2>1, <2>2
<1> QED
  BY <1>2, <1>5, <1>6, <1>7 DEF IInv

LEMMA OpenHolds ==
  ASSUME IInv, ~outside, NEW list \in Lists, NEW M \in BOOLEAN, Open(list, M)
  PROVE  IInv'
<1> DEFINE registers == list \cup (IF M THEN {13} ELSE {})
           f == [list |-> list, M |-> M, locals |-> 0, before |-> sp,
                 at |-> sp - Size(registers), saved |-> Saved(list)]
<1>1. /\ StoreAll(Saved(list), sp - Size(registers))
      /\ sp' = sp - Size(registers) /\ regs' = regs
  BY DEF Open, PUSH
<1>2. frames' = Append(frames, f)
  BY <1>1 DEF Open
<1>3. Size(registers) = Size(list) + (IF M THEN 1 ELSE 0) /\ Size(list) \in Nat
  BY LinkRegisterTakesAWord, ListsAreFinite
<1>4. Size(registers) \in Nat /\ Size(list) <= Size(registers)
  BY <1>3
<1>5. sp \in Int /\ sp <= Words /\ regs \in [Registers -> Value]
  BY DEF IInv, TypeOK
<1>6. Saved(list) \in [list -> Value]
  BY <1>5 DEF Saved, Lists
<1>7. f \in FrameRecord
  <2>1. Saved(list) \in UNION {[l -> Value] : l \in Lists}
    BY <1>6
  <2>2. sp - Size(registers) \in Int /\ 0 \in Nat
    BY <1>4, <1>5
  <2> QED
    BY <1>5, <2>1, <2>2 DEF FrameRecord
<1>8. sp - Size(registers) \in Int
  BY <1>4, <1>5
<1>9. /\ outside' \in BOOLEAN
      /\ memory' \in [0 .. Words - 1 -> Value]
      /\ ~outside' => \A i \in list :
           /\ sp - Size(registers) + Rank(i, list) \in 0 .. Words - 1
           /\ memory'[sp - Size(registers) + Rank(i, list)] = Saved(list)[i]
      /\ \A a \in 0 .. Words - 1 :
           (a < sp - Size(registers) \/ a >= sp - Size(registers) + Size(list))
             => memory'[a] = memory[a]
  BY <1>1, <1>6, <1>8, StoredList, ZenonT(40) DEF IInv, TypeOK
<1>10. \A a \in 0 .. Words - 1 : a >= sp => memory'[a] = memory[a]
  <2> SUFFICES ASSUME NEW a \in 0 .. Words - 1, a >= sp PROVE memory'[a] = memory[a]
    OBVIOUS
  <2>1. \A m, n \in Nat : m <= n => sp - n + m <= sp
    BY <1>5
  <2>2. sp - Size(registers) + Size(list) <= sp
    BY <1>3, <1>4, <2>1
  <2>3. a >= sp - Size(registers) + Size(list)
    BY <1>3, <1>4, <1>5, <2>2, WordsAssumption
  <2> QED
    BY <1>9, <2>3
<1>11. FrameFits(f) /\ f.at <= sp
  BY <1>3, <1>4, <1>5 DEF FrameFits
<1>12. sp' = f.at /\ f.before = sp /\ f.saved \in [f.list -> Value]
  BY <1>1, <1>6
<1>13. ~outside' => \A i \in f.list : /\ f.at + Rank(i, f.list) \in 0 .. Words - 1
                                      /\ memory'[f.at + Rank(i, f.list)] = f.saved[i]
  BY <1>9
<1>14. regs' \in [Registers -> Value]
  BY <1>1, <1>5
<1> HIDE DEF f
<1> QED
  BY <1>2, <1>7, <1>9, <1>10, <1>11, <1>12, <1>13, <1>14, FrameAdded

LEMMA OpenLocalsHolds ==
  ASSUME IInv, ~outside, NEW words \in Locals, OpenLocals(words)
  PROVE  IInv'
<1> DEFINE f == [list |-> {}, M |-> FALSE, locals |-> words, before |-> sp,
                 at |-> sp - words, saved |-> Saved({})]
<1>1. /\ sp' = sp + (-words) /\ memory' = memory /\ regs' = regs /\ outside' = outside
      /\ words \in Nat /\ sp \in Int /\ sp <= Words
  BY LocalsAssumption DEF OpenLocals, ADDSUB, IInv, TypeOK
<1>2. sp' = sp - words
  BY <1>1
<1>3. frames' = Append(frames, f)
  BY <1>2 DEF OpenLocals
<1>4. Saved({}) \in [{} -> Value] /\ {} \in Lists
  BY DEF Saved, Lists
<1>5. f \in FrameRecord
  <2>1. Saved({}) \in UNION {[l -> Value] : l \in Lists}
    BY <1>4
  <2>2. sp - words \in Int
    BY <1>1
  <2> QED
    BY <1>1, <1>4, <2>1, <2>2 DEF FrameRecord
<1>6. Size({}) = 0
  BY FS_EmptySet DEF Size
<1>7. FrameFits(f) /\ f.at <= sp
  BY <1>1, <1>6 DEF FrameFits
<1>8. /\ sp' = f.at /\ f.before = sp /\ f.saved \in [f.list -> Value]
      /\ f.list = {}
  BY <1>2, <1>4
<1>9. /\ outside' \in BOOLEAN /\ memory' \in [0 .. Words - 1 -> Value]
      /\ regs' \in [Registers -> Value]
  BY <1>1 DEF IInv, TypeOK
<1> HIDE DEF f
<1> QED
  BY <1>1, <1>3, <1>5, <1>7, <1>8, <1>9, FrameAdded

(* The newest frame given back, without SP moving above where it was       *)
(* before that frame.                                                      *)
LEMMA FrameRemoved ==
  ASSUME IInv, frames # <<>>, frames' = SubSeq(frames, 1, Len(frames) - 1),
         sp' \in Int, sp' <= Newest.before, memory' = memory,
         outside' \in BOOLEAN, ~outside' => ~outside, regs' \in [Registers -> Value]
  PROVE  IInv'
<1>1. /\ frames \in Seq(FrameRecord) /\ Len(frames) \in Nat \ {0}
      /\ DOMAIN frames = 1 .. Len(frames)
  BY DEF IInv, FramesTyped
<1>2. /\ DOMAIN frames' = 1 .. Len(frames) - 1
      /\ \A k \in 1 .. Len(frames) - 1 : k \in DOMAIN frames /\ frames'[k] = frames[k]
      /\ FramesTyped'
  BY <1>1 DEF FramesTyped
<1>3. \A k \in DOMAIN frames :
        frames[k].at \in Int /\ frames[k].before \in Int /\ frames[k].list \in Lists
  BY <1>1, RecordOfFrame
<1>4. /\ \A k \in DOMAIN frames : FrameFits(frames[k])
      /\ \A k, l \in DOMAIN frames : k < l => frames[l].before <= frames[k].at
  BY DEF IInv, Stacked
<1>5. TypeOK'
  <2>1. sp' <= Words
    <3>1. Len(frames) \in DOMAIN frames
      BY <1>1
    <3>2. Newest.before <= Words /\ Newest.before \in Int
      BY <1>3, <1>4, <3>1 DEF FrameFits, Newest
    <3> QED
      BY <3>2, WordsAssumption
  <2>2. \A k \in DOMAIN frames' : frames'[k].saved \in [frames'[k].list -> Value]
    BY <1>2 DEF IInv, TypeOK
  <2>3. memory' \in [0 .. Words - 1 -> Value]
    BY DEF IInv, TypeOK
  <2> QED
    BY <2>1, <2>2, <2>3 DEF TypeOK
<1>6. Stacked'
  <2>1. ASSUME NEW k \in DOMAIN frames'
        PROVE  FrameFits(frames'[k]) /\ sp' <= frames'[k].at
    <3>1. k \in DOMAIN frames /\ Len(frames) \in DOMAIN frames /\ k < Len(frames)
      BY <1>1, <1>2
    <3>2. frames'[k] = frames[k]
      BY <1>2
    <3>3. Newest.before <= frames[k].at
      BY <1>4, <3>1 DEF Newest
    <3>4. Newest.before \in Int /\ frames[k].at \in Int
      BY <1>3, <3>1 DEF Newest
    <3> QED
      BY <1>4, <3>1, <3>2, <3>3, <3>4
  <2>2. \A k, l \in DOMAIN frames' : k < l => frames'[l].before <= frames'[k].at
    BY <1>2, <1>4
  <2> QED
    BY <2>1, <2>2 DEF Stacked, FrameFits
<1>7. FramesInside' /\ FramesIntact'
  BY <1>2 DEF IInv, FramesInside, FramesIntact
<1> QED
  BY <1>2, <1>5, <1>6, <1>7 DEF IInv

(* POP moves SP up by the registers of the list and never by M, so it      *)
(* stays below the SP before the PUSH.                                     *)
LEMMA CloseHolds ==
  ASSUME IInv, ~outside, Close
  PROVE  IInv'
<1> DEFINE f == Newest
<1>1. frames # <<>> /\ frames' = SubSeq(frames, 1, Len(frames) - 1)
  BY DEF Close
<1>2. Len(frames) \in DOMAIN frames /\ f \in FrameRecord
  BY <1>1 DEF IInv, FramesTyped, Newest
<1>3. FrameFits(f) /\ sp <= f.at
  BY <1>2 DEF IInv, Stacked, Newest
<1>4. /\ f.list \in Lists /\ f.locals \in Nat /\ f.before \in Int /\ f.at \in Int
      /\ Size(f.list) \in Nat /\ sp \in Int
  BY <1>2, RecordOfFrame, ListsAreFinite DEF IInv, TypeOK
<1>5. f.at + Size(f.list) + f.locals <= f.before /\ (f.locals > 0 => f.list = {})
  BY <1>3 DEF FrameFits
<1>6. CASE f.locals > 0
  <2>1. /\ sp' = sp + f.locals
        /\ memory' = memory /\ regs' = regs /\ outside' = outside
    BY <1>6 DEF Close, ADDSUB
  <2>2. sp' \in Int /\ sp' <= f.before
    BY <1>3, <1>4, <1>5, <2>1
  <2>3. outside' \in BOOLEAN /\ regs' \in [Registers -> Value]
    BY <2>1 DEF IInv, TypeOK
  <2> QED
    BY <1>1, <2>1, <2>2, <2>3, FrameRemoved
<1>7. CASE ~(f.locals > 0)
  <2> DEFINE registers == {i + 7 : i \in f.list}
             loaded == registers \cap 0 .. 7
  <2>1. POP(f.list, f.M)
    BY <1>7 DEF Close
  <2>2. CASE registers = {}
    <3>1. sp' = sp /\ memory' = memory /\ regs' = regs /\ outside' = outside
      BY <2>1, <2>2 DEF POP
    <3>2. sp' \in Int /\ sp' <= f.before
      BY <1>3, <1>4, <1>5, <3>1
    <3>3. outside' \in BOOLEAN /\ regs' \in [Registers -> Value]
      BY <3>1 DEF IInv, TypeOK
    <3> QED
      BY <1>1, <3>1, <3>2, <3>3, FrameRemoved
  <2>3. CASE registers # {}
    <3>1. /\ outside' = LoadLeaves(loaded, sp)
          /\ regs' = IF outside' THEN regs ELSE Loaded(loaded, sp)
          /\ sp' = sp + Size(registers) /\ memory' = memory
      BY <2>1, <2>3 DEF POP
    <3>2. Size(registers) = Size(f.list)
      BY <1>4, ShiftedListHasTheSize
    <3>3. sp' \in Int /\ sp' <= f.before
      BY <1>3, <1>4, <1>5, <3>1, <3>2
    <3>4. outside' \in BOOLEAN
      BY <3>1 DEF LoadLeaves
    <3>5. regs' \in [Registers -> Value]
      <4>1. /\ memory \in [0 .. Words - 1 -> Value] /\ regs \in [Registers -> Value]
        BY DEF IInv, TypeOK
      <4>2. CASE outside'
        BY <3>1, <4>1, <4>2
      <4>3. CASE ~outside'
        BY <3>1, <4>1, <4>3, LoadedList DEF IInv, TypeOK
      <4> QED
        BY <4>2, <4>3
    <3> QED
      BY <1>1, <3>1, <3>3, <3>4, <3>5, FrameRemoved
  <2> QED
    BY <2>2, <2>3
<1> QED
  BY <1>6, <1>7

(* Only the newest frame has locals, and it has no registers: a store to   *)
(* them lies below all frames that have.                                   *)
LEMMA StoreLocalHolds ==
  ASSUME IInv, ~outside, StoreLocal
  PROVE  IInv'
<1> DEFINE f == Newest
<1>1. /\ frames # <<>> /\ regs' = regs /\ sp' = sp /\ frames' = frames
      /\ \E a \in sp .. sp + f.locals - 1, v \in Value :
           IF a \in DOMAIN memory
           THEN memory' = [memory EXCEPT ![a] = v] /\ UNCHANGED outside
           ELSE outside' = TRUE /\ UNCHANGED memory
  BY DEF StoreLocal
<1>2. PICK a \in sp .. sp + f.locals - 1, v \in Value :
           IF a \in DOMAIN memory
           THEN memory' = [memory EXCEPT ![a] = v] /\ UNCHANGED outside
           ELSE outside' = TRUE /\ UNCHANGED memory
  BY <1>1
<1>3. /\ memory \in [0 .. Words - 1 -> Value] /\ DOMAIN memory = 0 .. Words - 1
      /\ sp \in Int
  BY DEF IInv, TypeOK
<1>4. /\ outside' \in BOOLEAN /\ memory' \in [0 .. Words - 1 -> Value]
      /\ \A b \in 0 .. Words - 1 : b # a => memory'[b] = memory[b]
  BY <1>2, <1>3 DEF IInv, TypeOK
<1>5. TypeOK' /\ FramesTyped' /\ Stacked' /\ FramesInside'
  BY <1>1, <1>4 DEF IInv, TypeOK, FramesTyped, Stacked, FramesInside, FrameFits
<1>6. FramesIntact'
  <2> SUFFICES ASSUME ~outside', NEW k \in DOMAIN frames, NEW i \in frames[k].list
               PROVE  memory'[frames[k].at + Rank(i, frames[k].list)] = frames[k].saved[i]
    BY <1>1 DEF FramesIntact
  <2> DEFINE b == frames[k].at + Rank(i, frames[k].list)
  <2>1. b \in 0 .. Words - 1 /\ memory[b] = frames[k].saved[i]
    BY DEF IInv, FramesInside, FramesIntact
  <2>2. /\ frames \in Seq(FrameRecord) /\ Len(frames) \in DOMAIN frames
        /\ DOMAIN frames = 1 .. Len(frames) /\ Len(frames) \in Nat
    BY <1>1 DEF IInv, FramesTyped
  <2>3. /\ f \in FrameRecord /\ f.locals \in Nat /\ f.before \in Int /\ f.at \in Int
        /\ Size(f.list) \in Nat
    BY <2>2, RecordOfFrame, ListsAreFinite DEF Newest
  <2>4. /\ f.at + Size(f.list) + f.locals <= f.before /\ sp <= f.at
        /\ f.locals > 0 => f.list = {}
    BY <2>2 DEF IInv, Stacked, FrameFits, Newest
  <2>5. f.locals > 0
    BY <1>2, <1>3, <2>3
  <2>6. k < Len(frames)
    BY <2>2, <2>4, <2>5 DEF Newest
  <2>7. f.before <= frames[k].at
    BY <2>2, <2>6 DEF IInv, Stacked, Newest
  <2>8. frames[k].at \in Int /\ Rank(i, frames[k].list) \in Nat
    BY <2>2, RecordOfFrame, RankBounds
  <2>9. a < b
    BY <1>2, <1>3, <2>3, <2>4, <2>7, <2>8, SMTT(30)
  <2> QED
    BY <1>4, <2>1, <2>9
<1> QED
  BY <1>5, <1>6 DEF IInv

LEMMA ComputeHolds ==
  ASSUME IInv, Compute
  PROVE  IInv'
<1>1. regs' \in [Registers -> Value]
  BY DEF Compute, IInv, TypeOK
<1>2. memory' = memory /\ sp' = sp /\ frames' = frames /\ outside' = outside
  BY DEF Compute
<1> QED
  BY <1>1, <1>2
     DEF IInv, TypeOK, FramesTyped, Stacked, FramesInside, FramesIntact, FrameFits

-----------------------------------------------------------------------------
(* The stack discipline that the two theorems below rest on. *)
THEOREM Invariance == Spec => []IInv
<1>1. IInv /\ [Next]_vars => IInv'
  <2> SUFFICES ASSUME IInv, [Next]_vars PROVE IInv'
    OBVIOUS
  <2>1. CASE Next
    BY <2>1, OpenHolds, OpenLocalsHolds, CloseHolds, StoreLocalHolds, ComputeHolds DEF Next
  <2>2. CASE UNCHANGED vars
    BY <2>2 DEF vars, IInv, TypeOK, FramesTyped, Stacked, FramesInside, FramesIntact,
                FrameFits
  <2> QED
    BY <2>1, <2>2
<1> QED
  BY InitHolds, <1>1, PTL DEF Spec

(* Memory, registers and SP keep their types, and SP never rises above the *)
(* end of the region, whatever is pushed, popped and allocated             *)
(* (executeMisc).                                                          *)
THEOREM TypeCorrect == Spec => []TypeOK
<1>1. IInv => TypeOK
  BY DEF IInv
<1> QED
  BY Invariance, <1>1, PTL

(* What PUSH has saved stays in place until it is popped, for every nesting *)
(* of calls and locals, although POP does not undo what PUSH did to SP.    *)
THEOREM FramesStayIntact == Spec => []FramesIntact
<1>1. IInv => FramesIntact
  BY DEF IInv
<1> QED
  BY Invariance, <1>1, PTL

-----------------------------------------------------------------------------
(* BlocksReturn needs to know that the block the last STM was asked for is *)
(* still in memory, where it was stored: no other instruction stores.      *)
BlockKept ==
  LET list == DOMAIN block.values IN
  /\ list \in Lists /\ block.at \in Value /\ block.base \in Registers
  /\ ~outside => \A i \in list :
       /\ block.at + Rank(i, list) \in 0 .. Words - 1
       /\ i # block.base => memory[block.at + Rank(i, list)] = block.values[i]

BlockIInv == BlockTypeOK /\ BlockKept

LEMMA LastOfList ==
  ASSUME NEW list \in Lists, list # {}
  PROVE  \E last \in list : \A i \in list : i <= last
<1>1. list \subseteq 0 .. 7
  BY ListsAreFinite
<1>2. \A i \in list : \/ i = 0 \/ i = 1 \/ i = 2 \/ i = 3
                      \/ i = 4 \/ i = 5 \/ i = 6 \/ i = 7
  BY <1>1
<1>3. CASE 7 \in list
  BY <1>2, <1>3
<1>4. CASE 7 \notin list /\ 6 \in list
  BY <1>2, <1>4
<1>5. CASE 7 \notin list /\ 6 \notin list /\ 5 \in list
  BY <1>2, <1>5
<1>6. CASE list \subseteq 0 .. 4 /\ 4 \in list
  BY <1>6
<1>7. CASE list \subseteq 0 .. 3 /\ 3 \in list
  BY <1>7
<1>8. CASE list \subseteq 0 .. 2 /\ 2 \in list
  BY <1>8
<1>9. CASE list \subseteq 0 .. 1 /\ 1 \in list
  BY <1>9
<1>10. CASE list \subseteq {0}
  <2>1. list = {0}
    BY <1>10
  <2> QED
    BY <2>1
<1> QED
  BY <1>2, <1>3, <1>4, <1>5, <1>6, <1>7, <1>8, <1>9, <1>10

(* A block inside the region ends at an address that a register can hold.  *)
LEMMA EndOfBlock ==
  ASSUME NEW list \in Lists, list # {}, NEW address \in Nat,
         \A i \in list : address + Rank(i, list) \in 0 .. Words - 1
  PROVE  address + Size(list) \in Value
<1>1. PICK last \in list : \A i \in list : i <= last
  BY LastOfList
<1>2. IsFiniteSet(list) /\ Size(list) \in Nat /\ list \subseteq 0 .. 7
  BY ListsAreFinite
<1>3. {j \in list : j < last} = list \ {last}
  <2>1. \A j \in list : j < last <=> j # last
    <3> TAKE j \in list
    <3>1. j \in Int /\ last \in Int /\ j <= last
      BY <1>1, <1>2
    <3> QED
      BY <3>1
  <2> QED
    BY <2>1
<1>4. Rank(last, list) = Size(list) - 1
  BY <1>2, <1>3, FS_RemoveElement DEF Rank, Size
<1>5. address + Size(list) \in 0 .. Words
  BY <1>2, <1>4, WordsAssumption
<1> QED
  BY <1>5, ValueAssumption

LEMMA BlockInitHolds == BlockInit => BlockIInv
<1> SUFFICES ASSUME BlockInit PROVE BlockIInv
  OBVIOUS
<1>1. 0 \in Value
  BY WordsAssumption, ValueAssumption
<1>2. DOMAIN block.values = {} /\ block.at = 0 /\ block.base = 7
  BY DEF BlockInit
<1> QED
  BY <1>1, <1>2, RegistersAssumption
     DEF BlockInit, BlockIInv, BlockTypeOK, BlockKept, Lists

(* The base in the list may be stored as zero; the others are stored as    *)
(* they are.                                                               *)
LEMMA STMHolds ==
  ASSUME BlockIInv, ~outside, NEW n \in Registers, NEW list \in Lists, STM(n, list)
  PROVE  BlockIInv'
<1> DEFINE values == Stored(n, list)
           at == regs[n]
<1>1. /\ memory \in [0 .. Words - 1 -> Value] /\ regs \in [Registers -> Value]
      /\ list \subseteq Registers /\ list # {}
      /\ 0 \in Value /\ Value \subseteq Nat
  BY WordsAssumption, ValueAssumption DEF BlockIInv, BlockTypeOK, Lists, STM
<1>2. /\ values \in [list -> Value]
      /\ \A i \in list : i # n => values[i] = regs[i]
  BY <1>1 DEF Stored
<1>3. at \in Value /\ at \in Int
  <2>1. regs[n] \in Value
    BY <1>1
  <2>2. regs[n] \in Nat
    BY <1>1, <2>1
  <2> QED
    BY <2>1, <2>2
<1>4. StoreAll(values, at)
  BY DEF STM
<1> HIDE DEF values
<1>5. /\ outside' \in BOOLEAN
      /\ memory' \in [0 .. Words - 1 -> Value]
      /\ ~outside' => \A i \in list : /\ at + Rank(i, list) \in 0 .. Words - 1
                                     /\ memory'[at + Rank(i, list)] = values[i]
  BY <1>1, <1>2, <1>3, <1>4, StoredList
<1>6. regs' \in [Registers -> Value]
  <2>1. CASE outside'
    BY <1>1, <2>1 DEF STM
  <2>2. CASE ~outside'
    <3>1. at + Size(list) \in Value
      BY <1>1, <1>3, <1>5, <2>2, EndOfBlock
    <3>2. regs' = [regs EXCEPT ![n] = at + Size(list)]
      BY <1>1, <2>2 DEF STM
    <3> QED
      BY <1>1, <3>1, <3>2
  <2> QED
    BY <2>1, <2>2
<1>7. /\ DOMAIN block'.values = list /\ block'.at = at /\ block'.base = n
      /\ \A i \in list : block'.values[i] = regs[i]
  BY DEF STM
<1>8. BlockKept'
  BY <1>2, <1>3, <1>5, <1>7 DEF BlockKept
<1> QED
  BY <1>5, <1>6, <1>8 DEF BlockIInv, BlockTypeOK

LEMMA LDMHolds ==
  ASSUME BlockIInv, ~outside, NEW n \in Registers, NEW list \in Lists, LDM(n, list)
  PROVE  BlockIInv'
<1>1. /\ memory \in [0 .. Words - 1 -> Value] /\ regs \in [Registers -> Value]
      /\ list # {} /\ regs[n] \in Nat /\ DOMAIN memory = 0 .. Words - 1
  BY ValueAssumption DEF BlockIInv, BlockTypeOK, LDM
<1>2. memory' = memory /\ block' = block /\ outside' = LoadLeaves(list, regs[n])
  BY DEF LDM
<1>3. outside' \in BOOLEAN
  BY <1>2 DEF LoadLeaves
<1>4. regs' \in [Registers -> Value]
  <2>1. CASE outside'
    BY <1>1, <2>1 DEF LDM
  <2>2. CASE ~outside'
    <3>1. Loaded(list, regs[n]) \in [Registers -> Value]
      BY <1>1, <1>2, <2>2, LoadedList
    <3>2. regs[n] + Size(list) \in Value
      <4>1. \A i \in list : regs[n] + Rank(i, list) \in 0 .. Words - 1
        BY <1>1, <1>2, <2>2 DEF LoadLeaves
      <4> QED
        BY <1>1, <4>1, EndOfBlock
    <3>3. n \notin list => Loaded(list, regs[n])[n] = regs[n]
      BY <1>1 DEF Loaded
    <3> QED
      BY <2>2, <3>1, <3>2, <3>3 DEF LDM
  <2> QED
    BY <2>1, <2>2
<1>5. BlockKept'
  BY <1>2 DEF BlockIInv, BlockKept
<1> QED
  BY <1>2, <1>3, <1>4, <1>5 DEF BlockIInv, BlockTypeOK

LEMMA OtherInstructionHolds ==
  ASSUME BlockIInv, OtherInstruction
  PROVE  BlockIInv'
<1>1. regs' \in [Registers -> Value]
  BY ValueAssumption DEF OtherInstruction, BlockIInv, BlockTypeOK
<1> QED
  BY <1>1 DEF OtherInstruction, BlockIInv, BlockTypeOK, BlockKept

LEMMA BlockInvariance == BlockSpec => []BlockIInv
<1>1. BlockIInv /\ [BlockNext]_blockVars => BlockIInv'
  <2> SUFFICES ASSUME BlockIInv, [BlockNext]_blockVars PROVE BlockIInv'
    OBVIOUS
  <2>1. CASE BlockNext
    BY <2>1, STMHolds, LDMHolds, OtherInstructionHolds DEF BlockNext, executeMultiple
  <2>2. CASE UNCHANGED blockVars
    BY <2>2 DEF blockVars, BlockIInv, BlockTypeOK, BlockKept
  <2> QED
    BY <2>1, <2>2
<1> QED
  BY BlockInitHolds, <1>1, PTL DEF BlockSpec

(* The registers hold numbers that are addresses of the region or its end: *)
(* the write-back of executeMultiple keeps them so.                        *)
THEOREM BlockTypeCorrect == BlockSpec => []BlockTypeOK
<1>1. BlockIInv => BlockTypeOK
  BY DEF BlockIInv
<1> QED
  BY BlockInvariance, <1>1, PTL

(* A block that STM has stored comes back by an LDM of the same registers  *)
(* at the same address, all but the base, whatever has run in between, and *)
(* a base outside of the list then points past it (executeMultiple).       *)
THEOREM BlocksComeBack == BlockSpec => BlocksReturn
<1> DEFINE list == DOMAIN block.values
           Return == \A n \in Registers :
             (LDM(n, list) /\ regs[n] = block.at /\ ~outside /\ ~outside') =>
               /\ \A i \in list \ {block.base} : regs'[i] = block.values[i]
               /\ n \notin list => regs'[n] = block.at + Size(list)
<1>1. BlockIInv => [Return]_blockVars
  <2> SUFFICES ASSUME BlockIInv, NEW n \in Registers, LDM(n, list),
                      regs[n] = block.at, ~outside, ~outside'
               PROVE  /\ \A i \in list \ {block.base} : regs'[i] = block.values[i]
                      /\ n \notin list => regs'[n] = block.at + Size(list)
    OBVIOUS
  <2>1. regs \in [Registers -> Value] /\ list \subseteq Registers
    BY DEF BlockIInv, BlockTypeOK, BlockKept, Lists
  <2>2. \A i \in Registers :
          Loaded(list, block.at)[i]
            = IF i \in list THEN memory[block.at + Rank(i, list)] ELSE regs[i]
    BY <2>1 DEF Loaded
  <2>3. \A i \in list \ {block.base} : Loaded(list, block.at)[i] = block.values[i]
    BY <2>1, <2>2 DEF BlockIInv, BlockKept
  <2>4. DOMAIN Loaded(list, block.at) = Registers
    BY <2>1 DEF Loaded
  <2>5. CASE n \in list
    BY <2>3, <2>5 DEF LDM
  <2>6. CASE n \notin list
    <3>1. regs' = [Loaded(list, block.at) EXCEPT ![n] = regs[n] + Size(list)]
      BY <2>2, <2>6 DEF LDM
    <3> QED
      BY <2>1, <2>3, <2>4, <2>6, <3>1
  <2> QED
    BY <2>5, <2>6
<1> QED
  BY BlockInvariance, <1>1, PTL DEF BlocksReturn
=============================================================================
