------------------------------- MODULE EpeeProofs -------------------------------
(* What EpeeDecoder guarantees for any encoding, however deep, long or false its claims. *)
EXTENDS EpeeDecoder, OrderProofs

---------------------------------------------------------------------------------
(* The stack. *)

Bytes == (MaxDepth + 1) \div 2
Stacks == [types : [0 .. Bytes - 1 -> 0 .. 255], amounts : [0 .. MaxDepth - 1 -> Nat \ {0}],
           depth : 0 .. MaxDepth]
StackOK(st) == st \in Stacks /\ \A i \in 0 .. MaxDepth - 1 : Get(st.types, i) \in {Entry} \cup Kinds

\* The byte of a slot, of two there are in it.
LEMMA ByteOf ==
  ASSUME NEW i \in 0 .. MaxDepth - 1
  PROVE  i \div 2 \in 0 .. Bytes - 1 /\ i % 2 \in 0 .. 1 /\ i = 2 * (i \div 2) + (i % 2)
  BY NumbersAssumption DEF Bytes

\* The halves of a byte are apart.
LEMMA Halves ==
  ASSUME NEW b \in 0 .. 255, NEW kind \in 0 .. 15
  PROVE  /\ (b - (b % 16)) + kind \in 0 .. 255 /\ (b % 16) + 16 * kind \in 0 .. 255
         /\ ((b - (b % 16)) + kind) % 16 = kind
         /\ (((b - (b % 16)) + kind) \div 16) % 16 = (b \div 16) % 16
         /\ ((b % 16) + 16 * kind) % 16 = b % 16
         /\ (((b % 16) + 16 * kind) \div 16) % 16 = kind
  OBVIOUS

\* PackedTypes: what is set is got, and nothing else changes.
LEMMA SetGet ==
  ASSUME NEW types \in [0 .. Bytes - 1 -> 0 .. 255], NEW i \in 0 .. MaxDepth - 1, NEW kind \in 0 .. 15
  PROVE  /\ Set(types, i, kind) \in [0 .. Bytes - 1 -> 0 .. 255]
         /\ Get(Set(types, i, kind), i) = kind
         /\ \A j \in 0 .. MaxDepth - 1 : j # i => Get(Set(types, i, kind), j) = Get(types, j)
<1>1. PICK b \in 0 .. Bytes - 1 : b = i \div 2
  BY ByteOf
<1>2. PICK x \in 0 .. 255 : x = types[b]
  OBVIOUS
<1>3. PICK y \in 0 .. 255 : /\ y = IF i % 2 = 0 THEN (x - (x % 16)) + kind ELSE (x % 16) + 16 * kind
                            /\ IF i % 2 = 0 THEN y % 16 = kind /\ (y \div 16) % 16 = (x \div 16) % 16
                               ELSE y % 16 = x % 16 /\ (y \div 16) % 16 = kind
  <2>1. CASE i % 2 = 0
    <3>1. /\ (x - (x % 16)) + kind \in 0 .. 255
          /\ ((x - (x % 16)) + kind) % 16 = kind
          /\ (((x - (x % 16)) + kind) \div 16) % 16 = (x \div 16) % 16
      BY Halves
    <3>2. PICK z \in 0 .. 255 : z = (x - (x % 16)) + kind /\ z % 16 = kind /\ (z \div 16) % 16 = (x \div 16) % 16
      BY <3>1
    <3> QED BY <2>1, <3>2
  <2>2. CASE i % 2 # 0
    <3>1. /\ (x % 16) + 16 * kind \in 0 .. 255
          /\ ((x % 16) + 16 * kind) % 16 = x % 16
          /\ (((x % 16) + 16 * kind) \div 16) % 16 = kind
      BY Halves
    <3>2. PICK z \in 0 .. 255 : z = (x % 16) + 16 * kind /\ z % 16 = x % 16 /\ (z \div 16) % 16 = kind
      BY <3>1
    <3> QED BY <2>2, <3>2
  <2> QED BY <2>1, <2>2
<1>4. Set(types, i, kind) = [types EXCEPT ![b] = y]
  BY <1>1, <1>2, <1>3 DEF Set
<1>5. ASSUME NEW j \in 0 .. MaxDepth - 1
      PROVE  Get(Set(types, i, kind), j) = IF j = i THEN kind ELSE Get(types, j)
  <2>1. PICK c \in 0 .. Bytes - 1 : c = j \div 2
    BY ByteOf
  <2>2. c # b => Get(Set(types, i, kind), j) = Get(types, j) /\ j # i
    BY <1>1, <1>4, <2>1 DEF Get
  <2>3. ASSUME c = b
        PROVE  /\ Get(Set(types, i, kind), j) = (y \div (IF j % 2 = 0 THEN 1 ELSE 16)) % 16
               /\ Get(types, j) = (x \div (IF j % 2 = 0 THEN 1 ELSE 16)) % 16
    BY <1>2, <1>4, <2>1, <2>3 DEF Get
  <2>4. i % 2 \in 0 .. 1 /\ j % 2 \in 0 .. 1 /\ (c = b => (i = j <=> i % 2 = j % 2))
    BY <1>1, <2>1, ByteOf
  <2>5. y \div 1 = y /\ x \div 1 = x
    OBVIOUS
  <2>6. CASE c = b /\ j % 2 = 0
    BY <1>3, <2>3, <2>4, <2>5, <2>6
  <2>7. CASE c = b /\ j % 2 = 1
    BY <1>3, <2>3, <2>4, <2>7
  <2> QED BY <2>2, <2>4, <2>6, <2>7
<1>6. Set(types, i, kind) \in [0 .. Bytes - 1 -> 0 .. 255]
  BY <1>4
<1>7. Get(Set(types, i, kind), i) = kind
  BY <1>5, Zenon
<1>8. \A j \in 0 .. MaxDepth - 1 : j # i => Get(Set(types, i, kind), j) = Get(types, j)
  BY <1>5, Zenon
<1> QED BY <1>6, <1>7, <1>8, Zenon

\* What is left to decode, slot by slot.
SlotSet == [kind : 0 .. 15, amount : Nat]
Slots(st) == [i \in 1 .. st.depth |-> Slot(Get(st.types, i - 1), st.amounts[i - 1])]
Popped(s) ==
  IF s[Len(s)].amount > 1 THEN [s EXCEPT ![Len(s)].amount = @ - 1] ELSE SubSeq(s, 1, Len(s) - 1)

LEMMA StackFields ==
  ASSUME NEW st, StackOK(st)
  PROVE  /\ st \in Stacks /\ st.types \in [0 .. Bytes - 1 -> 0 .. 255]
         /\ st.amounts \in [0 .. MaxDepth - 1 -> Nat \ {0}] /\ st.depth \in 0 .. MaxDepth
         /\ \A i \in 0 .. MaxDepth - 1 : Get(st.types, i) \in 0 .. 15
<1>1. \A x \in {Entry} \cup Kinds : x \in 0 .. 15
  BY KindsAssumption DEF Entry, Object
<1> QED BY <1>1 DEF StackOK, Stacks

LEMMA SlotsType ==
  ASSUME NEW st, StackOK(st)
  PROVE  /\ Slots(st) \in Seq(SlotSet) /\ Len(Slots(st)) = st.depth
         /\ \A i \in 1 .. st.depth : Slots(st)[i] = Slot(Get(st.types, i - 1), st.amounts[i - 1])
<1>1. PICK d \in 0 .. MaxDepth : d = st.depth
  BY StackFields
<1>2. ASSUME NEW i \in 1 .. d PROVE Slot(Get(st.types, i - 1), st.amounts[i - 1]) \in SlotSet
  <2>1. PICK j \in 0 .. MaxDepth - 1 : j = i - 1
    BY NumbersAssumption
  <2>2. Get(st.types, j) \in 0 .. 15 /\ st.amounts[j] \in Nat
    BY StackFields
  <2> QED BY <2>1, <2>2 DEF Slot, SlotSet
<1> QED BY <1>1, <1>2, NumbersAssumption DEF Slots

\* What is below the top is not touched.
LEMMA PoppedIs ==
  ASSUME NEW s \in Seq(SlotSet), NEW n \in Nat, Len(s) = n, n > 0
  PROVE  /\ Popped(s) \in Seq(SlotSet) /\ s[n] \in SlotSet
         /\ \A i \in 1 .. n - 1 : Popped(s)[i] = s[i]
         /\ s[n].amount > 1 => Len(Popped(s)) = n /\ Popped(s)[n] = [s[n] EXCEPT !.amount = @ - 1]
         /\ ~(s[n].amount > 1) => Len(Popped(s)) = n - 1
<1>1. PICK x \in SlotSet : x = s[n]
  OBVIOUS
<1>2. CASE x.amount > 1
  <2>1. PICK m \in Nat : m = x.amount - 1
    BY <1>1, <1>2 DEF SlotSet
  <2>2. PICK e \in SlotSet : e = [x EXCEPT !.amount = m]
    BY <1>1 DEF SlotSet
  <2>3. Popped(s) = [s EXCEPT ![n] = e]
    BY <1>1, <1>2, <2>1, <2>2 DEF Popped
  <2>4. e = [s[n] EXCEPT !.amount = @ - 1]
    BY <1>1, <2>1, <2>2
  <2>5. /\ [s EXCEPT ![n] = e] \in Seq(SlotSet) /\ Len([s EXCEPT ![n] = e]) = n /\ [s EXCEPT ![n] = e][n] = e
        /\ \A i \in 1 .. n - 1 : [s EXCEPT ![n] = e][i] = s[i]
    OBVIOUS
  <2> HIDE DEF SlotSet
  <2> QED BY <1>1, <1>2, <2>3, <2>4, <2>5
<1>3. CASE ~(x.amount > 1)
  <2>1. Popped(s) = SubSeq(s, 1, n - 1)
    BY <1>1, <1>3 DEF Popped
  <2> QED BY <1>1, <1>3, <2>1
<1> QED BY <1>2, <1>3

\* Stack::pop
LEMMA PopIs ==
  ASSUME NEW st, StackOK(st), st.depth > 0
  PROVE  StackOK(Pop(st)) /\ Slots(Pop(st)) = Popped(Slots(st))
<1>1. PICK d \in 1 .. MaxDepth : d = st.depth
  BY StackFields, NumbersAssumption
<1>2. PICK t \in 0 .. MaxDepth - 1 : t = d - 1
  BY NumbersAssumption
<1>3. PICK a \in Nat \ {0} : a = st.amounts[t]
  BY StackFields
<1>0. PICK new : new = Pop(st)
  OBVIOUS
<1>b. /\ st \in Stacks /\ st.amounts \in [0 .. MaxDepth - 1 -> Nat \ {0}]
  BY StackFields
<1>4. /\ Slots(st) \in Seq(SlotSet) /\ Len(Slots(st)) = d
      /\ \A i \in 1 .. d : Slots(st)[i] = Slot(Get(st.types, i - 1), st.amounts[i - 1])
  BY <1>1, SlotsType
<1>a. Slots(st)[d] = Slot(Get(st.types, t), a) /\ Slots(st)[d].amount = a
  BY <1>2, <1>3, <1>4 DEF Slot
<1>5. CASE a > 1
  <2>1. PICK b \in Nat \ {0} : b = a - 1
    BY <1>5
  <2>2. new = [st EXCEPT !.amounts[t] = b]
    BY <1>0, <1>1, <1>2, <1>3, <1>5, <2>1 DEF Pop
  <2>3. /\ new.types = st.types /\ new.depth = d /\ new.amounts = [st.amounts EXCEPT ![t] = b]
    BY <1>1, <2>2, StackFields DEF Stacks
  <2>4. [st.amounts EXCEPT ![t] = b] \in [0 .. MaxDepth - 1 -> Nat \ {0}]
    BY StackFields
  <2>5. new \in Stacks
    <3>1. PICK f \in [0 .. MaxDepth - 1 -> Nat \ {0}] : f = [st.amounts EXCEPT ![t] = b]
      BY <2>4
    <3>2. new = [st EXCEPT !.amounts = f]
      BY <2>2, <3>1
    <3> QED BY <1>b, <3>2 DEF Stacks
  <2>6. StackOK(new)
    BY <2>3, <2>5 DEF StackOK
  <2>7. /\ Slots(new) \in Seq(SlotSet) /\ Len(Slots(new)) = d
        /\ \A i \in 1 .. d : Slots(new)[i] = Slot(Get(new.types, i - 1), new.amounts[i - 1])
    BY <2>3, <2>6, SlotsType
  <2>8. new.amounts[t] = b /\ \A i \in 1 .. d - 1 : new.amounts[i - 1] = st.amounts[i - 1]
    <3>1. new.amounts[t] = b /\ \A j \in 0 .. MaxDepth - 1 : j # t => new.amounts[j] = st.amounts[j]
      BY <1>b, <2>3
    <3>2. \A i \in 1 .. d - 1 : i - 1 \in 0 .. MaxDepth - 1 /\ i - 1 # t
      BY <1>2, NumbersAssumption
    <3> QED BY <3>1, <3>2
  <2>9. Slots(new)[d] = Slot(Get(st.types, t), b)
    BY <1>2, <2>3, <2>7, <2>8
  <2>10. /\ Popped(Slots(st)) \in Seq(SlotSet) /\ Len(Popped(Slots(st))) = d
         /\ \A i \in 1 .. d - 1 : Popped(Slots(st))[i] = Slots(st)[i]
         /\ Popped(Slots(st))[d] = [Slots(st)[d] EXCEPT !.amount = @ - 1]
    <3>1. PICK s \in Seq(SlotSet) : s = Slots(st) /\ Len(s) = d /\ s[d].amount > 1
      BY <1>4, <1>5, <1>a
    <3>2. d \in Nat /\ d > 0
      BY NumbersAssumption
    <3> QED BY <3>1, <3>2, PoppedIs
  <2>11. Popped(Slots(st))[d] = Slot(Get(st.types, t), b)
    BY <1>a, <2>1, <2>10 DEF Slot
  <2>12. \A i \in 1 .. d : Slots(new)[i] = Popped(Slots(st))[i]
    <3> SUFFICES ASSUME NEW i \in 1 .. d PROVE Slots(new)[i] = Popped(Slots(st))[i]
      OBVIOUS
    <3>1. CASE i = d
      BY <2>9, <2>11, <3>1
    <3>2. CASE i # d
      <4>1. i \in 1 .. d - 1
        BY <3>2
      <4> QED BY <1>4, <2>3, <2>7, <2>8, <2>10, <4>1
    <3> QED BY <3>1, <3>2
  <2>13. Slots(new) = Popped(Slots(st))
    BY <2>7, <2>10, <2>12, SameSequence
  <2> QED BY <1>0, <2>6, <2>13
<1>6. CASE ~(a > 1)
  <2>1. new = [st EXCEPT !.depth = t]
    BY <1>0, <1>1, <1>2, <1>3, <1>6 DEF Pop
  <2>2. new.types = st.types /\ new.depth = t /\ new.amounts = st.amounts
    BY <2>1, StackFields DEF Stacks
  <2>3. new \in Stacks
    <3>1. t \in 0 .. MaxDepth
      BY NumbersAssumption
    <3> QED BY <1>b, <2>1, <3>1 DEF Stacks
  <2>4. StackOK(new)
    BY <2>2, <2>3 DEF StackOK
  <2>5. /\ Slots(new) \in Seq(SlotSet) /\ Len(Slots(new)) = t
        /\ \A i \in 1 .. t : Slots(new)[i] = Slot(Get(st.types, i - 1), st.amounts[i - 1])
    BY <2>2, <2>4, SlotsType
  <2>6. /\ Popped(Slots(st)) \in Seq(SlotSet) /\ Len(Popped(Slots(st))) = d - 1
        /\ \A i \in 1 .. d - 1 : Popped(Slots(st))[i] = Slots(st)[i]
    <3>1. PICK s \in Seq(SlotSet) : s = Slots(st) /\ Len(s) = d /\ ~(s[d].amount > 1)
      BY <1>4, <1>6, <1>a
    <3>2. d \in Nat /\ d > 0
      BY NumbersAssumption
    <3> QED BY <3>1, <3>2, PoppedIs
  <2>7. \A i \in 1 .. t : Slots(new)[i] = Popped(Slots(st))[i]
    BY <1>2, <1>4, <2>5, <2>6
  <2>8. Slots(new) = Popped(Slots(st))
    BY <1>2, <2>5, <2>6, <2>7, SameSequence
  <2> QED BY <1>0, <2>4, <2>8
<1> QED BY <1>5, <1>6

\* Stack::push, of a stack which is not full.
LEMMA PushIs ==
  ASSUME NEW st, StackOK(st), ~Full(st), NEW kind \in {Entry} \cup Kinds, NEW n \in Nat
  PROVE  /\ StackOK(Push(st, kind, n))
         /\ Slots(Push(st, kind, n)) = IF n = 0 THEN Slots(st) ELSE Append(Slots(st), Slot(kind, n))
<1>1. CASE n = 0
  BY <1>1 DEF Push
<1>2. CASE n # 0
  <2>0. PICK new : new = Push(st, kind, n)
    OBVIOUS
  <2>1. PICK d \in 0 .. MaxDepth - 1 : d = st.depth
    BY StackFields, NumbersAssumption DEF Full
  <2>2. kind \in 0 .. 15
    BY KindsAssumption DEF Entry, Object
  <2>3. new = [types |-> Set(st.types, d, kind), amounts |-> [st.amounts EXCEPT ![d] = n], depth |-> d + 1]
    BY <1>2, <2>0, <2>1 DEF Push
  <2>4. /\ Set(st.types, d, kind) \in [0 .. Bytes - 1 -> 0 .. 255]
        /\ \A j \in 0 .. MaxDepth - 1 :
             Get(Set(st.types, d, kind), j) = IF j = d THEN kind ELSE Get(st.types, j)
    <3>1. PICK types \in [0 .. Bytes - 1 -> 0 .. 255] : types = st.types
      BY StackFields
    <3>2. PICK k \in 0 .. 15 : k = kind
      BY <2>2
    <3>3. Set(types, d, k) \in [0 .. Bytes - 1 -> 0 .. 255]
      BY SetGet
    <3>4. Get(Set(types, d, k), d) = k
      BY SetGet, SMTT(30)
    <3>5. ASSUME NEW j \in 0 .. MaxDepth - 1, j # d
          PROVE  Get(Set(types, d, k), j) = Get(types, j)
      BY <3>5, SetGet, SMTT(30)
    <3> QED BY <3>1, <3>2, <3>3, <3>4, <3>5
  <2>5. new \in Stacks
    <3>1. [st.amounts EXCEPT ![d] = n] \in [0 .. MaxDepth - 1 -> Nat \ {0}]
      BY <1>2, StackFields
    <3>2. d + 1 \in 0 .. MaxDepth
      BY NumbersAssumption
    <3> QED BY <2>3, <2>4, <3>1, <3>2 DEF Stacks
  <2>7. new.depth = d + 1 /\ new.amounts = [st.amounts EXCEPT ![d] = n]
    BY <2>3
  <2>8. \A j \in 0 .. MaxDepth - 1 : Get(new.types, j) = IF j = d THEN kind ELSE Get(st.types, j)
    BY <2>3, <2>4
  <2>6. StackOK(new)
    BY <2>5, <2>8 DEF StackOK
  <2>9. /\ Slots(new) \in Seq(SlotSet) /\ Len(Slots(new)) = d + 1
        /\ \A i \in 1 .. d + 1 : Slots(new)[i] = Slot(Get(new.types, i - 1), new.amounts[i - 1])
    BY <2>6, <2>7, SlotsType
  <2>10. /\ Slots(st) \in Seq(SlotSet) /\ Len(Slots(st)) = d
         /\ \A i \in 1 .. d : Slots(st)[i] = Slot(Get(st.types, i - 1), st.amounts[i - 1])
    BY <2>1, SlotsType
  <2>11. Slots(new)[d + 1] = Slot(kind, n)
    <3>1. Get(new.types, d) = kind /\ new.amounts[d] = n
      BY <2>7, <2>8, StackFields
    <3> QED BY <2>9, <3>1
  <2>12. \A i \in 1 .. d : Slots(new)[i] = Slots(st)[i]
    <3> SUFFICES ASSUME NEW i \in 1 .. d PROVE Slots(new)[i] = Slots(st)[i]
      OBVIOUS
    <3>0. PICK j \in 0 .. MaxDepth - 1 : j = i - 1 /\ j # d
      BY NumbersAssumption
    <3>1. Get(new.types, j) = Get(st.types, j)
      BY <2>8, <3>0
    <3>2. new.amounts[j] = st.amounts[j]
      BY <2>7, <3>0, StackFields
    <3> QED BY <2>9, <2>10, <3>0, <3>1, <3>2
  <2>13. Slot(kind, n) \in SlotSet
    BY <2>2 DEF Slot, SlotSet
  <2>14. Slots(new) = Append(Slots(st), Slot(kind, n))
    <3> DEFINE t == Append(Slots(st), Slot(kind, n))
    <3>1. t \in Seq(SlotSet) /\ Len(t) = d + 1 /\ t[d + 1] = Slot(kind, n) /\ \A i \in 1 .. d : t[i] = Slots(st)[i]
      BY <2>10, <2>13
    <3> HIDE DEF t
    <3>2. \A i \in 1 .. d + 1 : Slots(new)[i] = t[i]
      BY <2>11, <2>12, <3>1
    <3>3. Slots(new) = t
      BY <2>9, <3>1, <3>2, SameSequence
    <3> QED BY <3>3 DEF t
  <2> QED BY <1>2, <2>0, <2>6, <2>14
<1> QED BY <1>1, <1>2

\* Stack::single_step: an error, or the slot is popped and what it turned out to hold is pushed.
LEMMA StepIs ==
  ASSUME NEW st, StackOK(st), unread \in 0 .. Length, NEW o \in SingleStep(st)
  PROVE  /\ StackOK(o.st) /\ Read(o) \in 0 .. Length /\ o.len \in Nat /\ o.kind \in 0 .. 15
         /\ o.is \in {"empty", "err", "object", "entry", "unit"}
         /\ o.is = "empty" <=> st.depth = 0
         /\ o.is = "object" => o.kind = Entry
         /\ o.is \notin {"empty", "err"} =>
              Slots(o.st) = IF o.is = "unit" \/ o.len = 0 THEN Popped(Slots(st))
                            ELSE Append(Popped(Slots(st)), Slot(o.kind, o.len))
<1> DEFINE Good(p) ==
      /\ StackOK(p.st) /\ p.len \in Nat /\ p.kind \in 0 .. 15
      /\ p.is \in {"empty", "err", "object", "entry", "unit"}
      /\ p.is = "empty" <=> st.depth = 0
      /\ p.is = "object" => p.kind = Entry
      /\ p.is \notin {"empty", "err"} =>
           Slots(p.st) = IF p.is = "unit" \/ p.len = 0 THEN Popped(Slots(st))
                         ELSE Append(Popped(Slots(st)), Slot(p.kind, p.len))
<1>0. ASSUME NEW is, NEW kind, NEW len, NEW new
      PROVE  /\ Outcome(is, kind, len, new).is = is /\ Outcome(is, kind, len, new).kind = kind
             /\ Outcome(is, kind, len, new).len = len /\ Outcome(is, kind, len, new).st = new
  BY DEF Outcome
<1>1. Entry \in 0 .. 15 /\ Object \in 0 .. 15 /\ \A k \in {Entry} \cup Kinds : k \in 0 .. 15
  BY KindsAssumption DEF Entry, Object
<1>2. CASE st.depth = 0
  <2>1. o = Outcome("empty", 0, 0, st)
    BY <1>2 DEF SingleStep
  <2>2. Good(o)
    BY <1>0, <1>2, <2>1
  <2>3. Read(o) = unread
    BY <1>0, <2>1 DEF Read
  <2> QED BY <2>2, <2>3
<1>3. CASE st.depth # 0
  <2>1. PICK popped : popped = Pop(st)
    OBVIOUS
  <2>2. StackOK(popped) /\ Slots(popped) = Popped(Slots(st))
    <3>1. st.depth > 0
      BY <1>3, StackFields, NumbersAssumption
    <3> QED BY <2>1, <3>1, PopIs
  <2>3. PICK kind \in 0 .. 15 : kind = Get(st.types, st.depth - 1)
    <3>1. st.depth - 1 \in 0 .. MaxDepth - 1
      BY <1>3, StackFields, NumbersAssumption
    <3> QED BY <3>1, StackFields
  <2>4. Good(Outcome("err", 0, 0, popped))
    BY <1>0, <1>3, <2>2
  <2>5. ASSUME NEW is \in {"object", "entry"}, NEW k \in {Entry} \cup Kinds, NEW n \in 0 .. MaxCount,
               is = "object" => k = Entry
        PROVE  Good(Pushed(is, k, n, popped))
    <3>1. CASE Full(popped)
      <4>1. Pushed(is, k, n, popped) = Outcome("err", 0, 0, popped)
        BY <3>1 DEF Pushed
      <4> QED BY <2>4, <4>1
    <3>2. CASE ~Full(popped)
      <4>1. Pushed(is, k, n, popped) = Outcome(is, k, n, Push(popped, k, n))
        BY <3>2 DEF Pushed
      <4>2. n \in Nat /\ k \in 0 .. 15
        BY <1>1, NumbersAssumption
      <4>3. /\ StackOK(Push(popped, k, n))
            /\ Slots(Push(popped, k, n)) = IF n = 0 THEN Slots(popped) ELSE Append(Slots(popped), Slot(k, n))
        BY <2>2, <3>2, <4>2, PushIs
      <4>4. PICK p : p = Outcome(is, k, n, Push(popped, k, n))
        OBVIOUS
      <4>5. p.is = is /\ p.kind = k /\ p.len = n /\ p.st = Push(popped, k, n)
        BY <1>0, <4>4
      <4>6. p.is # "unit" /\ p.is # "empty" /\ p.is # "err"
        BY <4>5
      <4>7. Good(p)
        BY <1>3, <2>2, <2>5, <4>2, <4>3, <4>5, <4>6
      <4> QED BY <4>1, <4>4, <4>7
    <3> QED BY <3>1, <3>2
  <2>6. Good(Outcome("unit", kind, 1, popped))
    BY <1>0, <1>3, <2>2
  <2>7. \/ o = Outcome("err", 0, 0, popped)
        \/ unread # 0 /\ o = Outcome("unit", kind, 1, popped)
        \/ unread # 0 /\ \E n \in 0 .. MaxCount : o = Pushed("object", Entry, n, popped)
        \/ unread # 0 /\ \E k \in Kinds, n \in 0 .. MaxCount : o = Pushed("entry", k, n, popped)
    <3>1. SingleStep(st) = {Outcome("err", 0, 0, popped)} \cup
          (IF unread = 0 THEN {}
           ELSE IF kind = Object THEN {Pushed("object", Entry, n, popped) : n \in 0 .. MaxCount}
           ELSE IF kind = Entry
                THEN {Pushed("entry", k, n, popped) : k \in Kinds, n \in 0 .. MaxCount}
           ELSE {Outcome("unit", kind, 1, popped)})
      BY <1>3, <2>1, <2>3 DEF SingleStep
    <3> QED BY <3>1
  <2>8. Good(o)
    <3> HIDE DEF Good
    <3> QED BY <2>4, <2>5, <2>6, <2>7
  <2>9. Read(o) \in 0 .. Length
    <3>1. o.is = "err" \/ unread # 0
      BY <1>0, <2>7
    <3>2. CASE o.is \in {"empty", "err"}
      BY <3>2 DEF Read
    <3>3. CASE o.is \notin {"empty", "err"}
      BY <3>1, <3>3, NumbersAssumption DEF Read
    <3> QED BY <3>2, <3>3
  <2> QED BY <2>8, <2>9
<1> QED BY <1>2, <1>3

---------------------------------------------------------------------------------
(* Types. *)

HandleSet == [is : {"entry", "fields", "array"}, kind : 0 .. 15, len : Nat]

TypesOK ==
  /\ StackOK(stack) /\ error \in BOOLEAN /\ unread \in 0 .. Length
  /\ handles \in Seq(HandleSet)
  /\ dropping \in BOOLEAN /\ (dropping => handles # <<>>)
  /\ stop \in -1 .. MaxDepth /\ failed \in BOOLEAN /\ entered \in 0 .. 2

\* Stack::root_object
LEMMA RootIs == StackOK(RootObject) /\ Slots(RootObject) = <<Slot(Object, 1)>>
<1> DEFINE zeros == [b \in 0 .. Bytes - 1 |-> 0]
<1>1. PICK k \in 0 .. 15 : k = Object
  BY DEF Object
<1>2. 0 \in 0 .. MaxDepth - 1 /\ 1 \in 0 .. MaxDepth
  BY NumbersAssumption
<1>3. zeros \in [0 .. Bytes - 1 -> 0 .. 255]
  OBVIOUS
<1>a. ASSUME NEW j \in 0 .. MaxDepth - 1 PROVE Get(zeros, j) = 0
  <2>1. zeros[j \div 2] = 0
    BY ByteOf
  <2> HIDE DEF zeros
  <2>2. 0 \div 1 = 0 /\ 0 \div 16 = 0 /\ 0 % 16 = 0
    OBVIOUS
  <2> QED BY <2>1, <2>2 DEF Get
<1>4. RootObject = [types |-> Set(zeros, 0, Object), amounts |-> [i \in 0 .. MaxDepth - 1 |-> 1], depth |-> 1]
  BY DEF RootObject, Bytes
<1> HIDE DEF zeros
<1>5. Set(zeros, 0, k) \in [0 .. Bytes - 1 -> 0 .. 255]
  BY <1>2, <1>3, SetGet
<1>6. Get(Set(zeros, 0, k), 0) = k
  BY <1>2, <1>3, SetGet
<1>7. ASSUME NEW j \in 0 .. MaxDepth - 1, j # 0 PROVE Get(Set(zeros, 0, k), j) = 0
  <2>1. Get(Set(zeros, 0, k), j) = Get(zeros, j)
    <3>1. PICK i \in 0 .. MaxDepth - 1 : i = 0
      BY <1>2
    <3>2. PICK types \in [0 .. Bytes - 1 -> 0 .. 255] : types = zeros
      BY <1>3
    <3>3. j # i => Get(Set(types, i, k), j) = Get(types, j)
      BY SetGet, SMTT(30)
    <3> QED BY <1>7, <3>1, <3>2, <3>3
  <2> QED BY <1>a, <2>1
<1>8. RootObject \in Stacks
  BY <1>1, <1>2, <1>4, <1>5 DEF Stacks
<1>9. StackOK(RootObject)
  BY <1>1, <1>4, <1>6, <1>7, <1>8, KindsAssumption DEF StackOK, Entry
<1>10. /\ Slots(RootObject) \in Seq(SlotSet) /\ Len(Slots(RootObject)) = 1
       /\ Slots(RootObject)[1] = Slot(Get(RootObject.types, 0), RootObject.amounts[0])
  <2>1. PICK st : st = RootObject
    OBVIOUS
  <2>2. StackOK(st) /\ st.depth = 1
    BY <1>4, <1>9, <2>1
  <2>3. Slots(st) \in Seq(SlotSet) /\ Len(Slots(st)) = st.depth
    BY <2>2, SlotsType
  <2>4. \A i \in 1 .. st.depth : Slots(st)[i] = Slot(Get(st.types, i - 1), st.amounts[i - 1])
    BY <2>2, SlotsType
  <2>5. Slots(st)[1] = Slot(Get(st.types, 0), st.amounts[0])
    BY <2>2, <2>4
  <2> QED BY <2>1, <2>2, <2>3, <2>5
<1>11. Slots(RootObject)[1] = Slot(Object, 1)
  BY <1>1, <1>2, <1>4, <1>6, <1>10
<1> QED BY <1>9, <1>10, <1>11

LEMMA HandleFields ==
  ASSUME NEW x \in HandleSet
  PROVE  /\ x.is \in {"entry", "fields", "array"} /\ x.kind \in 0 .. 15 /\ x.len \in Nat
         /\ \A n \in Nat : [x EXCEPT !.len = n] \in HandleSet
         /\ [x EXCEPT !.is = "array"] \in HandleSet
  BY DEF HandleSet

LEMMA MadeHandle ==
  ASSUME NEW is \in {"entry", "fields", "array"}, NEW kind \in 0 .. 15, NEW len \in Nat
  PROVE  /\ Handle(is, kind, len) \in HandleSet
         /\ Handle(is, kind, len).is = is /\ Handle(is, kind, len).kind = kind /\ Handle(is, kind, len).len = len
  BY DEF HandleSet, Handle

LEMMA Extended ==
  ASSUME NEW S, NEW h \in Seq(S), NEW x \in S
  PROVE  /\ Append(h, x) \in Seq(S) /\ Append(h, x) # <<>>
         /\ Len(Append(h, x)) = Len(h) + 1 /\ Append(h, x)[Len(h) + 1] = x
         /\ \A i \in 1 .. Len(h) : Append(h, x)[i] = h[i]
<1>1. Append(h, x) \in Seq(S) /\ Len(Append(h, x)) = Len(h) + 1
  OBVIOUS
<1>2. Append(h, x)[Len(h) + 1] = x /\ \A i \in 1 .. Len(h) : Append(h, x)[i] = h[i]
  OBVIOUS
<1>3. Append(h, x) # <<>>
  <2>1. Len(h) \in Nat /\ Len(<<>>) = 0
    OBVIOUS
  <2> QED BY <1>1, <2>1
<1> QED BY <1>1, <1>2, <1>3

\* The last handle, and those it borrows from.
LEMMA LastAndOthers ==
  ASSUME handles \in Seq(HandleSet), handles # <<>>
  PROVE  /\ Len(handles) \in Nat \ {0} /\ LastHandle \in HandleSet
         /\ Others \in Seq(HandleSet) /\ Len(Others) = Len(handles) - 1
         /\ handles = Append(Others, LastHandle)
<1> HIDE DEF HandleSet
<1>1. PICK n \in Nat : n = Len(handles) /\ n # 0
  OBVIOUS
<1>2. LastHandle \in HandleSet /\ Others \in Seq(HandleSet) /\ Len(Others) = n - 1
  BY <1>1 DEF LastHandle, Others
<1>3. PICK t : t = Append(Others, LastHandle)
  OBVIOUS
<1>a. /\ t \in Seq(HandleSet) /\ Len(t) = n /\ t[n] = LastHandle
      /\ \A i \in 1 .. n - 1 : t[i] = Others[i]
  <2>1. /\ t \in Seq(HandleSet) /\ Len(t) = Len(Others) + 1 /\ t[Len(Others) + 1] = LastHandle
        /\ \A i \in 1 .. Len(Others) : t[i] = Others[i]
    BY <1>2, <1>3, Extended
  <2> QED BY <1>2, <2>1
<1>4. Len(t) = n /\ t[n] = handles[n] /\ \A i \in 1 .. n - 1 : t[i] = handles[i]
  BY <1>1, <1>a DEF LastHandle, Others
<1>5. \A i \in 1 .. n : t[i] = handles[i]
  BY <1>4
<1>6. t = handles
  BY <1>1, <1>a, <1>5, SameSequence
<1> QED BY <1>1, <1>2, <1>3, <1>6

LEMMA Replaced ==
  ASSUME handles \in Seq(HandleSet), handles # <<>>, NEW x \in HandleSet
  PROVE  Append(Others, x) \in Seq(HandleSet) /\ Append(Others, x) # <<>>
<1>1. Others \in Seq(HandleSet)
  BY LastAndOthers
<1> QED BY <1>1, Extended

LEMMA InitTypes == Init => TypesOK
<1> SUFFICES ASSUME Init PROVE TypesOK
  OBVIOUS
<1>1. StackOK(stack)
  BY RootIs DEF Init
<1>2. handles \in Seq(HandleSet) /\ ~dropping
  BY DEF Init
<1>3. unread \in 0 .. Length /\ stop \in -1 .. MaxDepth /\ entered \in 0 .. 2
  BY NumbersAssumption DEF Init
<1>4. error \in BOOLEAN /\ dropping \in BOOLEAN /\ failed \in BOOLEAN
  BY DEF Init
<1> QED BY <1>1, <1>2, <1>3, <1>4 DEF TypesOK

LEMMA NextTypes == TypesOK /\ [Next]_vars => TypesOK'
<1> SUFFICES ASSUME TypesOK, [Next]_vars PROVE TypesOK'
  OBVIOUS
<1>0. /\ StackOK(stack) /\ error \in BOOLEAN /\ unread \in 0 .. Length /\ handles \in Seq(HandleSet)
      /\ dropping \in BOOLEAN /\ (dropping => handles # <<>>)
      /\ stop \in -1 .. MaxDepth /\ failed \in BOOLEAN /\ entered \in 0 .. 2
  BY DEF TypesOK
<1>a. handles # <<>> => /\ LastHandle \in HandleSet /\ Others \in Seq(HandleSet) /\ LastHandle.len \in Nat
                        /\ LastHandle.kind \in 0 .. 15
  BY <1>0, LastAndOthers, HandleFields
<1>b. ASSUME handles # <<>>, LastHandle.len # 0
      PROVE  /\ [LastHandle EXCEPT !.len = @ - 1] \in HandleSet
             /\ Append(Others, [LastHandle EXCEPT !.len = @ - 1]) \in Seq(HandleSet)
             /\ Append(Others, [LastHandle EXCEPT !.len = @ - 1]) # <<>>
  <2>1. PICK n \in Nat : n = LastHandle.len - 1
    BY <1>a, <1>b
  <2>2. PICK x \in HandleSet : x = [LastHandle EXCEPT !.len = @ - 1]
    <3>1. [LastHandle EXCEPT !.len = n] \in HandleSet
      BY <1>a, <1>b, HandleFields
    <3> QED BY <2>1, <3>1
  <2> QED BY <1>0, <1>b, <2>2, Replaced
<1>c. ASSUME NEW h \in Seq(HandleSet), NEW x \in HandleSet
      PROVE  Append(h, x) \in Seq(HandleSet) /\ Append(h, x) # <<>>
  BY Extended
<1>d. ASSUME NEW o \in SingleStep(stack)
      PROVE  StackOK(o.st) /\ Read(o) \in 0 .. Length /\ o.len \in Nat /\ o.kind \in 0 .. 15
  BY <1>0, StepIs
<1>1. CASE EpeeEntry
  <2>1. handles' \in Seq(HandleSet)
    <3>1. Handle("entry", Object, 1) \in HandleSet
      BY MadeHandle DEF Object
    <3>2. PICK x \in HandleSet : x = Handle("entry", Object, 1)
      BY <3>1
    <3>3. <<x>> \in Seq(HandleSet)
      OBVIOUS
    <3> QED BY <1>0, <1>1, <3>2, <3>3 DEF EpeeEntry, Err
  <2>2. failed' \in BOOLEAN /\ UNCHANGED <<stack, error, unread, dropping, stop>>
    BY <1>0, <1>1 DEF EpeeEntry, Err
  <2>4. entered' \in 0 .. 2
    BY <1>0, <1>1 DEF EpeeEntry, Err
  <2>3. ~dropping
    BY <1>1 DEF EpeeEntry, Calls
  <2> QED BY <1>0, <2>1, <2>2, <2>3, <2>4 DEF TypesOK
<1>2. CASE Fields
  <2>0. ~dropping /\ handles # <<>>
    BY <1>2 DEF Fields, Calls
  <2>1. /\ UNCHANGED <<error, dropping, stop, entered>> /\ failed' \in BOOLEAN
        /\ StackOK(stack') /\ unread' \in 0 .. Length
    BY <1>0, <1>2, <1>d DEF Fields, Err
  <2>2. handles' \in Seq(HandleSet)
    <3>1. \/ handles' = Others
          \/ \E o \in SingleStep(stack) : handles' = Append(Others, Handle("fields", Entry, o.len))
      BY <1>2 DEF Fields, Err
    <3>2. CASE handles' = Others
      BY <1>a, <2>0, <3>2
    <3>3. ASSUME NEW o \in SingleStep(stack), handles' = Append(Others, Handle("fields", Entry, o.len))
          PROVE  handles' \in Seq(HandleSet)
      <4>1. Handle("fields", Entry, o.len) \in HandleSet
        <5>1. o.len \in Nat /\ Entry \in 0 .. 15
          BY <1>d DEF Entry
        <5> QED BY <5>1, MadeHandle
      <4> QED BY <1>a, <1>c, <2>0, <3>3, <4>1
    <3> QED BY <3>1, <3>2, <3>3
  <2> QED BY <1>0, <2>0, <2>1, <2>2 DEF TypesOK
<1>3. CASE NextField
  <2>0. ~dropping /\ handles # <<>>
    BY <1>3 DEF NextField, Calls
  <2>1. /\ UNCHANGED <<error, dropping, stop, entered>> /\ failed' \in BOOLEAN
        /\ StackOK(stack') /\ unread' \in 0 .. Length
    BY <1>0, <1>3, <1>d DEF NextField, Err
  <2>2. handles' \in Seq(HandleSet)
    <3>0. PICK r : r = Append(Others, [LastHandle EXCEPT !.len = @ - 1])
      OBVIOUS
    <3>1. \/ handles' = handles
          \/ LastHandle.len > 0 /\ handles' = r
          \/ LastHandle.len > 0 /\ \E o \in SingleStep(stack) : handles' = Append(r, Handle("entry", o.kind, o.len))
      BY <1>3, <3>0 DEF NextField, Err
    <3>2. LastHandle.len > 0 => r \in Seq(HandleSet)
      BY <1>b, <2>0, <3>0
    <3>3. ASSUME NEW o \in SingleStep(stack), LastHandle.len > 0, handles' = Append(r, Handle("entry", o.kind, o.len))
          PROVE  handles' \in Seq(HandleSet)
      <4>1. Handle("entry", o.kind, o.len) \in HandleSet
        BY <1>d, MadeHandle
      <4> QED BY <1>c, <3>2, <3>3, <4>1
    <3> QED BY <1>0, <3>1, <3>2, <3>3
  <2> QED BY <1>0, <2>0, <2>1, <2>2 DEF TypesOK
<1>4. CASE Iterate
  <2>0. ~dropping /\ handles # <<>>
    BY <1>4 DEF Iterate, Calls
  <2>1. /\ UNCHANGED <<stack, error, unread, dropping, stop, entered>> /\ failed' \in BOOLEAN
    BY <1>0, <1>4 DEF Iterate
  <2>2. PICK x \in HandleSet : x = [LastHandle EXCEPT !.is = "array"]
    BY <1>a, <2>0, HandleFields
  <2>3. handles' \in Seq(HandleSet)
    BY <1>4, <1>a, <1>c, <2>0, <2>2 DEF Iterate
  <2> QED BY <1>0, <2>0, <2>1, <2>3 DEF TypesOK
<1>5. CASE NextItem
  <2>0. ~dropping /\ handles # <<>>
    BY <1>5 DEF NextItem, Calls
  <2>1. /\ UNCHANGED <<stack, error, unread, dropping, stop, entered>> /\ failed' \in BOOLEAN
    BY <1>0, <1>5 DEF NextItem, Err
  <2>2. handles' \in Seq(HandleSet)
    <3>1. CASE handles' = handles
      BY <1>0, <3>1
    <3>2. CASE handles' # handles
      <4>1. /\ LastHandle.len > 0
            /\ handles' = Append(Append(Others, [LastHandle EXCEPT !.len = @ - 1]), Handle("entry", LastHandle.kind, 1))
        BY <1>5, <3>2 DEF NextItem, Err
      <4>2. PICK r : r = Append(Others, [LastHandle EXCEPT !.len = @ - 1])
        OBVIOUS
      <4>4. r \in Seq(HandleSet)
        <5>1. LastHandle.len # 0
          BY <4>1
        <5> QED BY <1>b, <2>0, <4>2, <5>1
      <4>3. Handle("entry", LastHandle.kind, 1) \in HandleSet
        BY <1>a, <2>0, MadeHandle
      <4> QED BY <1>c, <4>1, <4>2, <4>3, <4>4
    <3> QED BY <3>1, <3>2
  <2> QED BY <1>0, <2>0, <2>1, <2>2 DEF TypesOK
<1>6. CASE ToValue
  <2>0. ~dropping /\ handles # <<>>
    BY <1>6 DEF ToValue, Calls
  <2>1. UNCHANGED <<error, stop, entered>> /\ failed' \in BOOLEAN /\ dropping' \in BOOLEAN
    BY <1>0, <1>6 DEF ToValue, Err
  <2>2. unread' \in 0 .. Length
    BY <1>0, <1>6, NumbersAssumption DEF ToValue, Err
  <2>3. StackOK(stack')
    <3>1. stack' = stack \/ (stack.depth # 0 /\ stack' = Pop(stack))
      BY <1>6 DEF ToValue
    <3>2. stack.depth # 0 => stack.depth > 0
      BY <1>0, StackFields, NumbersAssumption
    <3> QED BY <1>0, <3>1, <3>2, PopIs
  <2>4. handles' \in Seq(HandleSet) /\ (dropping' => handles' # <<>>)
    BY <1>0, <1>6, <1>a, <2>0 DEF ToValue, Err
  <2> QED BY <1>0, <2>1, <2>2, <2>3, <2>4 DEF TypesOK
<1>7. CASE DropBegin
  BY <1>0, <1>7 DEF DropBegin, TypesOK
<1>8. CASE DropStep
  <2>0. dropping /\ handles # <<>> /\ LastHandle.len # 0
    BY <1>0, <1>8 DEF DropStep
  <2>1. UNCHANGED <<dropping, failed, entered>> /\ error' \in BOOLEAN /\ StackOK(stack') /\ unread' \in 0 .. Length
    BY <1>0, <1>8, <1>d DEF DropStep
  <2>2. handles' \in Seq(HandleSet) /\ handles' # <<>>
    BY <1>0, <1>8, <1>b, <2>0 DEF DropStep, Stepped
  <2>3. stop' \in -1 .. MaxDepth
    <3>1. StopAtStackDepth(stack) \in -1 .. MaxDepth
      BY <1>0, StackFields, NumbersAssumption DEF StopAtStackDepth
    <3>2. stop' \in {-1, stop, StopAtStackDepth(stack)}
      BY <1>8 DEF DropStep, Stepped
    <3> QED BY <1>0, <3>1, <3>2, NumbersAssumption
  <2> QED BY <1>0, <2>1, <2>2, <2>3 DEF TypesOK
<1>9. CASE DropEnd
  <2>0. dropping /\ handles # <<>>
    BY <1>0, <1>9 DEF DropEnd
  <2> QED BY <1>0, <1>9, <1>a, <2>0 DEF DropEnd, TypesOK
<1>10. CASE UNCHANGED vars
  BY <1>0, <1>10 DEF vars, TypesOK
<1> QED BY <1>1, <1>2, <1>3, <1>4, <1>5, <1>6, <1>7, <1>8, <1>9, <1>10
        DEF Next, Client, Dropping, Terminated

\* Epee, "written not to panic in any case": no step indexes outside of the stack's arrays, leaves a
\* NonZero amount zero or a type which does not exist.
THEOREM TypeCorrect == Spec => []TypeOK
<1>1. TypesOK => TypeOK
  <2> SUFFICES ASSUME TypesOK PROVE TypeOK
    OBVIOUS
  <2>1. /\ stack.types \in [0 .. Bytes - 1 -> 0 .. 255] /\ stack.amounts \in [0 .. MaxDepth - 1 -> Nat \ {0}]
        /\ stack.depth \in 0 .. MaxDepth
    BY StackFields DEF TypesOK
  <2>2. DOMAIN stack.amounts = 0 .. MaxDepth - 1 /\ \A i \in DOMAIN stack.amounts : stack.amounts[i] > 0
    <3>1. ASSUME NEW n \in Nat \ {0} PROVE n > 0
      OBVIOUS
    <3> QED BY <2>1, <3>1
  <2>4. DOMAIN stack.types = 0 .. Bytes - 1 /\ \A b \in DOMAIN stack.types : stack.types[b] \in 0 .. 255
    BY <2>1
  <2>3. \A i \in 1 .. Len(handles) : handles[i].is \in {"entry", "fields", "array"} /\ handles[i].len \in Nat
    <3>1. \A i \in 1 .. Len(handles) : handles[i] \in HandleSet
      BY DEF TypesOK
    <3> QED BY <3>1, HandleFields
  <2> QED BY <2>1, <2>2, <2>3, <2>4 DEF TypesOK, TypeOK, StackOK, Bytes
<1>2. Spec => []TypesOK
  BY InitTypes, NextTypes, PTL DEF Spec
<1> QED BY <1>1, <1>2, PTL

---------------------------------------------------------------------------------
(* Where the handles stand. *)

Layers == [below : Seq(SlotSet), top : SlotSet]
Bottom == [below |-> <<>>, top |-> Slot(Entry, 0)]

\* Whether x, borrowed from the last of h, was given out by it as an item.
GivenTo(h, x) == h # <<>> /\ h[Len(h)].is = "array" /\ x.is # "fields"

\* The layers of one handle more.
Laid(s, given, x) ==
  IF given THEN [s EXCEPT !.top.amount = @ + x.len]
  ELSE [below |-> Settled(s), top |-> Slot(x.kind, x.len)]

\* The layers of the handles, one after the other.
GivenAt(h, i) == i > 1 /\ h[i - 1].is = "array" /\ h[i].is # "fields"
LayersOf(h, f) == f[0] = Bottom /\ \A i \in 1 .. Len(h) : f[i] = Laid(f[i - 1], GivenAt(h, i), h[i])
Lays(h, s) == \E f \in [0 .. Len(h) -> Layers] : LayersOf(h, f) /\ s = f[Len(h)]

Layer(b, kind, n) == [below |-> b, top |-> Slot(kind, n)]

LEMMA LayerFields ==
  ASSUME NEW s \in Layers
  PROVE  /\ s.below \in Seq(SlotSet) /\ s.top \in SlotSet /\ s.top.kind \in 0 .. 15 /\ s.top.amount \in Nat
         /\ s = Layer(s.below, s.top.kind, s.top.amount)
  BY DEF Layers, SlotSet, Slot, Layer

LEMMA MadeLayer ==
  ASSUME NEW b \in Seq(SlotSet), NEW k \in 0 .. 15, NEW n \in Nat
  PROVE  /\ Slot(k, n) \in SlotSet /\ Slot(k, n).kind = k /\ Slot(k, n).amount = n
         /\ Layer(b, k, n) \in Layers
<1>1. Slot(k, n) \in SlotSet /\ Slot(k, n).kind = k /\ Slot(k, n).amount = n
  BY DEF SlotSet, Slot
<1>2. PICK x \in SlotSet : x = Slot(k, n)
  BY <1>1
<1> HIDE DEF SlotSet
<1>3. [below |-> b, top |-> x] \in Layers
  BY DEF Layers
<1> QED BY <1>1, <1>2, <1>3 DEF Layer

LEMMA SettledIs ==
  ASSUME NEW b \in Seq(SlotSet), NEW k \in 0 .. 15, NEW n \in Nat
  PROVE  /\ Settled(Layer(b, k, n)) = IF n = 0 THEN b ELSE Append(b, Slot(k, n))
         /\ Settled(Layer(b, k, n)) \in Seq(SlotSet)
<1>0. PICK s : s = Layer(b, k, n)
  OBVIOUS
<1>1. s.below = b /\ s.top = Slot(k, n) /\ Slot(k, n).amount = n /\ Slot(k, n) \in SlotSet
  BY <1>0, MadeLayer DEF Layer
<1>2. Settled(s) = IF n = 0 THEN b ELSE Append(b, Slot(k, n))
  BY <1>1 DEF Settled
<1>3. Append(b, Slot(k, n)) \in Seq(SlotSet)
  BY <1>1, Extended
<1> QED BY <1>0, <1>2, <1>3

LEMMA SettledType == ASSUME NEW s \in Layers PROVE Settled(s) \in Seq(SlotSet)
<1>1. PICK b \in Seq(SlotSet), k \in 0 .. 15, n \in Nat : s = Layer(b, k, n)
  BY LayerFields
<1> QED BY <1>1, SettledIs

\* What a handle adds to those before.
LEMMA LaidGiven ==
  ASSUME NEW b \in Seq(SlotSet), NEW k \in 0 .. 15, NEW n \in Nat, NEW x \in HandleSet
  PROVE  Laid(Layer(b, k, n), TRUE, x) = Layer(b, k, n + x.len) /\ n + x.len \in Nat
<1>0. PICK l \in Nat : l = x.len
  BY HandleFields
<1>1. PICK m \in Nat : m = n + x.len
  BY <1>0
<1>2. PICK s : s = Layer(b, k, n)
  OBVIOUS
<1>3. s = [below |-> b, top |-> [kind |-> k, amount |-> n]] /\ s.top.amount = n
  BY <1>2 DEF Layer, Slot
<1>4. Laid(s, TRUE, x) = [s EXCEPT !.top.amount = m]
  BY <1>1, <1>3 DEF Laid
<1>5. [s EXCEPT !.top.amount = m] = Layer(b, k, m)
  BY <1>3 DEF Layer, Slot
<1> QED BY <1>1, <1>2, <1>4, <1>5

LEMMA LaidNew ==
  ASSUME NEW s, NEW x
  PROVE  Laid(s, FALSE, x) = Layer(Settled(s), x.kind, x.len)
  BY DEF Laid, Layer

LEMMA LaidType ==
  ASSUME NEW s \in Layers, NEW x \in HandleSet, NEW given \in BOOLEAN
  PROVE  Laid(s, given, x) \in Layers
<1>1. PICK b \in Seq(SlotSet), k \in 0 .. 15, n \in Nat : s = Layer(b, k, n)
  BY LayerFields
<1>2. PICK j \in 0 .. 15, l \in Nat : j = x.kind /\ l = x.len
  BY HandleFields
<1>3. Laid(s, TRUE, x) \in Layers
  <2>1. PICK m \in Nat : m = n + x.len
    BY <1>2
  <2>2. Laid(s, TRUE, x) = Layer(b, k, m)
    BY <1>1, <2>1, LaidGiven
  <2>3. Layer(b, k, m) \in Layers
    BY MadeLayer
  <2> QED BY <2>2, <2>3
<1>4. Laid(s, FALSE, x) \in Layers
  <2>1. PICK c \in Seq(SlotSet) : c = Settled(s)
    BY SettledType
  <2>2. Laid(s, FALSE, x) = Layer(c, j, l)
    BY <1>2, <2>1, LaidNew
  <2>3. Layer(c, j, l) \in Layers
    BY MadeLayer
  <2> QED BY <2>2, <2>3
<1> QED BY <1>3, <1>4

LEMMA PoppedAppend ==
  ASSUME NEW b \in Seq(SlotSet), NEW k \in 0 .. 15, NEW n \in Nat
  PROVE  /\ Popped(Append(b, Slot(k, n + 1))) = IF n = 0 THEN b ELSE Append(b, Slot(k, n))
         /\ Len(Append(b, Slot(k, n + 1))) > 0
<1>1. PICK m \in Nat : m = n + 1
  OBVIOUS
<1>2. PICK l \in Nat : l = Len(b)
  OBVIOUS
<1>3. PICK x : x = Slot(k, m)
  OBVIOUS
<1>4. x \in SlotSet /\ x.kind = k /\ x.amount = m
  BY <1>3, MadeLayer
<1>5. PICK s : s = Append(b, x)
  OBVIOUS
<1>6. /\ s \in Seq(SlotSet) /\ Len(s) = l + 1 /\ s[l + 1] = x /\ \A i \in 1 .. l : s[i] = b[i]
  BY <1>2, <1>4, <1>5, Extended
<1>7. l + 1 \in Nat /\ l + 1 > 0 /\ (l + 1) - 1 = l
  OBVIOUS
<1>8. PICK p : p = Popped(s)
  OBVIOUS
<1>9. /\ p \in Seq(SlotSet) /\ \A i \in 1 .. l : p[i] = b[i]
      /\ m > 1 => Len(p) = l + 1 /\ p[l + 1] = [x EXCEPT !.amount = @ - 1]
      /\ ~(m > 1) => Len(p) = l
  <2>1. PICK c \in Nat : c = l + 1 /\ c > 0
    BY <1>7
  <2>2. Len(s) = c /\ s[c] = x
    BY <1>6, <2>1
  <2>3. /\ p \in Seq(SlotSet) /\ \A i \in 1 .. c - 1 : p[i] = s[i]
    BY <1>6, <1>8, <2>1, <2>2, PoppedIs, ZenonT(40)
  <2>4. s[c].amount > 1 => Len(p) = c /\ p[c] = [s[c] EXCEPT !.amount = @ - 1]
    BY <1>6, <1>8, <2>1, <2>2, PoppedIs
  <2>5. ~(s[c].amount > 1) => Len(p) = c - 1
    BY <1>6, <1>8, <2>1, <2>2, PoppedIs
  <2>6. c - 1 = l
    BY <2>1
  <2> QED BY <1>4, <1>6, <2>1, <2>2, <2>3, <2>4, <2>5, <2>6
<1>10. CASE n = 0
  <2>1. Len(p) = l
    BY <1>1, <1>9, <1>10
  <2>2. p = b
    BY <1>2, <1>9, <2>1, SameSequence
  <2> QED BY <1>1, <1>3, <1>5, <1>6, <1>7, <1>8, <1>10, <2>2
<1>11. CASE n # 0
  <2>1. Len(p) = l + 1 /\ p[l + 1] = [x EXCEPT !.amount = @ - 1]
    BY <1>1, <1>9, <1>11
  <2>2. [x EXCEPT !.amount = @ - 1] = Slot(k, n)
    BY <1>1, <1>3 DEF Slot
  <2>3. PICK t : t = Append(b, Slot(k, n))
    OBVIOUS
  <2>4. Slot(k, n) \in SlotSet
    BY MadeLayer
  <2>5. t \in Seq(SlotSet) /\ Len(t) = l + 1 /\ t[l + 1] = Slot(k, n) /\ \A i \in 1 .. l : t[i] = b[i]
    BY <1>2, <2>3, <2>4, Extended
  <2>6. \A i \in 1 .. l + 1 : p[i] = t[i]
    <3>1. \A i \in 1 .. l + 1 : i = l + 1 \/ i \in 1 .. l
      OBVIOUS
    <3>2. p[l + 1] = t[l + 1] /\ \A i \in 1 .. l : p[i] = t[i]
      BY <1>9, <2>1, <2>2, <2>5
    <3> QED BY <3>1, <3>2
  <2>7. p = t
    BY <1>7, <1>9, <2>1, <2>5, <2>6, SameSequence
  <2> QED BY <1>1, <1>3, <1>5, <1>6, <1>7, <1>8, <1>11, <2>3, <2>7
<1> QED BY <1>10, <1>11

Less(x, y) == x.len # 0 /\ y = [x EXCEPT !.len = @ - 1]

\* A handle with one item less: the same layers, with one less on top.
LEMMA OneLess ==
  ASSUME NEW r \in Layers, NEW given \in BOOLEAN, NEW x \in HandleSet, NEW y \in HandleSet,
         Less(x, y)
  PROVE  \E c \in Seq(SlotSet), j \in 0 .. 15, q \in Nat :
           Laid(r, given, x) = Layer(c, j, q + 1) /\ Laid(r, given, y) = Layer(c, j, q)
<1>1. PICK b \in Seq(SlotSet), k \in 0 .. 15, m \in Nat : r = Layer(b, k, m)
  BY LayerFields
<1>a. PICK l \in Nat : l = x.len
  BY HandleFields
<1>0. PICK n \in Nat : x.len = n + 1 /\ n = x.len - 1
  BY <1>a DEF Less
<1>2. y.len = n /\ y.kind = x.kind /\ x.kind \in 0 .. 15
  BY <1>0, HandleFields DEF HandleSet, Less
<1>c1. CASE given
  <2>1. Laid(r, given, x) = Layer(b, k, m + x.len)
    BY <1>1, <1>c1, LaidGiven
  <2>2. Laid(r, given, y) = Layer(b, k, m + y.len)
    BY <1>1, <1>c1, LaidGiven
  <2>3. PICK q \in Nat : q = m + n /\ m + x.len = q + 1
    BY <1>0
  <2> QED BY <1>2, <2>1, <2>2, <2>3
<1>c2. CASE ~given
  <2>1. Laid(r, given, x) = Layer(Settled(r), x.kind, x.len)
    BY <1>1, <1>c2, LaidNew
  <2>2. Laid(r, given, y) = Layer(Settled(r), y.kind, y.len)
    BY <1>1, <1>c2, LaidNew
  <2>3. Settled(r) \in Seq(SlotSet)
    BY SettledType
  <2> QED BY <1>0, <1>2, <2>1, <2>2, <2>3
<1> QED BY <1>c1, <1>c2

\* To read one of what a handle has left is to pop one slot of the stack.
LEMMA OneTaken ==
  ASSUME NEW r \in Layers, NEW given \in BOOLEAN, NEW x \in HandleSet, NEW y \in HandleSet,
         Less(x, y)
  PROVE  /\ Popped(Settled(Laid(r, given, x))) = Settled(Laid(r, given, y))
         /\ Len(Settled(Laid(r, given, x))) > 0
<1>3. PICK c \in Seq(SlotSet), j \in 0 .. 15, q \in Nat :
        Laid(r, given, x) = Layer(c, j, q + 1) /\ Laid(r, given, y) = Layer(c, j, q)
  BY OneLess
<1>4. PICK q1 \in Nat : q1 = q + 1 /\ q1 # 0
  OBVIOUS
<1>5. Settled(Laid(r, given, x)) = Append(c, Slot(j, q1))
  <2>1. Laid(r, given, x) = Layer(c, j, q1)
    BY <1>3, <1>4
  <2>2. Settled(Layer(c, j, q1)) = Append(c, Slot(j, q1))
    BY <1>4, SettledIs
  <2> QED BY <2>1, <2>2
<1>6. Settled(Laid(r, given, y)) = IF q = 0 THEN c ELSE Append(c, Slot(j, q))
  <2>1. Settled(Layer(c, j, q)) = IF q = 0 THEN c ELSE Append(c, Slot(j, q))
    BY SettledIs
  <2> QED BY <1>3, <2>1
<1>7. Popped(Append(c, Slot(j, q + 1))) = IF q = 0 THEN c ELSE Append(c, Slot(j, q))
  BY PoppedAppend
<1>8. Len(Append(c, Slot(j, q + 1))) > 0
  BY PoppedAppend
<1> QED BY <1>4, <1>5, <1>6, <1>7, <1>8

\* A handle with nothing left stands where those before it do.
LEMMA NoneLeft ==
  ASSUME NEW r \in Layers, NEW given \in BOOLEAN, NEW x \in HandleSet, x.len = 0
  PROVE  Settled(Laid(r, given, x)) = Settled(r)
<1>1. PICK b \in Seq(SlotSet), k \in 0 .. 15, m \in Nat : r = Layer(b, k, m)
  BY LayerFields
<1>2. CASE given
  <2>1. Laid(r, given, x) = Layer(b, k, m + x.len)
    BY <1>1, <1>2, LaidGiven
  <2>2. m + x.len = m
    OBVIOUS
  <2> QED BY <1>1, <2>1, <2>2
<1>3. CASE ~given
  <2>1. Laid(r, given, x) = Layer(Settled(r), x.kind, x.len)
    BY <1>1, <1>3, LaidNew
  <2>2. Laid(r, given, x).below = Settled(r) /\ Laid(r, given, x).top.amount = 0
    BY <2>1 DEF Slot, Layer
  <2> QED BY <2>2 DEF Settled
<1> QED BY <1>2, <1>3

LEMMA BottomIs == Bottom \in Layers /\ Settled(Bottom) = <<>>
<1>1. <<>> \in Seq(SlotSet) /\ Entry \in 0 .. 15 /\ 0 \in Nat
  BY DEF Entry
<1>2. Bottom = Layer(<<>>, Entry, 0)
  BY DEF Bottom, Layer
<1>3. Layer(<<>>, Entry, 0) \in Layers
  BY <1>1, MadeLayer
<1>4. Settled(Layer(<<>>, Entry, 0)) = <<>>
  BY <1>1, SettledIs
<1> QED BY <1>2, <1>3, <1>4

\* Without handles there is nothing left.
LEMMA LaysNone == ASSUME NEW s PROVE Lays(<<>>, s) <=> s = Bottom
<1>1. Len(<<>>) = 0 /\ 0 .. 0 = {0} /\ 1 .. 0 = {}
  OBVIOUS
<1>2. ASSUME Lays(<<>>, s) PROVE s = Bottom
  BY <1>1, <1>2 DEF Lays, LayersOf
<1>3. ASSUME s = Bottom PROVE Lays(<<>>, s)
  <2> DEFINE f == [i \in {0} |-> Bottom]
  <2>1. f \in [0 .. 0 -> Layers] /\ f[0] = Bottom
    BY <1>1, BottomIs
  <2>2. LayersOf(<<>>, f)
    BY <1>1, <2>1 DEF LayersOf
  <2> HIDE DEF f
  <2> QED BY <1>1, <1>3, <2>1, <2>2 DEF Lays
<1> QED BY <1>2, <1>3

LEMMA GivenLast ==
  ASSUME NEW h \in Seq(HandleSet), NEW x \in HandleSet, NEW n \in Nat, n = Len(h)
  PROVE  /\ GivenAt(Append(h, x), n + 1) <=> GivenTo(h, x)
         /\ \A i \in 1 .. n : GivenAt(Append(h, x), i) <=> GivenAt(h, i)
<1>1. PICK t : t = Append(h, x)
  OBVIOUS
<1>2. t[n + 1] = x /\ \A i \in 1 .. n : t[i] = h[i]
  BY <1>1, Extended
<1>3. GivenAt(t, n + 1) <=> GivenTo(h, x)
  <2>1. CASE n = 0
    <3>1. h = <<>>
      BY <2>1, EmptySequence
    <3>2. ~(n + 1 > 1)
      BY <2>1
    <3> QED BY <3>1, <3>2 DEF GivenAt, GivenTo
  <2>2. CASE n # 0
    <3>1. h # <<>>
      BY <2>2
    <3>2. n + 1 > 1 /\ (n + 1) - 1 = n /\ n \in 1 .. n
      BY <2>2
    <3>3. t[(n + 1) - 1] = h[n] /\ t[n + 1] = x
      BY <1>2, <3>2
    <3> QED BY <3>1, <3>2, <3>3 DEF GivenAt, GivenTo
  <2> QED BY <2>1, <2>2
<1>4. ASSUME NEW i \in 1 .. n PROVE GivenAt(t, i) <=> GivenAt(h, i)
  <2>1. i > 1 => i - 1 \in 1 .. n
    OBVIOUS
  <2>2. t[i] = h[i] /\ (i > 1 => t[i - 1] = h[i - 1])
    BY <1>2, <2>1
  <2> QED BY <2>2 DEF GivenAt
<1> QED BY <1>1, <1>3, <1>4

\* One handle more.
LEMMA LaysMore ==
  ASSUME NEW h \in Seq(HandleSet), NEW x \in HandleSet, NEW r \in Layers, Lays(h, r)
  PROVE  Lays(Append(h, x), Laid(r, GivenTo(h, x), x)) /\ Laid(r, GivenTo(h, x), x) \in Layers
<1>1. PICK n \in Nat : n = Len(h)
  OBVIOUS
<1>2. PICK t : t = Append(h, x)
  OBVIOUS
<1>3. Len(t) = n + 1 /\ t[n + 1] = x /\ \A i \in 1 .. n : t[i] = h[i]
  BY <1>1, <1>2, Extended
<1>4. PICK s : s = Laid(r, GivenTo(h, x), x)
  OBVIOUS
<1>5. s \in Layers
  BY <1>4, LaidType DEF GivenTo
<1>6. PICK f \in [0 .. n -> Layers] : LayersOf(h, f) /\ r = f[n]
  BY <1>1 DEF Lays
<1> DEFINE g == [i \in 0 .. n + 1 |-> IF i = n + 1 THEN s ELSE f[i]]
<1>7. g \in [0 .. n + 1 -> Layers] /\ g[n + 1] = s /\ \A i \in 0 .. n : g[i] = f[i]
  <2>1. \A i \in 0 .. n + 1 : i = n + 1 \/ i \in 0 .. n
    OBVIOUS
  <2>2. n + 1 \in 0 .. n + 1 /\ \A i \in 0 .. n : i \in 0 .. n + 1 /\ i # n + 1
    OBVIOUS
  <2> QED BY <1>5, <2>1, <2>2
<1> HIDE DEF g
<1>8. g[0] = Bottom
  <2>1. 0 \in 0 .. n
    OBVIOUS
  <2> QED BY <1>6, <1>7, <2>1 DEF LayersOf
<1>9. ASSUME NEW i \in 1 .. n + 1 PROVE g[i] = Laid(g[i - 1], GivenAt(t, i), t[i])
  <2>1. CASE i = n + 1
    <3>1. i - 1 = n /\ n \in 0 .. n
      BY <2>1
    <3>2. GivenAt(t, i) = GivenTo(h, x)
      <4>1. GivenAt(t, n + 1) <=> GivenTo(h, x)
        BY <1>1, <1>2, GivenLast
      <4> QED BY <2>1, <4>1 DEF GivenAt, GivenTo
    <3>3. g[i] = s /\ g[i - 1] = r /\ t[i] = x
      BY <1>3, <1>6, <1>7, <2>1, <3>1
    <3> QED BY <1>4, <3>2, <3>3
  <2>2. CASE i # n + 1
    <3>1. i \in 1 .. n /\ i \in 0 .. n /\ i - 1 \in 0 .. n
      BY <2>2
    <3>2. GivenAt(t, i) = GivenAt(h, i)
      <4>1. GivenAt(t, i) <=> GivenAt(h, i)
        BY <1>1, <1>2, <3>1, GivenLast
      <4> QED BY <4>1 DEF GivenAt
    <3>3. f[i] = Laid(f[i - 1], GivenAt(h, i), h[i])
      BY <1>1, <1>6, <3>1 DEF LayersOf
    <3> QED BY <1>3, <1>7, <3>1, <3>2, <3>3
  <2> QED BY <2>1, <2>2
<1>10. LayersOf(t, g)
  BY <1>3, <1>8, <1>9 DEF LayersOf
<1>11. Lays(t, s)
  BY <1>3, <1>7, <1>10 DEF Lays
<1> QED BY <1>2, <1>4, <1>5, <1>11

\* One handle less.
LEMMA LaysLess ==
  ASSUME NEW h \in Seq(HandleSet), NEW x \in HandleSet, NEW s, Lays(Append(h, x), s)
  PROVE  \E r \in Layers : Lays(h, r) /\ s = Laid(r, GivenTo(h, x), x)
<1>1. PICK n \in Nat : n = Len(h)
  OBVIOUS
<1>2. PICK t : t = Append(h, x)
  OBVIOUS
<1>3. Len(t) = n + 1 /\ t[n + 1] = x /\ \A i \in 1 .. n : t[i] = h[i]
  BY <1>1, <1>2, Extended
<1>4. PICK g \in [0 .. n + 1 -> Layers] : LayersOf(t, g) /\ s = g[n + 1]
  BY <1>2, <1>3 DEF Lays
<1>5. g[0] = Bottom /\ \A i \in 1 .. n + 1 : g[i] = Laid(g[i - 1], GivenAt(t, i), t[i])
  BY <1>3, <1>4 DEF LayersOf
<1> DEFINE f == [i \in 0 .. n |-> g[i]]
<1>6. f \in [0 .. n -> Layers] /\ \A i \in 0 .. n : f[i] = g[i]
  <2>1. \A i \in 0 .. n : i \in 0 .. n + 1
    OBVIOUS
  <2> QED BY <2>1
<1> HIDE DEF f
<1>7. 0 \in 0 .. n /\ n \in 0 .. n /\ (n + 1) - 1 = n /\ n + 1 \in 1 .. n + 1
  OBVIOUS
<1>8. ASSUME NEW i \in 1 .. n PROVE f[i] = Laid(f[i - 1], GivenAt(h, i), h[i])
  <2>1. i \in 1 .. n + 1 /\ i \in 0 .. n /\ i - 1 \in 0 .. n
    OBVIOUS
  <2>2. GivenAt(t, i) = GivenAt(h, i)
    <3>1. GivenAt(t, i) <=> GivenAt(h, i)
      BY <1>1, <1>2, GivenLast
    <3> QED BY <3>1 DEF GivenAt
  <2> QED BY <1>3, <1>5, <1>6, <2>1, <2>2
<1>9. LayersOf(h, f)
  BY <1>1, <1>5, <1>6, <1>7, <1>8 DEF LayersOf
<1>10. Lays(h, f[n]) /\ f[n] \in Layers
  BY <1>1, <1>6, <1>7, <1>9 DEF Lays
<1>11. GivenAt(t, n + 1) = GivenTo(h, x)
  <2>1. GivenAt(t, n + 1) <=> GivenTo(h, x)
    BY <1>1, <1>2, GivenLast
  <2> QED BY <2>1 DEF GivenAt, GivenTo
<1>12. s = Laid(f[n], GivenTo(h, x), x)
  BY <1>3, <1>4, <1>5, <1>6, <1>7, <1>11
<1> QED BY <1>10, <1>12

\* The handles h stand where what is left to decode is q.
Stands(h, q) == \E s \in Layers : Lays(h, s) /\ q = Settled(s)

LEMMA StandsType == ASSUME NEW h, NEW q, Stands(h, q) PROVE q \in Seq(SlotSet)
  BY SettledType DEF Stands

LEMMA StandsNone == ASSUME NEW q PROVE Stands(<<>>, q) <=> q = <<>>
  BY LaysNone, BottomIs DEF Stands

\* A handle with one less, a slot with one less.
LEMMA StandsLess ==
  ASSUME NEW h \in Seq(HandleSet), NEW x \in HandleSet, NEW y \in HandleSet, Less(x, y),
         NEW q, Stands(Append(h, x), q)
  PROVE  Len(q) > 0 /\ Stands(Append(h, y), Popped(q))
<1>1. PICK s \in Layers : Lays(Append(h, x), s) /\ q = Settled(s)
  BY DEF Stands
<1>2. PICK r \in Layers : Lays(h, r) /\ s = Laid(r, GivenTo(h, x), x)
  BY <1>1, LaysLess
<1>3. PICK g \in BOOLEAN : g = GivenTo(h, x) /\ g = GivenTo(h, y)
  <2>1. x.is = y.is
    BY DEF Less, HandleSet
  <2> QED BY <2>1 DEF GivenTo
<1>4. Popped(Settled(Laid(r, g, x))) = Settled(Laid(r, g, y)) /\ Len(Settled(Laid(r, g, x))) > 0
  BY OneTaken
<1>5. Lays(Append(h, y), Laid(r, g, y)) /\ Laid(r, g, y) \in Layers
  BY <1>2, <1>3, LaysMore
<1> QED BY <1>1, <1>2, <1>3, <1>4, <1>5 DEF Stands

\* A handle with nothing left.
LEMMA StandsEnd ==
  ASSUME NEW h \in Seq(HandleSet), NEW x \in HandleSet, x.len = 0, NEW q, Stands(Append(h, x), q)
  PROVE  Stands(h, q)
<1>1. PICK s \in Layers : Lays(Append(h, x), s) /\ q = Settled(s)
  BY DEF Stands
<1>2. PICK r \in Layers : Lays(h, r) /\ s = Laid(r, GivenTo(h, x), x)
  BY <1>1, LaysLess
<1>3. GivenTo(h, x) \in BOOLEAN
  BY DEF GivenTo
<1>4. Settled(Laid(r, GivenTo(h, x), x)) = Settled(r)
  BY <1>3, NoneLeft
<1> QED BY <1>1, <1>2, <1>4 DEF Stands

\* The last item of a handle is read.
LEMMA StandsRead ==
  ASSUME NEW h \in Seq(HandleSet), NEW x \in HandleSet, x.len = 1, NEW q, Stands(Append(h, x), q)
  PROVE  Len(q) > 0 /\ Stands(h, Popped(q))
<1>1. PICK y : y = [x EXCEPT !.len = @ - 1]
  OBVIOUS
<1>a. y = [x EXCEPT !.len = 0] /\ 0 \in Nat
  BY <1>1
<1>b. y \in HandleSet /\ y.len = 0
  BY <1>a, HandleFields DEF HandleSet
<1>2. y \in HandleSet /\ Less(x, y) /\ y.len = 0
  BY <1>1, <1>b DEF Less
<1>3. Len(q) > 0 /\ Stands(Append(h, y), Popped(q))
  BY <1>2, StandsLess
<1> QED BY <1>2, <1>3, StandsEnd

\* A handle of what was pushed.
LEMMA StandsMore ==
  ASSUME NEW h \in Seq(HandleSet), NEW x \in HandleSet, ~GivenTo(h, x), NEW q, Stands(h, q)
  PROVE  Stands(Append(h, x), IF x.len = 0 THEN q ELSE Append(q, Slot(x.kind, x.len)))
<1>1. PICK r \in Layers : Lays(h, r) /\ q = Settled(r)
  BY DEF Stands
<1>2. PICK s : s = Laid(r, GivenTo(h, x), x)
  OBVIOUS
<1>3. Lays(Append(h, x), s) /\ s \in Layers
  BY <1>1, <1>2, LaysMore
<1>4. s = Layer(q, x.kind, x.len)
  <2>1. GivenTo(h, x) = FALSE
    BY DEF GivenTo
  <2> QED BY <1>1, <1>2, <2>1, LaidNew
<1>5. Settled(Layer(q, x.kind, x.len)) = IF x.len = 0 THEN q ELSE Append(q, Slot(x.kind, x.len))
  <2>1. PICK b \in Seq(SlotSet), k \in 0 .. 15, n \in Nat : b = q /\ k = x.kind /\ n = x.len
    BY <1>1, SettledType, HandleFields
  <2>2. Settled(Layer(b, k, n)) = IF n = 0 THEN b ELSE Append(b, Slot(k, n))
    BY SettledIs
  <2> QED BY <2>1, <2>2
<1> QED BY <1>3, <1>4, <1>5 DEF Stands

\* An entry becomes an iterator.
LEMMA StandsSame ==
  ASSUME NEW h \in Seq(HandleSet), NEW x \in HandleSet, NEW y \in HandleSet, x.is # "fields", y.is # "fields",
         y.kind = x.kind, y.len = x.len, NEW q, Stands(Append(h, x), q)
  PROVE  Stands(Append(h, y), q)
<1>1. PICK s \in Layers : Lays(Append(h, x), s) /\ q = Settled(s)
  BY DEF Stands
<1>2. PICK r \in Layers : Lays(h, r) /\ s = Laid(r, GivenTo(h, x), x)
  BY <1>1, LaysLess
<1>3. GivenTo(h, x) = GivenTo(h, y)
  BY DEF GivenTo
<1>4. Laid(r, GivenTo(h, x), x) = Laid(r, GivenTo(h, y), y)
  BY <1>3 DEF Laid
<1>5. Lays(Append(h, y), Laid(r, GivenTo(h, y), y)) /\ Laid(r, GivenTo(h, y), y) \in Layers
  BY <1>2, LaysMore
<1> QED BY <1>1, <1>2, <1>4, <1>5 DEF Stands

\* An item is given out: what is left is as before.
LEMMA StandsItem ==
  ASSUME NEW h \in Seq(HandleSet), NEW x \in HandleSet, NEW y \in HandleSet, Less(x, y), x.is = "array",
         NEW z \in HandleSet, z.is = "entry", z.len = 1, NEW q, Stands(Append(h, x), q)
  PROVE  Stands(Append(Append(h, y), z), q)
<1>1. PICK s \in Layers : Lays(Append(h, x), s) /\ q = Settled(s)
  BY DEF Stands
<1>2. PICK r \in Layers : Lays(h, r) /\ s = Laid(r, GivenTo(h, x), x)
  BY <1>1, LaysLess
<1>a. y.is = "array"
  BY DEF Less, HandleSet
<1>3. PICK g \in BOOLEAN : g = GivenTo(h, x) /\ g = GivenTo(h, y)
  BY <1>a DEF GivenTo
<1>4. PICK c \in Seq(SlotSet), j \in 0 .. 15, m \in Nat :
        Laid(r, g, x) = Layer(c, j, m + 1) /\ Laid(r, g, y) = Layer(c, j, m)
  BY OneLess
<1>5. PICK t \in Layers : t = Laid(r, g, y) /\ Lays(Append(h, y), t)
  BY <1>2, <1>3, LaysMore
<1>6. PICK hy \in Seq(HandleSet) : hy = Append(h, y)
  <2>1. Append(h, y) \in Seq(HandleSet)
    BY Extended
  <2> QED BY <2>1
<1>7. GivenTo(hy, z) = TRUE
  <2>1. hy # <<>> /\ hy[Len(hy)] = y
    <3>1. /\ Append(h, y) # <<>> /\ Len(Append(h, y)) = Len(h) + 1 /\ Append(h, y)[Len(h) + 1] = y
      BY Extended
    <3> QED BY <1>6, <3>1
  <2>2. z.is # "fields"
    OBVIOUS
  <2> QED BY <1>a, <2>1, <2>2 DEF GivenTo
<1>8. Lays(Append(hy, z), Laid(t, TRUE, z))
  BY <1>5, <1>6, <1>7, LaysMore
<1>9. Laid(t, TRUE, z) = s
  <2>1. Laid(Layer(c, j, m), TRUE, z) = Layer(c, j, m + z.len)
    BY LaidGiven
  <2> QED BY <1>2, <1>3, <1>4, <1>5, <2>1
<1> QED BY <1>1, <1>6, <1>8, <1>9 DEF Stands

\* Expected is where the handles stand.
LEMMA ExpectedIs ==
  ASSUME handles \in Seq(HandleSet), NEW q, Stands(handles, q)
  PROVE  Expected = q
<1>0. PICK n \in Nat : n = Len(handles)
  OBVIOUS
<1>1. PICK f \in [0 .. n -> Layers] : LayersOf(handles, f) /\ q = Settled(f[n])
  BY <1>0 DEF Stands, Lays
<1> DEFINE D(g) == [i \in 0 .. n |-> IF i = 0 THEN Bottom ELSE Laid(g[i - 1], GivenAt(handles, i), handles[i])]
           slots == CHOOSE g : g = D(g)
<1>2. f = D(f)
  <2>1. \A i \in 0 .. n : i = 0 \/ i \in 1 .. n
    OBVIOUS
  <2>2. \A i \in 0 .. n : f[i] = IF i = 0 THEN Bottom ELSE Laid(f[i - 1], GivenAt(handles, i), handles[i])
    BY <1>0, <1>1, <2>1 DEF LayersOf
  <2> QED BY <2>2
<1>3. slots = D(slots)
  BY <1>2
<1> HIDE DEF slots
<1> DEFINE S == {i \in 0 .. n : slots[i] # f[i]}
<1>4. S = {}
  <2> SUFFICES ASSUME S # {} PROVE FALSE
    OBVIOUS
  <2>1. S \in SUBSET Nat
    OBVIOUS
  <2>2. PICK k \in S : \A m \in S : k <= m
    <3> HIDE DEF S
    <3> QED BY <2>1, LeastNatural
  <2>3. slots[k] = IF k = 0 THEN Bottom ELSE Laid(slots[k - 1], GivenAt(handles, k), handles[k])
    BY <1>3
  <2>4. CASE k = 0
    BY <1>1, <2>3, <2>4 DEF LayersOf
  <2>5. CASE k # 0
    <3>1. k - 1 \in 0 .. n /\ k \in 1 .. n /\ k - 1 \notin S
      BY <2>2, <2>5
    <3>2. slots[k - 1] = f[k - 1] /\ f[k] = Laid(f[k - 1], GivenAt(handles, k), handles[k])
      BY <1>0, <1>1, <3>1 DEF LayersOf
    <3> QED BY <2>3, <2>5, <3>2
  <2> QED BY <2>4, <2>5
<1>5. slots[n] = f[n]
  <2>1. n \in 0 .. n
    OBVIOUS
  <2> QED BY <1>4, <2>1
<1>6. Expected = Settled(slots[n])
  BY <1>0 DEF Expected, slots, Laid, GivenAt, Given, Bottom
<1> QED BY <1>1, <1>5, <1>6

---------------------------------------------------------------------------------
(* The invariant. *)

\* The stack st still has all of q, and above it what a step under way has not yet advanced past.
Above(st, q) == st.depth > Len(q) /\ \A i \in 1 .. Len(q) : Slots(st)[i] = q[i]

Left == Append(Others, [LastHandle EXCEPT !.len = @ - 1])
During == \E q \in Seq(SlotSet) : Stands(Left, q) /\ Len(q) = stop /\ Above(stack, q)

Begun == entered = 0 => stack = RootObject /\ handles = <<>> /\ ~error /\ ~failed
Once == ~failed => entered <= 1
Stepping == stop # -1 => dropping /\ ~error /\ LastHandle.len # 0
LaidOut ==
  ~error /\ ~failed /\ entered > 0 => IF stop = -1 THEN Stands(handles, Slots(stack)) ELSE During
Inv == TypesOK /\ Begun /\ Once /\ Stepping /\ LaidOut

\* A single step of a stack which has all of q below, or as, what it pops to.
LEMMA StepKeeps ==
  ASSUME NEW st, StackOK(st), unread \in 0 .. Length, st.depth > 0, NEW o \in SingleStep(st), o.is # "err",
         NEW q \in Seq(SlotSet), Len(q) <= Len(Popped(Slots(st))),
         \A i \in 1 .. Len(q) : Popped(Slots(st))[i] = q[i]
  PROVE  IF o.st.depth = Len(q) THEN Slots(o.st) = q ELSE Above(o.st, q)
<1>1. PICK p : p = Popped(Slots(st))
  OBVIOUS
<1>2. PICK d \in Nat : d = st.depth /\ d > 0
  BY StackFields, NumbersAssumption
<1>3. p \in Seq(SlotSet)
  <2>1. Slots(st) \in Seq(SlotSet) /\ Len(Slots(st)) = d
    BY <1>2, SlotsType
  <2> QED BY <1>1, <1>2, <2>1, PoppedIs
<1>4. PICK l \in Nat : l = Len(q) /\ l <= Len(p) /\ \A i \in 1 .. l : p[i] = q[i]
  BY <1>1
<1>5. PICK new : new = o.st
  OBVIOUS
<1>6. StackOK(new) /\ o.len \in Nat /\ o.kind \in 0 .. 15
  BY <1>5, StepIs
<1>7. Slots(new) \in Seq(SlotSet) /\ Len(Slots(new)) = new.depth /\ new.depth \in Nat
  BY <1>6, SlotsType, StackFields, NumbersAssumption
<1>8. \/ Slots(new) = p
      \/ Slots(new) = Append(p, Slot(o.kind, o.len))
  <2>1. o.is = "empty" <=> st.depth = 0
    BY StepIs
  <2>2. o.is \notin {"empty", "err"}
    BY <1>2, <2>1
  <2>3. Slots(o.st) = IF o.is = "unit" \/ o.len = 0 THEN Popped(Slots(st))
                      ELSE Append(Popped(Slots(st)), Slot(o.kind, o.len))
    BY <2>2, StepIs
  <2> QED BY <1>1, <1>5, <2>3
<1>9. PICK e \in Nat : e = Len(p)
  BY <1>3
<1>10. Len(Slots(new)) >= e /\ \A i \in 1 .. e : Slots(new)[i] = p[i]
  <2>1. CASE Slots(new) = p
    BY <1>9, <2>1
  <2>2. CASE Slots(new) = Append(p, Slot(o.kind, o.len))
    <3>1. PICK x \in SlotSet : x = Slot(o.kind, o.len)
      BY <1>6 DEF SlotSet, Slot
    <3>2. Len(Append(p, x)) = e + 1 /\ \A i \in 1 .. e : Append(p, x)[i] = p[i]
      BY <1>3, <1>9, Extended
    <3> QED BY <2>2, <3>1, <3>2
  <2> QED BY <1>8, <2>1, <2>2
<1>11. \A i \in 1 .. l : Slots(new)[i] = q[i]
  <2>1. \A i \in 1 .. l : i \in 1 .. e
    BY <1>4, <1>9
  <2> QED BY <1>4, <1>10, <2>1
<1>12. new.depth >= l
  BY <1>4, <1>7, <1>9, <1>10
<1>13. CASE new.depth = l
  <2>1. Slots(new) = q
    BY <1>4, <1>7, <1>11, <1>13, SameSequence
  <2> QED BY <1>4, <1>5, <1>13, <2>1
<1>14. CASE new.depth # l
  <2>1. new.depth > l
    BY <1>7, <1>12, <1>14
  <2> QED BY <1>4, <1>5, <1>11, <1>14, <2>1 DEF Above
<1> QED BY <1>13, <1>14

LEMMA InitInv == Init => Inv
<1> SUFFICES ASSUME Init PROVE Inv
  OBVIOUS
<1>1. TypesOK
  BY InitTypes
<1>2. stack = RootObject /\ handles = <<>> /\ ~error /\ ~failed /\ entered = 0 /\ stop = -1
  BY DEF Init
<1>3. Begun
  BY <1>2 DEF Begun
<1>4. Once /\ Stepping /\ LaidOut
  BY <1>2 DEF Once, Stepping, LaidOut
<1> QED BY <1>1, <1>3, <1>4 DEF Inv

\* Advancing stops where the item ends.
LEMMA StopsAt ==
  ASSUME NEW st, StackOK(st), st.depth > 0
  PROVE  StopAtStackDepth(st) = Len(Popped(Slots(st)))
<1>1. PICK d \in Nat : d = st.depth /\ d > 0
  BY StackFields, NumbersAssumption
<1>2. PICK s : s = Slots(st)
  OBVIOUS
<1>3. s \in Seq(SlotSet) /\ Len(s) = d /\ s[d] = Slot(Get(st.types, d - 1), st.amounts[d - 1])
  <2>1. s \in Seq(SlotSet) /\ Len(s) = d
    BY <1>1, <1>2, SlotsType
  <2>2. \A i \in 1 .. d : s[i] = Slot(Get(st.types, i - 1), st.amounts[i - 1])
    BY <1>1, <1>2, SlotsType
  <2>3. d \in 1 .. d
    BY <1>1
  <2> QED BY <2>1, <2>2, <2>3
<1>4. s[d].amount = st.amounts[d - 1]
  BY <1>3 DEF Slot
<1>5. s[d].amount > 1 => Len(Popped(s)) = d
  BY <1>1, <1>3, PoppedIs
<1>6. ~(s[d].amount > 1) => Len(Popped(s)) = d - 1
  BY <1>1, <1>3, PoppedIs
<1> QED BY <1>1, <1>2, <1>4, <1>5, <1>6 DEF StopAtStackDepth

LEMMA NextInv == Inv /\ [Next]_vars => Inv'
<1> SUFFICES ASSUME Inv, [Next]_vars PROVE Inv'
  OBVIOUS
<1>0. TypesOK /\ Begun /\ Once /\ Stepping /\ LaidOut
  BY DEF Inv
<1>t. TypesOK'
  BY <1>0, NextTypes
<1>a. /\ StackOK(stack) /\ unread \in 0 .. Length /\ handles \in Seq(HandleSet)
      /\ dropping \in BOOLEAN /\ stop \in -1 .. MaxDepth /\ failed \in BOOLEAN /\ entered \in 0 .. 2 /\ error \in BOOLEAN
  BY <1>0 DEF TypesOK
<1>b. ASSUME handles # <<>>
      PROVE  /\ LastHandle \in HandleSet /\ Others \in Seq(HandleSet) /\ handles = Append(Others, LastHandle)
             /\ LastHandle.len \in Nat
  BY <1>a, <1>b, LastAndOthers, HandleFields
<1>n. handles # <<>> => entered > 0
  BY <1>0, <1>a DEF Begun
<1>c. ASSUME handles # <<>>, LastHandle.len # 0, NEW y, y = [LastHandle EXCEPT !.len = @ - 1]
      PROVE  y \in HandleSet /\ Less(LastHandle, y)
  <2>1. PICK n \in Nat : n = LastHandle.len - 1
    BY <1>b, <1>c
  <2>2. [LastHandle EXCEPT !.len = n] \in HandleSet
    BY <1>b, <1>c, HandleFields
  <2> QED BY <1>c, <2>1, <2>2 DEF Less
<1>d. ASSUME ~dropping, ~error, ~failed, handles # <<>>
      PROVE  stop = -1 /\ Stands(Append(Others, LastHandle), Slots(stack))
  BY <1>0, <1>b, <1>d, <1>n DEF Stepping, LaidOut
<1>1. CASE EpeeEntry
  <2>0. ~dropping /\ handles = <<>> /\ stop = -1 /\ UNCHANGED <<stack, error, unread, dropping, stop>>
    BY <1>0, <1>1 DEF EpeeEntry, Calls, Err, Stepping
  <2>1. CASE Reused
    <3>1. failed' = TRUE /\ UNCHANGED entered
      BY <1>1, <2>1 DEF EpeeEntry, Err
    <3>2. entered # 0
      BY <1>0, <2>1 DEF Begun, Reused, RootObject
    <3> QED BY <1>t, <2>0, <3>1, <3>2 DEF Inv, Begun, Once, Stepping, LaidOut
  <2>2. CASE ~Reused
    <3>1. /\ handles' = <<Handle("entry", Object, 1)>> /\ UNCHANGED failed
          /\ entered' = IF entered < 2 THEN entered + 1 ELSE 2
      BY <1>1, <2>2 DEF EpeeEntry
    <3>2. entered' > 0 /\ entered' # 0
      BY <1>a, <3>1
    <3>3. Begun' /\ Stepping'
      BY <2>0, <3>2 DEF Begun, Stepping
    <3>4. CASE failed
      BY <1>t, <3>1, <3>3, <3>4 DEF Inv, Once, LaidOut
    <3>5. CASE ~failed
      <4>1. ~(entered > 0)
        <5> SUFFICES ASSUME entered > 0 PROVE FALSE
          OBVIOUS
        <5>1. Stands(<<>>, Slots(stack))
          BY <1>0, <2>0, <2>2, <3>5 DEF LaidOut, Reused
        <5>2. Slots(stack) = <<>>
          BY <5>1, StandsNone
        <5>3. Len(Slots(stack)) = stack.depth
          BY <1>a, SlotsType
        <5> QED BY <2>2, <5>2, <5>3 DEF Reused
      <4>2. entered = 0 /\ entered' = 1
        BY <1>a, <3>1, <4>1
      <4>3. stack' = RootObject
        BY <1>0, <2>0, <4>2 DEF Begun
      <4>4. PICK x : x = Handle("entry", Object, 1)
        OBVIOUS
      <4>5. x \in HandleSet /\ x.is = "entry" /\ x.kind = Object /\ x.len = 1
        <5>1. Object \in 0 .. 15 /\ 1 \in Nat
          BY DEF Object
        <5>2. PICK k \in 0 .. 15, n \in Nat : k = Object /\ n = 1
          BY <5>1
        <5> QED BY <4>4, <5>2, MadeHandle DEF Handle
      <4>6. Stands(Append(<<>>, x), IF x.len = 0 THEN <<>> ELSE Append(<<>>, Slot(x.kind, x.len)))
        <5>1. <<>> \in Seq(HandleSet) /\ ~GivenTo(<<>>, x) /\ Stands(<<>>, <<>>)
          BY StandsNone DEF GivenTo
        <5>2. PICK h \in Seq(HandleSet), q \in {<<>>} : h = <<>> /\ q = <<>>
          BY <5>1
        <5>3. Stands(Append(h, x), IF x.len = 0 THEN q ELSE Append(q, Slot(x.kind, x.len)))
          BY <4>5, <5>1, <5>2, StandsMore
        <5> QED BY <5>2, <5>3
      <4>7. Append(<<>>, x) = <<x>> /\ Append(<<>>, Slot(x.kind, x.len)) = <<Slot(Object, 1)>>
        BY <4>5
      <4>8. Stands(handles', Slots(stack'))
        BY <3>1, <4>3, <4>4, <4>5, <4>6, <4>7, RootIs
      <4> QED BY <1>t, <2>0, <3>3, <4>2, <4>8 DEF Inv, Once, LaidOut
    <3> QED BY <3>4, <3>5
  <2> QED BY <2>1, <2>2
<1>f. ASSUME handles # <<>>, ~dropping, UNCHANGED <<stop, entered>>
      PROVE  stop = -1 /\ stop' = -1 /\ Begun' /\ Stepping' /\ entered > 0
  <2>1. stop = -1 /\ stop' = -1 /\ entered > 0
    BY <1>0, <1>f, <1>n DEF Stepping
  <2>2. Begun' /\ Stepping'
    BY <1>a, <1>f, <2>1 DEF Begun, Stepping
  <2> QED BY <2>1, <2>2
<1>g. ASSUME handles # <<>>, ~dropping, UNCHANGED <<stop, entered>>,
             ~failed' => (~failed /\ (~error' => Stands(handles', Slots(stack'))))
      PROVE  Inv'
  <2>1. stop' = -1 /\ Begun' /\ Stepping'
    BY <1>f, <1>g
  <2>2. Once'
    BY <1>0, <1>g DEF Once
  <2>3. LaidOut'
    BY <1>g, <2>1 DEF LaidOut
  <2> QED BY <1>t, <2>1, <2>2, <2>3 DEF Inv
<1>2. CASE Fields
  <2>0. ~dropping /\ handles # <<>> /\ UNCHANGED <<stop, entered, error>>
    BY <1>2 DEF Fields, Calls, Err
  <2>1. ASSUME ~failed', ~error' PROVE ~failed /\ Stands(handles', Slots(stack'))
    <3>1. /\ ~error /\ ~failed /\ LastHandle.len = 1
          /\ \E o \in SingleStep(stack) : /\ stack' = o.st /\ o.is = "object"
                                          /\ handles' = Append(Others, Handle("fields", Entry, o.len))
      BY <1>2, <2>1 DEF Fields, Err
    <3>2. PICK o \in SingleStep(stack) : /\ stack' = o.st /\ o.is = "object"
                                         /\ handles' = Append(Others, Handle("fields", Entry, o.len))
      BY <3>1
    <3>3. Stands(Others, Popped(Slots(stack)))
      BY <1>b, <1>d, <2>0, <3>1, StandsRead
    <3>4. o.len \in Nat /\ o.kind = Entry
      BY <1>a, <3>2, StepIs
    <3>5. Slots(stack') = IF o.len = 0 THEN Popped(Slots(stack)) ELSE Append(Popped(Slots(stack)), Slot(Entry, o.len))
      <4>1. o.is \notin {"empty", "err"} /\ o.is # "unit"
        BY <3>2
      <4>2. Slots(o.st) = IF o.is = "unit" \/ o.len = 0 THEN Popped(Slots(stack))
                          ELSE Append(Popped(Slots(stack)), Slot(o.kind, o.len))
        BY <1>a, <4>1, StepIs
      <4> QED BY <3>2, <3>4, <4>1, <4>2
    <3>6. PICK x : x = Handle("fields", Entry, o.len)
      OBVIOUS
    <3>7. x \in HandleSet /\ x.is = "fields" /\ x.kind = Entry /\ x.len = o.len
      <4>1. Entry \in 0 .. 15
        BY DEF Entry
      <4>2. PICK k \in 0 .. 15, n \in Nat : k = Entry /\ n = o.len
        BY <3>4, <4>1
      <4> QED BY <3>6, <4>2, MadeHandle DEF Handle
    <3>8. ~GivenTo(Others, x)
      BY <3>7 DEF GivenTo
    <3>9. PICK q : q = Popped(Slots(stack))
      OBVIOUS
    <3>10. Stands(Append(Others, x), IF x.len = 0 THEN q ELSE Append(q, Slot(x.kind, x.len)))
      BY <1>b, <2>0, <3>3, <3>7, <3>8, <3>9, StandsMore
    <3> QED BY <3>1, <3>2, <3>5, <3>6, <3>7, <3>9, <3>10
  <2>2. ~failed' => ~failed
    BY <1>2 DEF Fields, Err
  <2> QED BY <1>g, <2>0, <2>1, <2>2
<1>3. CASE NextField
  <2>0. ~dropping /\ handles # <<>> /\ UNCHANGED <<stop, entered, error>> /\ LastHandle.is = "fields"
    BY <1>3 DEF NextField, Calls, Err
  <2>y. PICK y : y = [LastHandle EXCEPT !.len = @ - 1]
    OBVIOUS
  <2>1. ASSUME ~failed', ~error' PROVE ~failed /\ Stands(handles', Slots(stack'))
    <3>1. /\ ~error /\ ~failed /\ LastHandle.len > 0
          /\ \E o \in SingleStep(stack) : /\ stack' = o.st /\ o.is = "entry"
                                          /\ handles' = Append(Append(Others, y), Handle("entry", o.kind, o.len))
      BY <1>3, <2>1, <2>y DEF NextField, Err
    <3>2. PICK o \in SingleStep(stack) : /\ stack' = o.st /\ o.is = "entry"
                                         /\ handles' = Append(Append(Others, y), Handle("entry", o.kind, o.len))
      BY <3>1
    <3>a. LastHandle.len # 0
      BY <3>1
    <3>b. y \in HandleSet /\ Less(LastHandle, y)
      BY <1>c, <2>0, <2>y, <3>a
    <3>3. Stands(Append(Others, y), Popped(Slots(stack)))
      BY <1>b, <1>d, <2>0, <3>1, <3>b, StandsLess
    <3>4. o.len \in Nat /\ o.kind \in 0 .. 15
      BY <1>a, StepIs
    <3>5. Slots(stack') = IF o.len = 0 THEN Popped(Slots(stack)) ELSE Append(Popped(Slots(stack)), Slot(o.kind, o.len))
      <4>1. o.is \notin {"empty", "err"} /\ o.is # "unit"
        BY <3>2
      <4>2. Slots(o.st) = IF o.is = "unit" \/ o.len = 0 THEN Popped(Slots(stack))
                          ELSE Append(Popped(Slots(stack)), Slot(o.kind, o.len))
        BY <1>a, <4>1, StepIs
      <4> QED BY <3>2, <4>1, <4>2
    <3>6. PICK x : x = Handle("entry", o.kind, o.len)
      OBVIOUS
    <3>7. x \in HandleSet /\ x.is = "entry" /\ x.kind = o.kind /\ x.len = o.len
      <4>1. PICK k \in 0 .. 15, n \in Nat : k = o.kind /\ n = o.len
        BY <3>4
      <4> QED BY <3>6, <4>1, MadeHandle DEF Handle
    <3>c. PICK h : h = Append(Others, y)
      OBVIOUS
    <3>d. h \in Seq(HandleSet) /\ h[Len(h)] = y
      <4>1. /\ Append(Others, y) \in Seq(HandleSet) /\ Len(Append(Others, y)) = Len(Others) + 1
            /\ Append(Others, y)[Len(Others) + 1] = y
        BY <1>b, <2>0, <3>b, Extended
      <4> QED BY <3>c, <4>1
    <3>8. ~GivenTo(h, x)
      <4>1. y.is = "fields"
        BY <1>b, <2>0, <2>y DEF HandleSet
      <4> QED BY <3>d, <4>1 DEF GivenTo
    <3>9. PICK q : q = Popped(Slots(stack))
      OBVIOUS
    <3>10. Stands(Append(h, x), IF x.len = 0 THEN q ELSE Append(q, Slot(x.kind, x.len)))
      BY <3>3, <3>7, <3>8, <3>9, <3>c, <3>d, StandsMore
    <3> QED BY <3>1, <3>2, <3>5, <3>6, <3>7, <3>9, <3>10, <3>c
  <2>2. ~failed' => ~failed
    BY <1>0, <1>a, <1>3 DEF NextField, Err
  <2> QED BY <1>g, <2>0, <2>1, <2>2
<1>4. CASE Iterate
  <2>0. ~dropping /\ handles # <<>> /\ UNCHANGED <<stack, stop, entered, error>> /\ LastHandle.is = "entry"
    BY <1>4 DEF Iterate, Calls
  <2>1. ASSUME ~failed', ~error' PROVE ~failed /\ Stands(handles', Slots(stack'))
    <3>1. PICK y : y = [LastHandle EXCEPT !.is = "array"]
      OBVIOUS
    <3>2. ~failed /\ ~error /\ handles' = Append(Others, y)
      BY <1>4, <2>0, <2>1, <3>1 DEF Iterate
    <3>3. y \in HandleSet /\ y.is = "array" /\ y.kind = LastHandle.kind /\ y.len = LastHandle.len
      BY <1>b, <2>0, <3>1, HandleFields DEF HandleSet
    <3>4. y.is # "fields" /\ LastHandle.is # "fields"
      BY <2>0, <3>3
    <3>5. Stands(Append(Others, y), Slots(stack))
      BY <1>b, <1>d, <2>0, <3>2, <3>3, <3>4, StandsSame
    <3> QED BY <2>0, <3>2, <3>5
  <2>2. ~failed' => ~failed
    BY <1>0, <1>a, <1>4 DEF Iterate
  <2> QED BY <1>g, <2>0, <2>1, <2>2
<1>5. CASE NextItem
  <2>0. ~dropping /\ handles # <<>> /\ UNCHANGED <<stack, stop, entered, error>> /\ LastHandle.is = "array"
    BY <1>5 DEF NextItem, Calls, Err
  <2>y. PICK y, z : y = [LastHandle EXCEPT !.len = @ - 1] /\ z = Handle("entry", LastHandle.kind, 1)
    OBVIOUS
  <2>1. ASSUME ~failed', ~error' PROVE ~failed /\ Stands(handles', Slots(stack'))
    <3>1. ~error /\ ~failed /\ LastHandle.len > 0 /\ handles' = Append(Append(Others, y), z)
      BY <1>5, <2>1, <2>y DEF NextItem, Err
    <3>2. LastHandle.len # 0
      BY <3>1
    <3>3. y \in HandleSet /\ Less(LastHandle, y)
      BY <1>c, <2>0, <2>y, <3>2
    <3>4. z \in HandleSet /\ z.is = "entry" /\ z.len = 1
      <4>1. LastHandle.kind \in 0 .. 15
        BY <1>b, <2>0, HandleFields
      <4> QED BY <2>y, <4>1, MadeHandle
    <3>5. Stands(Append(Append(Others, y), z), Slots(stack))
      BY <1>b, <1>d, <2>0, <3>1, <3>3, <3>4, StandsItem
    <3> QED BY <2>0, <3>1, <3>5
  <2>2. ~failed' => ~failed
    BY <1>0, <1>a, <1>5 DEF NextItem, Err
  <2> QED BY <1>g, <2>0, <2>1, <2>2
<1>6. CASE ToValue
  <2>0. ~dropping /\ handles # <<>> /\ UNCHANGED <<stop, entered, error>>
    BY <1>6 DEF ToValue, Calls, Err
  <2>1. ASSUME ~failed', ~error' PROVE ~failed /\ Stands(handles', Slots(stack'))
    <3>1. /\ ~error /\ ~failed /\ LastHandle.len = 1 /\ handles' = Others
          /\ stack' = IF error \/ stack.depth = 0 THEN stack ELSE Pop(stack)
      BY <1>6, <2>0, <2>1 DEF ToValue, Err
    <3>2. Len(Slots(stack)) > 0 /\ Stands(Others, Popped(Slots(stack)))
      BY <1>b, <1>d, <2>0, <3>1, StandsRead
    <3>3. stack.depth > 0 /\ stack.depth # 0
      <4>1. Len(Slots(stack)) = stack.depth
        BY <1>a, SlotsType
      <4> QED BY <3>2, <4>1
    <3>4. Slots(stack') = Popped(Slots(stack))
      BY <1>a, <3>1, <3>3, PopIs
    <3> QED BY <3>1, <3>2, <3>4
  <2>2. ~failed' => ~failed
    BY <1>0, <1>a, <1>6 DEF ToValue, Err
  <2> QED BY <1>g, <2>0, <2>1, <2>2
<1>7. CASE DropBegin
  <2>0. handles # <<>> /\ ~dropping /\ UNCHANGED <<stack, handles, error, failed, stop, entered>>
    BY <1>7 DEF DropBegin
  <2>1. ASSUME ~failed', ~error' PROVE ~failed /\ Stands(handles', Slots(stack'))
    BY <1>b, <1>d, <2>0, <2>1
  <2>2. ~failed' => ~failed
    BY <1>0, <1>a, <1>7 DEF DropBegin
  <2> QED BY <1>g, <2>0, <2>1, <2>2
<1>8. CASE DropStep
  <2>0. /\ dropping /\ ~error /\ handles # <<>> /\ LastHandle.len # 0 /\ entered > 0
        /\ UNCHANGED <<dropping, failed, entered>>
    BY <1>0, <1>8, <1>n DEF DropStep, TypesOK
  <2>1. Begun' /\ Once'
    BY <1>0, <1>a, <2>0 DEF Begun, Once
  <2>2. Stepping'
    <3>1. stop' = -1 \/ (UNCHANGED <<error, handles>>)
      BY <1>8 DEF DropStep, Stepped
    <3> QED BY <2>0, <3>1 DEF Stepping, LastHandle
  <2>3. LaidOut'
    <3> SUFFICES ASSUME ~error', ~failed
                 PROVE  IF stop' = -1 THEN Stands(handles', Slots(stack')) ELSE During'
      BY <2>0 DEF LaidOut
    <3>0. PICK y : y = [LastHandle EXCEPT !.len = @ - 1]
      OBVIOUS
    <3>y. y \in HandleSet /\ Less(LastHandle, y)
      BY <1>c, <2>0, <3>0
    <3>1. PICK at : at = IF stop = -1 THEN StopAtStackDepth(stack) ELSE stop
      OBVIOUS
    <3>2. PICK q \in Seq(SlotSet) :
            /\ Stands(Append(Others, y), q) /\ Len(q) = at /\ stack.depth > 0
            /\ Len(q) <= Len(Popped(Slots(stack)))
            /\ \A i \in 1 .. Len(q) : Popped(Slots(stack))[i] = q[i]
      <4>1. CASE stop = -1
        <5>1. Stands(Append(Others, LastHandle), Slots(stack))
          BY <1>0, <1>b, <2>0, <4>1 DEF LaidOut
        <5>2. Len(Slots(stack)) > 0 /\ Stands(Append(Others, y), Popped(Slots(stack)))
          BY <1>b, <2>0, <3>y, <5>1, StandsLess
        <5>3. stack.depth > 0
          <6>1. Len(Slots(stack)) = stack.depth
            BY <1>a, SlotsType
          <6> QED BY <5>2, <6>1
        <5>4. PICK p \in Seq(SlotSet) : p = Popped(Slots(stack))
          BY <5>2, StandsType
        <5>5. Len(p) = at
          BY <1>a, <3>1, <4>1, <5>3, <5>4, StopsAt
        <5>6. Len(p) <= Len(p)
          OBVIOUS
        <5> QED BY <5>2, <5>3, <5>4, <5>5, <5>6
      <4>2. CASE stop # -1
        <5>1. PICK q \in Seq(SlotSet) : Stands(Append(Others, y), q) /\ Len(q) = stop /\ Above(stack, q)
          BY <1>0, <2>0, <3>0, <4>2 DEF LaidOut, During, Left
        <5>2. PICK l \in Nat : l = Len(q)
          OBVIOUS
        <5>3. PICK d \in Nat : d = stack.depth /\ d > l /\ d > 0
          <6>1. stack.depth \in Nat
            BY <1>a, StackFields, NumbersAssumption
          <6>2. stack.depth > l
            BY <5>1, <5>2 DEF Above
          <6> QED BY <6>1, <6>2
        <5>4. PICK s \in Seq(SlotSet) : s = Slots(stack) /\ Len(s) = d
          BY <1>a, <5>3, SlotsType
        <5>5. Popped(s) \in Seq(SlotSet) /\ \A i \in 1 .. d - 1 : Popped(s)[i] = s[i]
          BY <5>3, <5>4, PoppedIs
        <5>6. Len(Popped(s)) = d \/ Len(Popped(s)) = d - 1
          <6>1. s[d].amount > 1 => Len(Popped(s)) = d
            BY <5>3, <5>4, PoppedIs
          <6>2. ~(s[d].amount > 1) => Len(Popped(s)) = d - 1
            BY <5>3, <5>4, PoppedIs
          <6> QED BY <6>1, <6>2
        <5>7. l <= Len(Popped(s))
          BY <5>3, <5>6
        <5>8. \A i \in 1 .. l : Popped(s)[i] = q[i]
          <6>1. \A i \in 1 .. l : i \in 1 .. d - 1
            BY <5>3
          <6>2. \A i \in 1 .. l : s[i] = q[i]
            BY <5>1, <5>2, <5>4 DEF Above
          <6> QED BY <5>5, <6>1, <6>2
        <5> QED BY <3>1, <4>2, <5>1, <5>2, <5>3, <5>4, <5>7, <5>8
      <4> QED BY <4>1, <4>2
    <3>3. PICK o \in SingleStep(stack) :
            /\ stack' = o.st /\ o.is # "err"
            /\ \/ /\ stack'.depth = at \/ (stop = -1 /\ stack.depth = 0)
                  /\ Stepped
               \/ stack'.depth # at /\ stop' = at /\ UNCHANGED handles
      BY <1>8, <3>1 DEF DropStep
    <3>4. stack.depth # 0
      <4>1. stack.depth \in Nat
        BY <1>a, StackFields, NumbersAssumption
      <4> QED BY <3>2, <4>1
    <3>5. IF o.st.depth = Len(q) THEN Slots(o.st) = q ELSE Above(o.st, q)
      BY <1>a, <3>2, <3>3, StepKeeps
    <3>6. CASE stack'.depth = at /\ Stepped
      <4>1. handles' = Append(Others, y) /\ stop' = -1
        BY <3>0, <3>6 DEF Stepped
      <4>2. Slots(stack') = q
        BY <3>2, <3>3, <3>5, <3>6
      <4> QED BY <3>2, <4>1, <4>2
    <3>7. CASE stack'.depth # at /\ stop' = at /\ UNCHANGED handles
      <4>1. Above(stack', q)
        BY <3>2, <3>3, <3>5, <3>7
      <4>2. at # -1
        <5>1. Len(q) \in Nat
          OBVIOUS
        <5> QED BY <3>2, <5>1
      <4>3. Left' = Append(Others, y)
        BY <3>0, <3>7 DEF Left, Others, LastHandle
      <4>4. During'
        BY <3>2, <3>7, <4>1, <4>3 DEF During
      <4> QED BY <3>7, <4>2, <4>4
    <3> QED BY <3>3, <3>4, <3>6, <3>7
  <2> QED BY <1>t, <2>1, <2>2, <2>3 DEF Inv
<1>9. CASE DropEnd
  <2>0. /\ handles # <<>> /\ stop = -1 /\ (error \/ LastHandle.len = 0) /\ handles' = Others
        /\ UNCHANGED <<stack, error, stop, failed, entered>> /\ entered > 0
    BY <1>0, <1>9, <1>n DEF DropEnd, DropDone, TypesOK
  <2>1. Begun' /\ Once' /\ Stepping'
    BY <1>0, <1>a, <2>0 DEF Begun, Once, Stepping
  <2>2. LaidOut'
    <3> SUFFICES ASSUME ~error, ~failed PROVE Stands(handles', Slots(stack'))
      BY <2>0 DEF LaidOut
    <3>1. Stands(Append(Others, LastHandle), Slots(stack))
      BY <1>0, <1>b, <2>0 DEF LaidOut
    <3>2. Stands(Others, Slots(stack))
      BY <1>b, <2>0, <3>1, StandsEnd
    <3> QED BY <2>0, <3>2
  <2> QED BY <1>t, <2>1, <2>2 DEF Inv
<1>10. CASE UNCHANGED vars
  <2>1. Begun' /\ Once' /\ Stepping'
    BY <1>0, <1>10 DEF Begun, Once, Stepping, vars, LastHandle
  <2>2. LaidOut'
    BY <1>0, <1>10 DEF LaidOut, During, Left, Others, LastHandle, vars
  <2> QED BY <1>t, <2>1, <2>2 DEF Inv
<1> QED BY <1>1, <1>2, <1>3, <1>4, <1>5, <1>6, <1>7, <1>8, <1>9, <1>10
        DEF Next, Client, Dropping, Terminated

\* Epee, EpeeEntry, FieldIterator, ArrayIterator: the decoder is where its handles stand, after any
\* sequence of reads, iterations and drops without an error, and its one entry is given out once.
THEOREM AlignedHolds == Spec => []Aligned
<1>1. Spec => []Inv
  BY InitInv, NextInv, PTL DEF Spec
<1>2. Inv => Aligned
  <2> SUFFICES ASSUME Inv PROVE Aligned
    OBVIOUS
  <2>1. ASSUME ~error, ~failed, stop = -1, entered > 0 PROVE Contents = Expected
    <3>1. Stands(handles, Slots(stack)) /\ handles \in Seq(HandleSet)
      BY <2>1 DEF Inv, LaidOut, TypesOK
    <3>2. Expected = Slots(stack)
      BY <3>1, ExpectedIs
    <3> QED BY <3>2 DEF Contents, Slots
  <2> QED BY <2>1 DEF Inv, Once, Aligned
<1> QED BY <1>1, <1>2, PTL
================================================================================
