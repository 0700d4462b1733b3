------------------------------- MODULE EpeeDecoder -------------------------------
(***************************************************************************)
(* The decoder of EPEE, the daemon's binary encoding (epee/src), and the   *)
(* handles through which it is read.                                       *)
(*                                                                         *)
(* The decoder keeps a stack of what is left to decode, in fixed space:    *)
(* each slot is a kind (packed, two to a byte) and how many of it.         *)
(* EpeeEntry, FieldIterator and ArrayIterator are cursors over that one    *)
(* stack. They borrow from each other, so only the last can be used, and   *)
(* dropping one advances the decoder past what it did not read.            *)
(*                                                                         *)
(* The encoding is anyone's: a read gives any value, or fails. A read of   *)
(* whatever length takes one of `unread`.                                  *)
(***************************************************************************)
EXTENDS Integers, Sequences

CONSTANTS
  MaxDepth,      \* MAX_OBJECT_DEPTH
  Kinds,         \* the kinds of the encoding's entries, of 1 .. 12
  MaxCount,      \* bound: the most fields, or items, an encoding claims
  Length,        \* bound: the reads an encoding is long enough for
  MaxHandles     \* bound: the handles a client holds at once (it can iterate over an item, again and again)

Object == 12
Entry == 0       \* TypeOrEntry::Entry

ASSUME NumbersAssumption == MaxDepth \in Nat \ {0} /\ MaxCount \in Nat /\ Length \in Nat /\ MaxHandles \in Nat
ASSUME KindsAssumption == Kinds \subseteq 1 .. Object /\ Object \in Kinds

VARIABLES
  stack,         \* [types, amounts, depth]
  error,         \* whether Epee::error is set
  unread,        \* what is left of the encoding
  handles,       \* the handles the client holds: [is, kind, len], each borrowing from the one before
  dropping,      \* whether the last handle is being dropped
  stop,          \* stop_at_stack_depth of the Stack::step under way, or -1
  failed,        \* history: the client was given an error
  entered        \* history: how often Epee::entry returned an entry

vars == <<stack, error, unread, handles, dropping, stop, failed, entered>>

---------------------------------------------------------------------------------
(* Stack *)

\* PackedTypes::get, set: the even slots in the low half of their bytes, the odd in the high half.
\* Mistake: set clears the low half for either.
Get(types, i) == (types[i \div 2] \div (IF i % 2 = 0 THEN 1 ELSE 16)) % 16
SetOverLow(types, i, kind) ==
  [types EXCEPT ![i \div 2] = ((@ - (@ % 16)) + (IF i % 2 = 0 THEN kind ELSE 16 * kind)) % 256]
Set(types, i, kind) ==
  [types EXCEPT ![i \div 2] = IF i % 2 = 0 THEN (@ - (@ % 16)) + kind ELSE (@ % 16) + 16 * kind]

\* Stack::root_object, Epee::new.
RootObject ==
  [types |-> Set([b \in 0 .. (MaxDepth + 1) \div 2 - 1 |-> 0], 0, Object),
   amounts |-> [i \in 0 .. MaxDepth - 1 |-> 1],
   depth |-> 1]

\* Mistake: the slot outlives its last item.
PopLate(st) ==
  LET i == st.depth - 1
  IN IF st.amounts[i] > 0 THEN [st EXCEPT !.amounts[i] = @ - 1] ELSE [st EXCEPT !.depth = @ - 1]
Pop(st) ==
  LET i == st.depth - 1
  IN IF st.amounts[i] > 1 THEN [st EXCEPT !.amounts[i] = @ - 1] ELSE [st EXCEPT !.depth = @ - 1]

Full(st) == st.depth = MaxDepth

Push(st, kind, amount) ==
  IF amount = 0 THEN st
  ELSE [types |-> Set(st.types, st.depth, kind),
        amounts |-> [st.amounts EXCEPT ![st.depth] = amount],
        depth |-> st.depth + 1]

\* What Stack::single_step can come to: [is, kind, len, st], is: "empty", "err", "object", "entry" or
\* "unit". A slot is popped before what it stands for is read.
Outcome(is, kind, len, st) == [is |-> is, kind |-> kind, len |-> len, st |-> st]
Pushed(is, kind, len, st) ==
  IF Full(st) THEN Outcome("err", 0, 0, st) ELSE Outcome(is, kind, len, Push(st, kind, len))
SingleStep(st) ==
  IF st.depth = 0 THEN {Outcome("empty", 0, 0, st)}
  ELSE LET kind == Get(st.types, st.depth - 1)
           popped == Pop(st)
       IN {Outcome("err", 0, 0, popped)} \cup
          (IF unread = 0 THEN {}
           ELSE IF kind = Object THEN {Pushed("object", Entry, n, popped) : n \in 0 .. MaxCount}
           ELSE IF kind = Entry
                THEN {Pushed("entry", k, n, popped) : k \in Kinds, n \in 0 .. MaxCount}
           ELSE {Outcome("unit", kind, 1, popped)})
Read(outcome) == IF outcome.is \in {"empty", "err"} THEN unread ELSE unread - 1

---------------------------------------------------------------------------------
(* The handles. *)

Handle(is, kind, len) == [is |-> is, kind |-> kind, len |-> len]
LastHandle == handles[Len(handles)]
Others == SubSeq(handles, 1, Len(handles) - 1)

Init ==
  /\ stack = RootObject
  /\ error = FALSE
  /\ unread = Length
  /\ handles = <<>> /\ dropping = FALSE /\ stop = -1
  /\ failed = FALSE /\ entered = 0

\* The client may call a method.
Calls(is) ==
  /\ ~dropping
  /\ IF is = "epee" THEN handles = <<>> ELSE handles # <<>> /\ LastHandle.is = is

\* The method returns an error, having consumed the handle or not.
Err(remaining) ==
  /\ failed' = TRUE
  /\ handles' = remaining
  /\ UNCHANGED <<dropping, stop, entered>>

\* Epee::entry
Reused == stack.depth # 1 \/ error
EpeeEntry ==
  /\ Calls("epee")
  /\ \/ Reused /\ Err(handles)
     \/ /\ ~Reused
        /\ handles' = <<Handle("entry", Object, 1)>>
        /\ entered' = IF entered < 2 THEN entered + 1 ELSE 2
        /\ UNCHANGED <<dropping, stop, failed>>
  /\ UNCHANGED <<stack, error, unread>>

\* EpeeEntry::fields. The entry gives up the decoder before its kind is looked at: on an error, it is
\* not advanced past.
Fields ==
  /\ Calls("entry")
  /\ \/ /\ error \/ LastHandle.kind # Object \/ LastHandle.len # 1
        /\ Err(Others)
        /\ UNCHANGED <<stack, unread>>
     \/ /\ ~error /\ LastHandle.kind = Object /\ LastHandle.len = 1
        /\ \E outcome \in SingleStep(stack) :
             /\ stack' = outcome.st /\ unread' = Read(outcome)
             /\ \/ /\ outcome.is = "object"
                   /\ handles' = Append(Others, Handle("fields", Entry, outcome.len))
                   /\ UNCHANGED <<dropping, stop, failed, entered>>
                \/ outcome.is # "object" /\ Err(Others)
  /\ UNCHANGED error

\* FieldIterator::next, of an iterator with fields left. (With none, it returns None.)
NextField ==
  /\ Calls("fields")
  /\ \/ error /\ Err(handles) /\ UNCHANGED <<stack, unread>>
     \/ /\ ~error /\ LastHandle.len > 0 /\ Len(handles) < MaxHandles
        /\ LET remaining == Append(Others, [LastHandle EXCEPT !.len = @ - 1])
           IN \E outcome \in SingleStep(stack) :
                /\ stack' = outcome.st /\ unread' = Read(outcome)
                /\ \/ /\ outcome.is = "entry"
                      /\ handles' = Append(remaining, Handle("entry", outcome.kind, outcome.len))
                      /\ UNCHANGED <<dropping, stop, failed, entered>>
                   \/ outcome.is # "entry" /\ Err(remaining)
  /\ UNCHANGED error

\* EpeeEntry::iterate.
Iterate ==
  /\ Calls("entry")
  /\ handles' = IF error THEN Others ELSE Append(Others, [LastHandle EXCEPT !.is = "array"])
  /\ failed' = (failed \/ error)
  /\ UNCHANGED <<stack, error, unread, dropping, stop, entered>>

\* ArrayIterator::next, of an iterator with items left: "EpeeEntry { .., kind: self.kind, len: 1 }".
NextItem ==
  /\ Calls("array")
  /\ \/ error /\ Err(handles)
     \/ /\ ~error /\ LastHandle.len > 0 /\ Len(handles) < MaxHandles
        /\ handles' = Append(Append(Others, [LastHandle EXCEPT !.len = @ - 1]),
                             Handle("entry", LastHandle.kind, 1))
        /\ UNCHANGED <<dropping, stop, failed, entered>>
  /\ UNCHANGED <<stack, error, unread>>

\* to_primitive, to_str. An entry of another type is dropped with the decoder still in hand, and
\* advanced past. Of the right type it is popped, and read.
ToValue ==
  /\ Calls("entry")
  /\ \E kind \in Kinds \ {Object} :
       \/ /\ LastHandle.kind # kind \/ LastHandle.len # 1
          /\ dropping' = TRUE /\ failed' = TRUE
          /\ UNCHANGED <<stack, unread, handles, stop, entered>>
       \/ /\ LastHandle.kind = kind /\ LastHandle.len = 1
          /\ stack' = IF error \/ stack.depth = 0 THEN stack ELSE Pop(stack)
          /\ \/ Err(Others) /\ UNCHANGED unread
             \/ /\ ~error /\ unread > 0
                /\ unread' = unread - 1
                /\ handles' = Others
                /\ UNCHANGED <<dropping, stop, failed, entered>>
  /\ UNCHANGED error

---------------------------------------------------------------------------------
(* Dropping a handle. *)

\* The client is done with its last handle.
DropBegin ==
  /\ ~dropping /\ handles # <<>>
  /\ dropping' = TRUE
  /\ UNCHANGED <<stack, error, unread, handles, stop, failed, entered>>

\* Stack::step: "Read until the next item within this array", or "until we've popped this item
\* entirely". Mistake: as if there always were a next item.
NextItemDepth(st) == st.depth
StopAtStackDepth(st) ==
  IF st.depth > 0 /\ st.amounts[st.depth - 1] > 1 THEN st.depth ELSE st.depth - 1

\* One item of the handle has been stepped past.
Stepped ==
  /\ handles' = Append(Others, [LastHandle EXCEPT !.len = @ - 1])
  /\ stop' = -1

\* One single_step of the steps of a drop. With nothing to peek at, a step is over at once; within a
\* step, nothing but its stack depth ends it.
DropStep ==
  /\ dropping /\ ~error /\ LastHandle.len # 0
  /\ LET at == IF stop = -1 THEN StopAtStackDepth(stack) ELSE stop
         nothing == stop = -1 /\ stack.depth = 0
     IN \E outcome \in SingleStep(stack) :
          /\ stack' = outcome.st /\ unread' = Read(outcome)
          /\ \/ outcome.is = "err" /\ error' = TRUE /\ Stepped
             \/ /\ outcome.is # "err" /\ (nothing \/ stack'.depth = at)
                /\ UNCHANGED error /\ Stepped
             \/ /\ outcome.is # "err" /\ ~nothing /\ stack'.depth # at
                /\ stop' = at /\ UNCHANGED <<error, handles>>
  /\ UNCHANGED <<dropping, failed, entered>>

\* Mistake: a handle is dropped without being advanced past.
NothingLeft == TRUE
DropDone == error \/ LastHandle.len = 0
DropEnd ==
  /\ dropping /\ stop = -1
  /\ DropDone
  /\ dropping' = FALSE
  /\ handles' = Others
  /\ UNCHANGED <<stack, error, unread, stop, failed, entered>>

---------------------------------------------------------------------------------

Client == EpeeEntry \/ Fields \/ NextField \/ Iterate \/ NextItem \/ ToValue \/ DropBegin
Dropping == DropStep \/ DropEnd

\* The client has let go of everything.
Terminated == handles = <<>> /\ UNCHANGED vars

Next == Client \/ Dropping \/ Terminated

Spec == Init /\ [][Next]_vars

\* A drop runs to its end. What the client does is up to it.
FairSpec == Spec /\ WF_vars(Dropping)

---------------------------------------------------------------------------------
(* Properties. *)

\* "written not to panic in any case", whatever is read and whatever errors are ignored: the stack's
\* indexes are within its arrays, its amounts are NonZero, and its types are ones that exist.
TypeOK ==
  /\ stack.depth \in 0 .. MaxDepth
  /\ DOMAIN stack.amounts = 0 .. MaxDepth - 1 /\ \A i \in DOMAIN stack.amounts : stack.amounts[i] > 0
  /\ DOMAIN stack.types = 0 .. (MaxDepth + 1) \div 2 - 1
  /\ \A b \in DOMAIN stack.types : stack.types[b] \in 0 .. 255
  /\ \A i \in 0 .. MaxDepth - 1 : Get(stack.types, i) \in {Entry} \cup Kinds
  /\ error \in BOOLEAN /\ unread \in 0 .. Length
  /\ \A i \in 1 .. Len(handles) : handles[i].is \in {"entry", "fields", "array"} /\ handles[i].len \in Nat
  /\ dropping \in BOOLEAN /\ (dropping => handles # <<>>)
  /\ stop \in -1 .. MaxDepth /\ failed \in BOOLEAN /\ entered \in 0 .. 2

\* What is left to decode, going by the handles: each stands for what it has not yet given out. The
\* item an array has given out is still one of the array's as long as it is not read. A slot is on the
\* stack while it has an amount: those below, and the top one, of the handles so far.
Slot(kind, amount) == [kind |-> kind, amount |-> amount]
Settled(slots) == IF slots.top.amount = 0 THEN slots.below ELSE Append(slots.below, slots.top)
Given(i) == i > 1 /\ handles[i - 1].is = "array" /\ handles[i].is # "fields"
Expected ==
  LET slots[i \in 0 .. Len(handles)] ==
        IF i = 0 THEN [below |-> <<>>, top |-> Slot(Entry, 0)]
        ELSE IF Given(i) THEN [slots[i - 1] EXCEPT !.top.amount = @ + handles[i].len]
        ELSE [below |-> Settled(slots[i - 1]), top |-> Slot(handles[i].kind, handles[i].len)]
  IN Settled(slots[Len(handles)])
Contents ==
  [i \in 1 .. stack.depth |-> Slot(Get(stack.types, i - 1), stack.amounts[i - 1])]

\* Whatever the client reads, skips, iterates partly or drops, and in whatever order, the stack is at
\* the place the handles stand for: no value is read as another, and no field as a value. When the root
\* entry is done with, the decoder is at the end, so that it is not given out again.
Aligned ==
  /\ ~error /\ ~failed /\ stop = -1 /\ entered > 0 => Contents = Expected
  /\ ~failed => entered <= 1

\* "Multiple calls to this function will cause an error to be returned.": also after errors.
EntryNeverTwice == entered <= 1

\* Advancing past what a handle did not read ends, as the encoding does, whatever amounts it claims.
DropEnds == dropping ~> ~dropping
================================================================================
