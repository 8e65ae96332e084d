----------------------------- MODULE EepStore -----------------------------
(***************************************************************************)
(* What the settings store of the firmware promises to its callers: a map  *)
(* from object ids to objects, changed by one call at a time, each call    *)
(* taking effect as a whole or not at all, also when the power fails.      *)
(*                                                                         *)
(* flash_eep.h declares the interface; FlashEep.tla models how it is done  *)
(* on two flash sectors and is checked to implement this module.           *)
(***************************************************************************)
EXTENDS Integers

CONSTANTS
  Ids,             \* object ids (EEP_ID_e)
  Vals,            \* contents an object can have
  NoVal,           \* the contents of an object that is not there
  MAX_FOBJ_SIZE    \* largest object

VARIABLES
  kv,    \* the stored objects
  op,    \* the call in progress
  ret    \* what the last call returned

vars == <<op, ret, kv>>

---------------------------------------------------------------------------
(* Objects, calls and results *)

FMEM_NOT_FOUND == -1
FMEM_SIZE_ERR  == -2
FMEM_OVERFLOW  == -3

Sizes == 0..MAX_FOBJ_SIZE

\* An absent or deleted object has size 0.
Absent  == [size |-> 0, val |-> NoVal]
Objects == {Absent} \cup [size : Sizes \ {0}, val : Vals]

\* The object a write of `size' bytes of contents `v' stores.
ObjectOf(size, v) == IF size = 0 THEN Absent ELSE [size |-> size, val |-> v]

NoOp   == [kind |-> "none"]
Writes == [kind : {"write"}, id : Ids, size : Nat, val : Vals]
Reads  == [kind : {"read"}, id : Ids, maxsize : Nat]
Erases == [kind : {"erase"}]

Result(code, v) == [code |-> code, val |-> v]
NoResult        == Result(0, NoVal)

\* What a caller that asks for at most `maxsize' bytes gets of `obj': the whole
\* object, or only a part of it.
Fetched(obj, maxsize) == IF obj.size <= maxsize THEN obj.val ELSE NoVal

TypeOK ==
  /\ kv \in [Ids -> Objects]
  /\ op \in {NoOp} \cup Writes \cup Reads \cup Erases
  /\ ret \in [code : Int, val : Vals \cup {NoVal}]

---------------------------------------------------------------------------
(* Steps *)

Init ==
  /\ kv = [i \in Ids |-> Absent]
  /\ op = NoOp
  /\ ret = NoResult

\* The caller passes the call to the store and waits for its result.
Start(o) ==
  /\ op = NoOp
  /\ op' = o
  /\ ret' = NoResult
  /\ UNCHANGED kv

Call ==
  \/ \E id \in Ids, size \in Sizes, v \in Vals :
       Start([kind |-> "write", id |-> id, size |-> size, val |-> v])
  \/ \E id \in Ids, maxsize \in Sizes :
       Start([kind |-> "read", id |-> id, maxsize |-> maxsize])
  \/ Start([kind |-> "erase"])

Return(code, v) ==
  /\ op' = NoOp
  /\ ret' = Result(code, v)

\* A call with a size over the limit is refused.
Refuse ==
  /\ op = NoOp
  /\ Return(FMEM_SIZE_ERR, NoVal)
  /\ UNCHANGED kv

\* A write changes its own object, as a whole.
CompleteWrite ==
  /\ op.kind = "write"
  /\ Return(op.size, NoVal)
  /\ kv' = [kv EXCEPT ![op.id] = ObjectOf(op.size, op.val)]

\* A write that finds no room leaves every object as it was.  There is always room for
\* an object that is stored already, and for the first one.
OverflowWrite ==
  /\ op.kind = "write"
  /\ Return(FMEM_OVERFLOW, NoVal)
  /\ op.size # 0 => kv[op.id] # ObjectOf(op.size, op.val)
  /\ \E id \in Ids : kv[id] # Absent
  /\ UNCHANGED kv

\* A deleted object may still be remembered (size 0) or forgotten (not found).
CompleteRead ==
  /\ op.kind = "read"
  /\ LET obj == kv[op.id] IN
       IF obj = Absent
       THEN \E code \in {0, FMEM_NOT_FOUND} : Return(code, NoVal)
       ELSE Return(obj.size, Fetched(obj, op.maxsize))
  /\ UNCHANGED kv

\* All objects disappear together.
Wipe ==
  /\ op.kind = "erase"
  /\ UNCHANGED <<op, ret>>
  /\ kv' = [i \in Ids |-> Absent]

CompleteErase ==
  /\ op.kind = "erase"
  /\ Return(0, NoVal)
  /\ kv' = [i \in Ids |-> Absent]

\* Power loss: the call is forgotten, the objects stay.
Crash ==
  /\ op' = NoOp
  /\ ret' = NoResult
  /\ UNCHANGED kv

\* The steps of the store itself, once it is called.
Serve ==
  \/ CompleteWrite
  \/ OverflowWrite
  \/ CompleteRead
  \/ Wipe
  \/ CompleteErase

Next == Call \/ Refuse \/ Serve \/ Crash

Spec == Init /\ [][Next]_vars
===========================================================================
