---------------------------- MODULE LinearHistory ----------------------------
(***************************************************************************)
(* What the undo system promises each client: for every stack key a linear *)
(* history of commands and a cursor in it.  A new command is written at    *)
(* the cursor and cuts off what was ahead of it; undo and redo move the    *)
(* cursor by one over an unchanged history; the oldest end may be lost to  *)
(* a bound, and whole histories may be forgotten.  UndoRedo implements     *)
(* this with two arrays per key.                                           *)
(***************************************************************************)
EXTENDS Naturals, Sequences

CONSTANTS Keys, Cmds, MaxDepth

VARIABLES log, cursor

hvars == <<log, cursor>>

Init == /\ log = [k \in Keys |-> <<>>]
        /\ cursor = [k \in Keys |-> 0]

(* A command no history holds is written at the cursor.                    *)
Record(k, c) ==
  LET past == SubSeq(log[k], 1, cursor[k]) IN
  LET full == cursor[k] + 1 > MaxDepth
      next == IF full THEN Tail(Append(past, c)) ELSE Append(past, c)
  IN  /\ \A j \in Keys : \A i \in DOMAIN log[j] : log[j][i] # c
      /\ log' = [log EXCEPT ![k] = next]
      /\ cursor' = [cursor EXCEPT ![k] = Len(next)]

StepBack(k) == /\ cursor[k] > 0
               /\ cursor' = [cursor EXCEPT ![k] = @ - 1]
               /\ UNCHANGED log

StepForward(k) == /\ cursor[k] < Len(log[k])
                  /\ cursor' = [cursor EXCEPT ![k] = @ + 1]
                  /\ UNCHANGED log

DropOldest(k) == /\ cursor[k] > 0
                 /\ log' = [log EXCEPT ![k] = Tail(@)]
                 /\ cursor' = [cursor EXCEPT ![k] = @ - 1]

Forget == \E K \in SUBSET Keys :
            /\ log' = [k \in Keys |-> IF k \in K THEN <<>> ELSE log[k]]
            /\ cursor' = [k \in Keys |-> IF k \in K THEN 0 ELSE cursor[k]]

Next == \/ \E k \in Keys : \/ \E c \in Cmds : Record(k, c)
                           \/ StepBack(k) \/ StepForward(k) \/ DropOldest(k)
        \/ Forget

Spec == Init /\ [][Next]_hvars
=============================================================================
