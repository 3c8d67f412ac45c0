----------------------------- MODULE DropOldest -----------------------------
(***************************************************************************)
(* What the hub promises each viewer of a camera (backend-milestones.md    *)
(* R-04, R-21, R-33): a bounded buffer that never keeps a put waiting.  A  *)
(* put goes in at once, newer than all before it; only one that has found  *)
(* the buffer full pushes the oldest frame out, and is counted.  The       *)
(* reader may come between the finding and the pushing, so that a frame    *)
(* may go although by then there is room again.  ViewerHub implements this *)
(* with three operations on a Go channel.                                  *)
(***************************************************************************)
EXTENDS Naturals, Sequences

CONSTANTS Viewers, Depth, Frames

VARIABLES buffer,   \* frames put and not yet taken, oldest first
          out,      \* the last frame taken, or 0
          full,     \* the viewers whose put has found the buffer full
          missed    \* puts that did so and are done

vars == <<buffer, out, full, missed>>

Newest(v) == IF buffer[v] = << >> THEN out[v] ELSE buffer[v][Len(buffer[v])]

Init == /\ buffer = [v \in Viewers |-> << >>]
        /\ out = [v \in Viewers |-> 0]
        /\ full = {}
        /\ missed = [v \in Viewers |-> 0]

Put(v) == /\ v \notin full /\ Len(buffer[v]) < Depth
          /\ \E f \in Frames : /\ f > Newest(v)
                               /\ buffer' = [buffer EXCEPT ![v] = Append(@, f)]
          /\ UNCHANGED <<out, full, missed>>

FindFull(v) == /\ v \notin full /\ Len(buffer[v]) = Depth
               /\ full' = full \union {v}
               /\ UNCHANGED <<buffer, out, missed>>

\* The oldest frame goes, unless the reader has left none.
PutDropping(v) ==
  /\ v \in full
  /\ \E f \in Frames :
       /\ f > Newest(v)
       /\ buffer' = [buffer EXCEPT ![v] = IF @ = << >> THEN <<f>> ELSE Append(Tail(@), f)]
  /\ full' = full \ {v}
  /\ missed' = [missed EXCEPT ![v] = @ + 1]
  /\ UNCHANGED out

Take(v) == /\ buffer[v] # << >>
           /\ out' = [out EXCEPT ![v] = Head(buffer[v])]
           /\ buffer' = [buffer EXCEPT ![v] = Tail(@)]
           /\ UNCHANGED <<full, missed>>

Next == \E v \in Viewers : Put(v) \/ FindFull(v) \/ PutDropping(v) \/ Take(v)

Spec == Init /\ [][Next]_vars
=============================================================================
