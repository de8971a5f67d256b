--------------------------- MODULE StoreContract ---------------------------
(***************************************************************************)
(* What the four allocators promise (the comment at the head of            *)
(* mip/store.h): a block is its owner's, and nobody else's, from the       *)
(* allocation to the end of its lifetime.  Perm store lives for the        *)
(* invocation, Glob store for the translation unit, Bind store until       *)
(* alloc_reinit, Syn store until drop_local_store; a mark keeps the Bind   *)
(* and Syn store allocated before it until it is unmarked.  There are no   *)
(* hunks here, only words.                                                 *)
(***************************************************************************)
EXTENDS Integers, Sequences

CONSTANTS Obs,     \* the blocks that are followed
          Words,   \* the addresses
          None

VARIABLES
  owned,    \* Obs -> None or [class, level, words]
  marks,    \* the marks, TRUE when unmarking it is pending
  phase     \* "idle", "file" or "over"

vars == <<owned, marks, phase>>

Init == /\ owned = [o \in Obs |-> None]
        /\ marks = <<>>
        /\ phase \in {"idle", "over"}   \* over: malloc refused the first hunks

\* Store that outlives nothing it should not: the blocks of the given classes
\* allocated under mark n or a later one end.
End(classes, n) ==
  owned' = [o \in Obs |-> IF owned[o] = None THEN None
                          ELSE IF owned[o].class \in classes /\ owned[o].level >= n
                               THEN None ELSE owned[o]]

\* A block is given words that no living block owns.
Allocate(o) ==
  /\ phase # "over" /\ owned[o] = None /\ owned'[o] # None
  /\ owned'[o].class = "perm" \/ phase = "file"
  /\ owned'[o].level = IF owned'[o].class \in {"syn", "bind"} THEN Len(marks) ELSE 0
  /\ owned'[o].words \subseteq Words
  /\ \A q \in Obs \ {o} :
       /\ owned'[q] = owned[q]
       /\ owned[q] # None => owned[q].words \cap owned'[o].words = {}
  /\ UNCHANGED <<marks, phase>>

\* discard2 and discard3.
Release(o) ==
  /\ phase = "file" /\ owned[o] # None /\ owned[o].class \in {"syn", "bind"}
  /\ owned' = [owned EXCEPT ![o] = None]
  /\ UNCHANGED <<marks, phase>>

Mark == /\ phase = "file"
        /\ marks' = Append(marks, FALSE)
        /\ UNCHANGED <<owned, phase>>

\* Unmarking waits until the marks above are gone.
Unmark ==
  /\ phase = "file" /\ UNCHANGED phase
  /\ \/ /\ \E i \in 2 .. Len(marks) - 1 :
             ~marks[i] /\ marks' = [marks EXCEPT ![i] = TRUE]
        /\ UNCHANGED owned
     \/ \E k \in 1 .. Len(marks) - 1 :
          /\ ~marks[k] /\ \A i \in k + 1 .. Len(marks) - 1 : marks[i]
          /\ marks' = SubSeq(marks, 1, k)
          /\ End({"syn", "bind"}, k + 1)

DropLocal == phase = "file" /\ End({"syn"}, Len(marks)) /\ UNCHANGED <<marks, phase>>
Reinit    == phase = "file" /\ End({"bind"}, Len(marks)) /\ UNCHANGED <<marks, phase>>

NewFile ==
  /\ phase' = "file" /\ phase # "over"
  /\ End({"glob", "syn", "bind"}, 0)
  /\ marks' = <<FALSE>>

EndFile ==
  /\ phase = "file" /\ Len(marks) = 1
  /\ End({"glob", "syn", "bind"}, 0)
  /\ UNCHANGED marks
  /\ phase' = "file"

Idle == phase = "file" /\ phase' = "idle" /\ UNCHANGED <<owned, marks>>

\* An error or the end of the program; then perhaps another invocation.
Stop  == phase' = "over" /\ owned' \in {owned, [o \in Obs |-> None]} /\ UNCHANGED marks
Again == phase = "over" /\ phase' = "idle" /\ UNCHANGED <<owned, marks>>
           /\ \A o \in Obs : owned[o] = None

Next == \/ \E o \in Obs : Allocate(o) \/ Release(o)
        \/ Mark \/ Unmark \/ DropLocal \/ Reinit
        \/ NewFile \/ EndFile \/ Idle \/ Stop \/ Again

Spec == Init /\ [][Next]_vars
============================================================================
