------------------------------ MODULE PageLog ------------------------------
(***************************************************************************)
(* What the data memory promises: a log of blocks.  A block is appended    *)
(* whole into a free page and then only ever goes with a clear of the      *)
(* whole memory.  A page may be lost to a write that was cut short, and a  *)
(* clear that was cut short leaves any mixture.                            *)
(***************************************************************************)
EXTENDS Integers

CONSTANTS
    Pages,      \* page numbers
    Blocks      \* blocks, numbered in the order they are recorded

Free == 0
Lost == -1

VARIABLES
    log,        \* what each page holds: Free, Lost or a block
    clearing    \* the memory is being cleared

vars == <<log, clearing>>

Init ==
    /\ log = [p \in Pages |-> Free]
    /\ clearing = FALSE

\* A block younger than all others goes into a free page.
Append(p, b) ==
    /\ ~clearing
    /\ log[p] = Free
    /\ \A q \in Pages : log[q] < b
    /\ log' = [log EXCEPT ![p] = b]
    /\ UNCHANGED clearing

\* A write that fails costs its page, and no other.
Lose(p) ==
    /\ ~clearing
    /\ log[p] = Free
    /\ log' = [log EXCEPT ![p] = Lost]
    /\ UNCHANGED clearing

BeginClear == ~clearing /\ clearing' = TRUE /\ UNCHANGED log

Clear ==
    /\ clearing
    /\ clearing' = FALSE
    /\ log' = [p \in Pages |-> Free]

\* Power is lost while the memory is cleared.
CutClear ==
    /\ clearing
    /\ clearing' = FALSE
    /\ log' \in [Pages -> {Free, Lost} \cup Blocks]
    /\ \A p \in Pages : log'[p] \in {log[p], Free, Lost}

Next ==
    \/ \E p \in Pages : Lose(p) \/ \E b \in Blocks : Append(p, b)
    \/ BeginClear \/ Clear \/ CutClear

Spec == Init /\ [][Next]_vars

=============================================================================
