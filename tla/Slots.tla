-------------------------------- MODULE Slots ---------------------------------
(* trio's Semaphore, as backend/concurrency uses it: who finds none left waits in *)
(* line, and a slot that is given back goes to the first in line at once.         *)
EXTENDS Integers, Sequences, SequencesExt

Full(max) == [value |-> max, line |-> <<>>]

NoneLeft(sem) == sem.value = 0

Acquire(sem, t) ==
    IF NoneLeft(sem) THEN [sem EXCEPT !.line = Append(@, t)] ELSE [sem EXCEPT !.value = @ - 1]

Release(sem) ==
    IF sem.line # <<>> THEN [sem EXCEPT !.line = Tail(@)] ELSE [sem EXCEPT !.value = @ + 1]

\* A task that waits is cancelled.
Leave(sem, t) == [sem EXCEPT !.line = RemoveFirst(@, t)]

Waiting(sem) == ToSet(sem.line)
===============================================================================
