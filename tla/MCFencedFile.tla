---------------------------- MODULE MCFencedFile ----------------------------
(* Three processes, and how they may find the files.                       *)
EXTENDS FencedFile

CONSTANTS p1, p2, p3

ThreeProcs == {p1, p2, p3}
TwoProcs == {p1, p2}

Found(by, stamped, made, running) ==
  [lock |-> [by |-> by, stamped |-> stamped], guard |-> made,
   alive |-> running]

\* No lock; the lock of a dead writer, stamped or not; one of another host;
\* that of a dead writer whose stealer died too, and one process to clear both.
UsualStarts ==
  {Found(Nobody, FALSE, Nobody, ThreeProcs),
   Found(Gone, TRUE, Nobody, ThreeProcs),
   Found(Gone, FALSE, Nobody, ThreeProcs),
   Found(Foreign, TRUE, Nobody, ThreeProcs),
   Found(Gone, TRUE, Gone, {p1})}

\* A dead writer's lock and a dead stealer's guard.
DeadGuard == {Found(Gone, TRUE, Gone, TwoProcs)}

NoLeftover == {Found(Nobody, FALSE, Nobody, TwoProcs)}
=============================================================================
