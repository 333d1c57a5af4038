-------------------------- MODULE MCTaskLifecycle --------------------------
\* Small instances of TaskLifecycle for TLC.
EXTENDS TaskLifecycle, TLC

CONSTANTS t1, t2

TwoTasks == {t1, t2}

\* Anything may go wrong with t1, nothing with t2: the tasks differ, so there is no symmetry.
FirstFails == (t1 :> Faultable) @@ (t2 :> {})
FirstTalks == (t1 :> 1) @@ (t2 :> 0)
=============================================================================
