---------------------------- MODULE MCTaskLists ----------------------------
(***************************************************************************)
(* Instances of TaskLists for TLC.                                         *)
(***************************************************************************)
EXTENDS TaskLists

CONSTANTS t1, t2, t3, daily, hourly, LastDay

\* Two rules: each day up to LastDay, and several times a day.
Occurrences == [x \in Rules \X Dates |->
             IF x[1] = hourly THEN x[2] ELSE IF x[2] < LastDay THEN x[2] + 1 ELSE 0]

Sub(id, done) == [id |-> id, done |-> done]
Once(id, done, subs) == [id |-> id, done |-> done, due |-> 0, rec |-> NoRule, subs |-> subs]
Each(id, done, due)  == [id |-> id, done |-> done, due |-> due, rec |-> daily, subs |-> <<>>]

\* A recurring task; the same completed, beside one that goes; the same completed
\* with another date, beside one whose date is none; two siblings, with a subtask
\* that goes; a rule without a date, beside a completed task that recurs on the
\* same day.
Requests ==
    { [tree |-> << Each(Blank, FALSE, 1) >>, auto |-> FALSE],
      [tree |-> << Once(t2, TRUE, <<>>), Each(t1, TRUE, 1) >>, auto |-> TRUE],
      [tree |-> << Each(t1, TRUE, 2), Each(t3, TRUE, 9) >>, auto |-> FALSE],
      [tree |-> << Once(t2, FALSE, << Sub(t1, TRUE) >>), Once(t3, FALSE, <<>>) >>, auto |-> TRUE],
      [tree |-> << Each(t1, FALSE, 0), [Each(t3, TRUE, 1) EXCEPT !.rec = hourly] >>,
       auto |-> FALSE] }

\* Two clients that know the task: one reopens it, one completes it.
OpenOrComplete == { [tree |-> << Each(t1, done, 1) >>, auto |-> FALSE] : done \in BOOLEAN }
=============================================================================
