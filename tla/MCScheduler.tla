---------------------------- MODULE MCScheduler ----------------------------
(* The programs under user/ as the scheduler sees them.  P4 and P5 make no  *)
(* system call and P3 only exits, as P8 does, so P8 stands for P3 and P7    *)
(* (preempted before it yields) for P4 and P5.                              *)
EXTENDS Scheduler

MCImages == {"console", "P6", "P7", "P8"}

MCCalls ==
  [i \in MCImages |->
     CASE i = "console" -> {"fork", "kill"}
       [] i = "P6" -> {"fork", "yield"}
       [] i = "P7" -> {"yield"}
       [] i = "P8" -> {"exit"}]

MCLoads ==
  [i \in MCImages |->
     CASE i = "console" -> {"P6", "P8"} [] i = "P6" -> {"P7"} [] OTHER -> {}]

\* what the shell user may type after "kill"
KillOthers == {-1, 1, 2}

\* the runs meet the condition under which AgesInOrder is proved
ASSUME RunsAgeSlowly == \E F \in 0 .. TOS_USER : SlowAging(3, F)
=============================================================================
