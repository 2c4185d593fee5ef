----------------------------- MODULE MCOmpTasks -----------------------------
(* Three threads and up to four tasks, in queues with room for two tasks. *)
EXTENDS OmpTasks

CONSTANTS t1, t2, t3, t4

MCTask == {t1, t2, t3, t4}
MCThread == {0, 1, 2}

Start(t) == [do |-> "task", on |-> t]
Wait == [do |-> "wait", on |-> None]
Barrier == [do |-> "barrier", on |-> None]

Main(master, others) == [th \in MCThread |-> IF th = 0 THEN master ELSE others]

Bodies(first, second) ==
  [t \in MCTask |-> CASE t = t1 -> first [] t = t2 -> second [] OTHER -> <<>>]

\* Tied tasks: a task with a child it waits for, over an older task.
TiedProgram ==
  [main |-> Main(<<Start(t2), Start(t1)>>, <<>>),
   body |-> Bodies(<<Start(t3), Wait>>, <<Start(t4)>>),
   tied |-> MCTask, blocks |-> {t4}]

\* One thread creates more tasks than its queue holds.
FullProgram ==
  [main |-> Main(<<Start(t1), Start(t2), Start(t3), Start(t4), Wait>>, <<>>),
   body |-> Bodies(<<>>, <<>>),
   tied |-> {t1, t2, t3}, blocks |-> {t3}]

\* Untied tasks that use the stack frame of their parent, before a barrier and
\* after it.
BlockingProgram ==
  [main |-> Main(<<Start(t1), Barrier, Start(t2)>>, <<Barrier>>),
   body |-> Bodies(<<Start(t3)>>, <<Start(t4)>>),
   tied |-> {}, blocks |-> {t1, t3}]

\* Tied and untied tasks, and waits of both threads and tasks.
MixedProgram ==
  [main |-> Main(<<Start(t1), Start(t2), Wait>>, <<>>),
   body |-> Bodies(<<Start(t3), Wait>>, <<Start(t4)>>),
   tied |-> {t1, t4}, blocks |-> {t3}]

\* Two trees of a tied and an untied task.
CrossedProgram ==
  [main |-> [th \in MCThread |->
               CASE th = 0 -> <<Start(t1)>> [] th = 1 -> <<Start(t2)>> [] OTHER -> <<>>],
   body |-> Bodies(<<Start(t3), Wait>>, <<Start(t4), Wait>>),
   tied |-> {t1, t4}, blocks |-> {}]

MCPrograms == {TiedProgram, FullProgram, BlockingProgram, MixedProgram}

CrossedPrograms == {CrossedProgram}
=============================================================================
