--------------------------- MODULE MCJenkinsDriver ---------------------------
(* Instances of JenkinsDriver for TLC.                                      *)
EXTENDS JenkinsDriver

Cells(scenarios) ==
  [i \in 1..Len(scenarios) |-> [wire |-> "json", scenario |-> scenarios[i]]]

Loop(b, s, l) == [base |-> b, step |-> s, length |-> l]

Basic ==
  [types |-> <<1, 2>>, cells |-> Cells(<<"echo", "group">>),
   connections |-> [echo      |-> <<Loop(5, 5, 2), Loop(5, 5, 1)>>,
                    broadcast |-> <<Loop(5, 0, 2), Loop(5, 0, 1)>>,
                    group     |-> <<Loop(5, 5, 1), Loop(5, 5, 1)>>],
   groups |-> <<Loop(1, 1, 2), Loop(1, 1, 1)>>,
   mix |-> 3, local |-> FALSE, given |-> FALSE]

\* The matrix on two types; a local SignalR; a string on the command line and
\* mixed jobs; a step of 0; lists for one type only; a type without a number.
AllPlans ==
  {Basic,
   [Basic EXCEPT !.local = TRUE, !.cells = Cells(<<"echo">>)],
   [Basic EXCEPT !.given = TRUE, !.cells = Cells(<<"mix", "mix">>)],
   [Basic EXCEPT !.cells = Cells(<<"broadcast", "echo">>),
                 !.types = <<2>>],
   [Basic EXCEPT !.groups = <<Loop(1, 1, 1)>>, !.cells = Cells(<<"group">>)],
   [Basic EXCEPT !.types = <<0>>]}
=============================================================================
