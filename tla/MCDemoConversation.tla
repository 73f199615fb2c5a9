-------------------------- MODULE MCDemoConversation --------------------------
(* Short conversations: a first message with most details, numbers that mean  *)
(* another option in every step, a rejected subject and a changed one.        *)
EXTENDS DemoConversation, TLC

CONSTANTS m1, m2, m3, m4, m5, t1, t2, w1, w2

Silent == [f \in Fields |-> Keep]
Plain == [says |-> Silent, digit |-> 0, against |-> 0]

MCText == [m \in Messages |->
  IF m = m1 THEN [Plain EXCEPT !.says = [f \in Fields |->
                    IF f \in {"mode", "preferred_times", "board"} THEN Keep ELSE 1]]
  ELSE IF m = m2 THEN [Plain EXCEPT !.digit = 1]
  ELSE IF m = m3 THEN [Plain EXCEPT !.digit = 2]
  ELSE IF m = m4 THEN [Plain EXCEPT !.says["subject"] = 1, !.against = 1]
  ELSE [Plain EXCEPT !.says["subject"] = 2, !.says["preferred_times"] = 3]]

\* Neither workers nor tutors are told apart.
Symmetry == Permutations(Workers) \cup Permutations(Tutors)
=============================================================================
