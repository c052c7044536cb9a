--------------------------- MODULE MCAttribution ---------------------------
(* A small instance of the attribution of frames, and the profile built of it. *)
EXTENDS CpuProfile

CONSTANTS a1, a2, c1, c2, c3, c4

TheCodes == {c1, c2, c3, c4}

\* c2 and c3 are one function, created twice.  The file of c4 has a name that
\* is not UTF-8, which Python keeps with lone surrogates.
TheFuncLocs ==
  [c \in TheCodes |-> [name     |-> CASE c = c1 -> "CPU" [] c = c4 -> "h" [] OTHER -> "g",
                       filename |-> IF c = c4 THEN "latin1.py" ELSE "x.py"]]

\* Offset 2 is another line in c3 only.
TheLines == [c \in TheCodes |-> [o \in {0, 2} |-> IF c = c3 THEN 7 + o ELSE 7]]

TheSamples ==
  { << Frame(a1, 0) >>, << Frame(a2, 2) >>, << Frame(a1, 2), Frame(a2, 0) >>,
    << Frame(Null, kNoPyState) >> }

\* The program starts with c1 at a1 and c2 at a2, and creates the others.
SmallInit == object = [a \in {a1, a2} |-> IF a = a1 THEN c1 ELSE c2] /\ Init
SmallSpec == SmallInit /\ [][Next]_vars
=============================================================================
